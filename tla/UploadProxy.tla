---------------------------- MODULE UploadProxy ----------------------------
(***************************************************************************)
(* The upload proxy: telemetry frames come from the decoder over ZeroMQ     *)
(* and go to the server over a WebSocket that may close at any time.        *)
(*                                                                          *)
(* Source: apps/proxy/upload_proxy.cpp.  One thread, the Qt event loop: a   *)
(* handler runs to its end before the next one starts, and only a call that *)
(* it makes can run another inside it (a failed send that closes the        *)
(* connection).  QWebSocket and the ZeroMQ subscriber are external.         *)
(***************************************************************************)
EXTENDS Integers, Sequences

CONSTANTS
    MaxPending, \* kMaximumPendingFrames (64)
    MaxPerTick, \* kMaximumFramesPerTick (64)
    MaxFrames,  \* bound: messages published
    MaxInbox,   \* messages that ZeroMQ holds for the proxy
    Sends       \* what a send on an open connection may do, see SendResults

\* A send is accepted, it fails, or it fails and the connection closes in it.
SendResults == {"sent", "failed", "lost"}

ASSUME ProxyAssumption ==
    /\ MaxPending \in Nat \ {0} /\ MaxPerTick \in Nat \ {0}
    /\ MaxFrames \in Nat /\ MaxInbox \in Nat
    /\ Sends \subseteq SendResults

VARIABLES
    conn,     \* webSocket_.state(); "refused": the handshake failed, still open
    armed,    \* reconnectTimer_ is running
    inbox,    \* messages that wait in the ZeroMQ socket
    budget,   \* messages receiveFrames may still take in this tick
    received, \* snapshot_.receivedFrames: frames are numbered as they come
    invalid,  \* snapshot_.invalidFrames
    pending,  \* pendingFrames_
    sent,     \* the frames counted in snapshot_.sentFrames
    dropped,  \* the frames counted in snapshot_.droppedFrames
    quit      \* the application has ended

socket == <<conn, armed>>
frames == <<received, pending, sent, dropped>>
vars   == <<socket, inbox, budget, frames, invalid, quit>>

Frame == 1 .. MaxFrames

TypeOK ==
    /\ conn \in {"unconnected", "connecting", "refused", "connected", "closing"}
    /\ armed \in BOOLEAN
    /\ inbox \in 0 .. MaxInbox
    /\ budget \in 0 .. MaxPerTick
    /\ received \in 0 .. MaxFrames
    /\ invalid \in 0 .. MaxFrames
    /\ pending \in Seq(Frame) /\ Len(pending) <= MaxPending
    /\ sent \subseteq Frame /\ dropped \subseteq Frame
    /\ quit \in BOOLEAN

\* webSocket_.open: an address it cannot use is reported before it returns,
\* and the error handler then starts the timer.
Open ==
    \/ conn' = "connecting" /\ armed' = FALSE
    \/ conn' = "unconnected" /\ armed' = TRUE

\* start(): the first attempt to connect.
Init ==
    /\ \/ conn = "connecting" /\ armed = FALSE
       \/ conn = "unconnected" /\ armed = TRUE
    /\ inbox = 0 /\ budget = 0
    /\ received = 0 /\ invalid = 0
    /\ pending = <<>> /\ sent = {} /\ dropped = {}
    /\ quit = FALSE

\* No handler is running.
Idle == budget = 0 /\ ~quit

-----------------------------------------------------------------------------
(***************************************************************************)
(* The WebSocket.                                                           *)
(***************************************************************************)

\* The timer is single-shot.
ReconnectTimeout ==
    /\ Idle /\ armed
    /\ IF conn = "unconnected" THEN Open
       ELSE armed' = FALSE /\ UNCHANGED conn
    /\ UNCHANGED <<inbox, budget, frames, invalid, quit>>

\* Fault: the error handler leaves the timer alone.
ConnectFailsUnarmed ==
    /\ Idle /\ conn = "connecting"
    /\ \/ conn' = "unconnected" /\ armed' = armed
       \/ conn' = "refused" /\ UNCHANGED armed
    /\ UNCHANGED <<inbox, budget, frames, invalid, quit>>

\* The error handler starts the timer when the socket is unconnected: a refused
\* handshake leaves it open, until the server closes it.
ConnectFails ==
    /\ Idle /\ conn = "connecting"
    /\ \/ conn' = "unconnected" /\ armed' = TRUE
       \/ conn' = "refused" /\ UNCHANGED armed
    /\ UNCHANGED <<inbox, budget, frames, invalid, quit>>

\* The first k frames that wait.
Flushed(k) == {pending[i] : i \in 1 .. k}

\* Fault: a frame leaves the queue before it is sent.
FlushDequeuesFirst ==
    \/ /\ "sent" \in Sends \/ pending = <<>>
       /\ pending' = <<>>
       /\ sent' = sent \cup Flushed(Len(pending))
       /\ conn' = "connected" /\ UNCHANGED armed
    \/ \E k \in 0 .. Len(pending) - 1, r \in Sends \ {"sent"} :
       /\ k > 0 => "sent" \in Sends
       /\ pending' = SubSeq(pending, k + 2, Len(pending))
       /\ sent' = sent \cup Flushed(k)
       /\ IF r = "lost" THEN conn' = "unconnected" /\ armed' = TRUE
          ELSE conn' = "connected" /\ UNCHANGED armed

\* flushPending, on a connection that has just opened: it stops at the first
\* send that fails.
FlushPending ==
    \/ /\ "sent" \in Sends \/ pending = <<>>
       /\ pending' = <<>>
       /\ sent' = sent \cup Flushed(Len(pending))
       /\ conn' = "connected" /\ UNCHANGED armed
    \/ \E k \in 0 .. Len(pending) - 1, r \in Sends \ {"sent"} :
       /\ k > 0 => "sent" \in Sends
       /\ pending' = SubSeq(pending, k + 1, Len(pending))
       /\ sent' = sent \cup Flushed(k)
       /\ IF r = "lost" THEN conn' = "unconnected" /\ armed' = TRUE
          ELSE conn' = "connected" /\ UNCHANGED armed

Connected ==
    /\ Idle /\ conn = "connecting"
    /\ FlushPending
    /\ UNCHANGED <<inbox, budget, received, dropped, invalid, quit>>

\* Closing begins with an error report or a close frame; the socket is not
\* unconnected yet, so that the error handler does nothing.
BeginClose ==
    /\ Idle /\ conn = "connected"
    /\ conn' = "closing"
    /\ UNCHANGED <<armed, inbox, budget, frames, invalid, quit>>

\* Fault: the disconnected handler leaves the timer alone.
DisconnectedUnarmed ==
    /\ Idle /\ conn \in {"refused", "connected", "closing"}
    /\ conn' = "unconnected" /\ UNCHANGED armed
    /\ UNCHANGED <<inbox, budget, frames, invalid, quit>>

Disconnected ==
    /\ Idle /\ conn \in {"refused", "connected", "closing"}
    /\ conn' = "unconnected" /\ armed' = TRUE
    /\ UNCHANGED <<inbox, budget, frames, invalid, quit>>

-----------------------------------------------------------------------------
(***************************************************************************)
(* The frames.                                                              *)
(***************************************************************************)

\* The decoder publishes a message (external).
Publish ==
    /\ ~quit /\ inbox < MaxInbox
    /\ inbox + received + invalid < MaxFrames
    /\ inbox' = inbox + 1
    /\ UNCHANGED <<socket, budget, frames, invalid, quit>>

\* receiveTimer_: receiveFrames starts.
Tick ==
    /\ Idle
    /\ budget' = MaxPerTick
    /\ UNCHANGED <<socket, inbox, frames, invalid, quit>>

\* zmq_recv finds nothing.
ReceiveNothing ==
    /\ budget > 0 /\ inbox = 0
    /\ budget' = 0
    /\ UNCHANGED <<socket, inbox, frames, invalid, quit>>

Take ==
    /\ budget > 0 /\ inbox > 0
    /\ budget' = budget - 1 /\ inbox' = inbox - 1

ReceiveInvalid ==
    /\ Take
    /\ invalid' = invalid + 1
    /\ UNCHANGED <<socket, frames, quit>>

\* A full queue drops its oldest frame.
Enqueue(f) ==
    IF Len(pending) = MaxPending
    THEN /\ pending' = Append(Tail(pending), f)
         /\ dropped' = dropped \cup {Head(pending)}
    ELSE pending' = Append(pending, f) /\ UNCHANGED dropped

\* submitFrame: the frame goes out at once if the connection is open, before
\* any that wait; otherwise, or when the send fails, it waits too.
SubmitFrame ==
    LET f == received + 1 IN
    /\ Take
    /\ received' = f
    /\ \/ /\ conn = "connected" /\ "sent" \in Sends
          /\ sent' = sent \cup {f}
          /\ UNCHANGED <<pending, dropped, socket>>
       \/ /\ Enqueue(f)
          /\ UNCHANGED sent
          /\ \/ conn # "connected" /\ UNCHANGED socket
             \/ conn = "connected" /\ "failed" \in Sends /\ UNCHANGED socket
             \/ /\ conn = "connected" /\ "lost" \in Sends
                /\ conn' = "unconnected" /\ armed' = TRUE
    /\ UNCHANGED <<invalid, quit>>

\* The application ends: the frames that wait are lost with the process.
Quit ==
    /\ Idle
    /\ quit' = TRUE /\ armed' = FALSE /\ conn' = "unconnected"
    /\ UNCHANGED <<inbox, budget, frames, invalid>>

Ended == quit /\ UNCHANGED vars

Network == ConnectFails \/ Connected \/ BeginClose \/ Disconnected

Next ==
    \/ ReconnectTimeout \/ Network
    \/ Publish \/ Tick \/ ReceiveNothing \/ ReceiveInvalid \/ SubmitFrame
    \/ Quit \/ Ended

Spec == Init /\ [][Next]_vars

\* A handler ends and Qt's timers fire; the address can be used; the server
\* closes what it has refused or is closing, and a connection on which a send
\* failed breaks; now and then, when the proxy keeps trying, the server accepts a
\* connection and takes what waits.  Strong, for ticks come in between.
LiveSpec ==
    /\ Init /\ [][Next]_vars
    /\ WF_vars(ReceiveNothing \/ ReceiveInvalid \/ SubmitFrame)
    /\ SF_vars(ReconnectTimeout /\ conn' = "connecting")
    /\ SF_vars((conn = "connected" => pending # <<>>) /\ Disconnected)
    /\ SF_vars(Connected /\ pending' = <<>>)

-----------------------------------------------------------------------------
(***************************************************************************)
(* Properties.                                                              *)
(***************************************************************************)

Queued == {pending[i] : i \in 1 .. Len(pending)}

\* The frames that wait are in the order in which they came.
PendingInOrder ==
    \A i, j \in 1 .. Len(pending) : i < j => pending[i] < pending[j]

\* Every frame received is in one place: counted as sent, counted as dropped,
\* or waiting.
EveryFrameAccounted ==
    /\ sent \cup dropped \cup Queued = 1 .. received
    /\ sent \cap dropped = {}
    /\ sent \cap Queued = {}
    /\ dropped \cap Queued = {}

\* What the full queue gives up is older than all that waits.
DroppedAreOldest ==
    \A d \in dropped, f \in Queued : d < f

\* Whatever the connection did while it was handled, every frame received is in
\* one place, the frames that wait are in order, and what a full queue gave up
\* is older than all that waits.
NothingMiscounted ==
    TypeOK /\ PendingInOrder /\ EveryFrameAccounted /\ DroppedAreOldest

\* The proxy never sits with an unconnected socket and without a timer to try
\* again.  (A refused socket has neither connection nor timer until its disconnect
\* is reported: NoFrameWaitsForever is about that.)
ReconnectScheduled ==
    conn = "unconnected" /\ ~quit => armed

\* A frame that waits is sent, or gives way to newer ones, as long as the proxy
\* runs.
NoFrameWaitsForever ==
    \A f \in Frame : f \in Queued ~> f \notin Queued \/ quit
=============================================================================
