--------------------------- MODULE SatnogsUploader ---------------------------
(***************************************************************************)
(* The SatNOGS uploader: telemetry frames arrive over ZeroMQ, wait in one   *)
(* bounded queue and are posted to the server, a few at a time.  A request  *)
(* that fails in a retriable way puts its frame back at the front of the    *)
(* queue and holds every upload until a single shared timer fires.          *)
(*                                                                          *)
(* Source: apps/satnogs-uploader/satnogs_uploader_window.cpp.  The program  *)
(* has one thread (the Qt event loop): each action is one event handler.    *)
(* Times are in clock ticks; the server, the network and the clock are the  *)
(* environment.                                                             *)
(***************************************************************************)
EXTENDS Integers, Sequences, FiniteSets, SequencesExt

CONSTANTS
    MaxPending,   \* kMaximumPendingFrames
    MaxInFlight,  \* kMaximumInFlightRequests
    MaxAttempts,  \* kMaximumUploadAttempts
    MaxDelay,     \* kMaximumRetryDelayMs, in ticks
    Second,       \* ticks in a second
    IntSize,      \* number of values of an int
    Statuses,     \* HTTP status codes a reply may carry, 0 for none
    RetryAfters,  \* seconds a Retry-After header may ask for
    MaxFrames     \* bound: frames ever received

ASSUME UploaderAssumption ==
    /\ MaxAttempts \in Nat \ {0}
    /\ MaxInFlight \in Nat \ {0}
    /\ MaxPending \in Nat
    /\ MaxInFlight <= MaxPending
    /\ Second \in Nat \ {0} /\ IntSize \in Nat \ {0}
    /\ MaxDelay \in Nat
    \* No back-off overflows: 1000 * (1 << 4) is an int.
    /\ \A n \in 1 .. MaxAttempts : Second * 2 ^ (n - 1) \in 0 .. IntSize \div 2
    /\ Statuses \subseteq Nat
    /\ RetryAfters \subseteq Nat
    /\ MaxFrames \in Nat

VARIABLES
    received,   \* receivedFrames_
    pending,    \* pendingFrames_: frames [id, attempts] in queue order
    requests,   \* network replies that have not finished, oldest first
    inFlight,   \* inFlight_
    timer,      \* retryTimer_.remainingTime(): -1 inactive, 0 about to fire
    \* History
    accepted,   \* frames the server accepted
    failed,     \* frames given up after an error
    dropped,    \* frames a full queue pushed out
    owed        \* ticks until every back-off that was granted is over

history == <<accepted, failed, dropped, owed>>
vars == <<received, pending, requests, inFlight, timer, history>>

Frame == [id : Nat, attempts : 0 .. MaxAttempts]

TypeOK ==
    /\ received \in Nat
    /\ pending \in Seq(Frame)
    /\ Len(pending) <= MaxPending
    /\ \A i \in 1 .. Len(pending) : pending[i].attempts < MaxAttempts
    /\ requests \in Seq(Frame)
    /\ \A i \in 1 .. Len(requests) : requests[i].attempts > 0
    /\ inFlight \in 0 .. MaxInFlight
    /\ timer \in -1 .. MaxDelay
    /\ accepted \in SUBSET Frame
    /\ failed \in SUBSET Frame
    /\ dropped \in SUBSET Frame
    /\ owed \in Nat

Init ==
    /\ received = 0
    /\ pending = <<>> /\ requests = <<>> /\ inFlight = 0
    /\ timer = -1
    /\ accepted = {} /\ failed = {} /\ dropped = {} /\ owed = 0

-----------------------------------------------------------------------------
(***************************************************************************)
(* When a failed upload is tried again.                                     *)
(***************************************************************************)

\* A reply carries a network error, an HTTP status (0 for none), or both.
IsRetriable(error, status) ==
    error /\ status \in {0, 408, 425, 429} \cup 500 .. 599

Lesser(a, b)  == IF a <= b THEN a ELSE b
Greater(a, b) == IF a >= b THEN a ELSE b

\* The value an int takes for the integer x.
WrapInt(x) == ((x + IntSize \div 2) % IntSize) - IntSize \div 2

\* Without a readable header the code passes -1.
\* retryAfterSeconds * 1000 overflows for a large header.  That is undefined:
\* the build may wrap, or may compare before it multiplies.
ServerDelays(retryAfter) ==
    IF retryAfter < 0 THEN {0}
    ELSE {Lesser(retryAfter * Second, MaxDelay),
          Lesser(WrapInt(retryAfter * Second), MaxDelay)}

Exponential(attempt) == Second * 2 ^ (attempt - 1)

RetryDelays(attempt, retryAfter) ==
    {Lesser(Greater(Exponential(attempt), server), MaxDelay) :
        server \in ServerDelays(retryAfter)}

\* What the retry must wait whatever the header did to the computation.
Promised(attempt, delay) == Greater(delay, Lesser(Exponential(attempt), MaxDelay))

-----------------------------------------------------------------------------
(***************************************************************************)
(* submitPending and submitFrame: post frames while there is room.          *)
(***************************************************************************)

TimerActive == timer >= 0

\* How many frames submitPending takes from the queue.
Postable(queue, busy, held) ==
    IF held THEN 0 ELSE Lesser(MaxInFlight - busy, Len(queue))

Attempted(f) == [f EXCEPT !.attempts = @ + 1]

SubmitPending(queue, replies, busy, held) ==
    LET n == Postable(queue, busy, held) IN
    /\ pending'  = SubSeq(queue, n + 1, Len(queue))
    /\ requests' = replies \o [i \in 1 .. n |-> Attempted(queue[i])]
    /\ inFlight' = busy + n

-----------------------------------------------------------------------------
(***************************************************************************)
(* receiveFrames and enqueueFrame.  A tick of the receive timer may take    *)
(* several frames from the socket; each is queued as if it came alone.      *)
(***************************************************************************)

\* Fault: the oldest frame is pushed out even when it is a retry.
NeverHoldsRetry(queue) == FALSE

HoldsRetry(queue) == \E i \in 1 .. Len(queue) : queue[i].attempts > 0

Full(queue) == Len(queue) >= MaxPending

EnqueueFrame ==
    LET f == [id |-> received + 1, attempts |-> 0] IN
    /\ received < MaxFrames
    /\ received' = received + 1
    /\ \/ /\ ~Full(pending)
          /\ SubmitPending(Append(pending, f), requests, inFlight, TimerActive)
          /\ UNCHANGED dropped
       \/ /\ Full(pending) /\ HoldsRetry(pending)
          /\ dropped' = dropped \cup {f}
          /\ UNCHANGED <<pending, requests, inFlight>>
       \/ /\ Full(pending) /\ ~HoldsRetry(pending)
          /\ dropped' = dropped \cup {Head(pending)}
          /\ SubmitPending(Append(Tail(pending), f), requests, inFlight,
                           TimerActive)
    /\ UNCHANGED <<timer, accepted, failed, owed>>

-----------------------------------------------------------------------------
(***************************************************************************)
(* The finished signal of the i-th outstanding reply.  A request without an *)
(* answer for 15 seconds is aborted, which finishes it with an error and    *)
(* the status, if any, that had arrived.                                    *)
(***************************************************************************)

\* Fault: a retry restarts the timer with its own delay alone.
RestartTimer(delay) == delay

\* The timer a retry starts never ends an earlier back-off early.
NextTimer(delay) == Greater(timer, delay)

\* Fault: a full queue loses its oldest frame to the retry.
QueueOverOldest(f) == <<f>> \o (IF Full(pending) THEN Tail(pending) ELSE pending)

\* A full queue loses its newest frame to the retry.
QueueInFront(f) == <<f>> \o (IF Full(pending) THEN Front(pending) ELSE pending)

RetryFrame(f, retryAfter) ==
    /\ pending' = QueueInFront(f)
    /\ dropped' = IF Full(pending) THEN dropped \cup {Last(pending)}
                                   ELSE dropped
    /\ \E delay \in RetryDelays(f.attempts, retryAfter) :
          /\ timer' = NextTimer(delay)
          /\ owed' = Greater(owed, Promised(f.attempts, delay))
    /\ UNCHANGED <<accepted, failed>>

\* Fault: a frame that is given up does not let the next ones go.
ResolveWithoutSubmit(f, error, i) ==
    /\ accepted' = IF error THEN accepted ELSE accepted \cup {f}
    /\ failed'   = IF error THEN failed \cup {f} ELSE failed
    /\ IF error THEN UNCHANGED pending /\ requests' = RemoveAt(requests, i)
                     /\ inFlight' = inFlight - 1
                ELSE SubmitPending(pending, RemoveAt(requests, i),
                                   inFlight - 1, TimerActive)

\* The frame leaves the program, and others may be posted in its place.
Resolve(f, error, i) ==
    /\ accepted' = IF error THEN accepted ELSE accepted \cup {f}
    /\ failed'   = IF error THEN failed \cup {f} ELSE failed
    /\ SubmitPending(pending, RemoveAt(requests, i), inFlight - 1, TimerActive)

MayRetry(f) == f.attempts < MaxAttempts

Finished(i, error, status, retryAfter) ==
    LET f == requests[i] IN
    /\ \/ /\ MayRetry(f) /\ IsRetriable(error, status)
          /\ RetryFrame(f, retryAfter)
          /\ requests' = RemoveAt(requests, i)
          /\ inFlight' = inFlight - 1
       \/ /\ ~(MayRetry(f) /\ IsRetriable(error, status))
          /\ Resolve(f, error, i)
          /\ UNCHANGED <<timer, dropped, owed>>
    /\ UNCHANGED received

Finish ==
    \E i \in 1 .. Len(requests), error \in BOOLEAN, status \in Statuses,
       retryAfter \in RetryAfters \cup {-1} :
        Finished(i, error, status, retryAfter)

-----------------------------------------------------------------------------
(***************************************************************************)
(* The retry timer and the clock.                                           *)
(***************************************************************************)

\* The single-shot timer is inactive when its slot runs.
TimerFires ==
    /\ timer = 0
    /\ timer' = -1
    /\ SubmitPending(pending, requests, inFlight, FALSE)
    /\ UNCHANGED <<received, history>>

Tick ==
    /\ timer > 0
    /\ timer' = timer - 1
    /\ owed' = Greater(owed - 1, 0)
    /\ UNCHANGED <<received, pending, requests, inFlight, accepted, failed,
                   dropped>>

\* Every frame has been received and resolved: the program waits for ever.
Quiet ==
    /\ received = MaxFrames
    /\ requests = <<>> /\ pending = <<>> /\ timer = -1
    /\ UNCHANGED vars

Next == EnqueueFrame \/ Finish \/ TimerFires \/ Tick \/ Quiet

Spec == Init /\ [][Next]_vars

\* Every request finishes, at the latest when it is aborted, and the event
\* loop delivers due timers.
FairSpec ==
    /\ Spec
    /\ WF_vars(Finish)
    /\ WF_vars(TimerFires)
    /\ WF_vars(Tick)

-----------------------------------------------------------------------------
(***************************************************************************)
(* Properties.                                                              *)
(***************************************************************************)

\* The counter that limits requests equals the number of requests.
InFlightCounted == inFlight = Len(requests)

\* A frame waiting for a retry stands so near the front of the queue that,
\* with the requests in flight, it fits in the request window.
RetriesFitWindow ==
    \A i \in 1 .. Len(pending) :
        pending[i].attempts > 0 => i + inFlight <= MaxInFlight

\* A full queue only pushes out frames that were never posted: one that the
\* program promised to retry is never lost, neither to a new frame (enqueueFrame
\* keeps a queue that holds a retry) nor to another retry (the finished lambda
\* removes the newest frame).
RetryNeverDropped == \A f \in dropped : f.attempts = 0

\* Every received frame is in exactly one place: the queue, a request, or one
\* of the outcomes that the operator is told of.
EachFrameOnce ==
    LET ids(frames) == {f.id : f \in frames}
        places == <<ids(ToSet(pending)), ids(ToSet(requests)), ids(accepted),
                    ids(failed), ids(dropped)>>
    IN  /\ TypeOK
        /\ UNION ToSet(places) = 1 .. received
        /\ Len(pending) + Len(requests) + Cardinality(accepted)
             + Cardinality(failed) + Cardinality(dropped) = received

\* The shared timer never fires before a back-off that any frame was granted
\* is over, whatever other requests finished meanwhile; and no header, not even
\* one that overflows the multiplication, shortens the exponential back-off.
BackoffHonoured == owed <= Greater(timer, 0)

\* Every frame that was received is accepted, given up or dropped in the end.
EveryFrameResolved ==
    \A id \in 1 .. MaxFrames :
        received >= id ~>
            \E f \in accepted \cup failed \cup dropped : f.id = id
=============================================================================
