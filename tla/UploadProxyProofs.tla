------------------------- MODULE UploadProxyProofs -------------------------
(***************************************************************************)
(* Proofs about UploadProxy, for every size of the queue and of a tick,     *)
(* every number of messages and every behaviour of sends.                   *)
(***************************************************************************)
EXTENDS UploadProxy, TLAPS

\* The bound of the model.
Bounded == inbox + received + invalid <= MaxFrames

IInv ==
    /\ TypeOK /\ Bounded
    /\ PendingInOrder /\ EveryFrameAccounted /\ DroppedAreOldest
    /\ ReconnectScheduled

Elems(s) == {s[i] : i \in 1 .. Len(s)}
Increasing(s) == \A i, j \in 1 .. Len(s) : i < j => s[i] < s[j]

-----------------------------------------------------------------------------
(***************************************************************************)
(* Increasing sequences.                                                    *)
(***************************************************************************)

\* What flushPending and a full queue leave: a suffix, whose elements are not
\* among those that went before it.
LEMMA SuffixOfIncreasing ==
    ASSUME NEW s \in Seq(Frame), NEW k \in 0 .. Len(s), Increasing(s)
    PROVE  LET t == SubSeq(s, k + 1, Len(s))
               gone == {s[i] : i \in 1 .. k}
           IN  /\ t \in Seq(Frame) /\ Len(t) = Len(s) - k
               /\ Increasing(t)
               /\ Elems(s) = gone \cup Elems(t)
               /\ gone \cap Elems(t) = {}
               /\ \A g \in gone, e \in Elems(t) : g < e
  <1> DEFINE t == SubSeq(s, k + 1, Len(s))
             gone == {s[i] : i \in 1 .. k}
  <1>1. t \in Seq(Frame) /\ Len(t) = Len(s) - k
    OBVIOUS
  <1>2. \A i \in 1 .. Len(t) : t[i] = s[i + k] /\ i + k \in 1 .. Len(s)
    OBVIOUS
  <1>3. \A i \in 1 .. Len(s) : s[i] \in Nat
    BY ProxyAssumption DEF Frame
  <1> HIDE DEF t
  <1>4. Increasing(t)
    BY <1>1, <1>2 DEF Increasing
  <1>5. \A g \in gone, e \in Elems(t) : g < e
    <2> SUFFICES ASSUME NEW i \in 1 .. k, NEW j \in 1 .. Len(t)
                 PROVE  s[i] < t[j]
      BY DEF Elems
    <2>1. i \in 1 .. Len(s) /\ i < j + k
      BY <1>1
    <2> QED
      BY <2>1, <1>2 DEF Increasing
  <1>6. Elems(s) = gone \cup Elems(t)
    <2>1. \A i \in 1 .. Len(s) : s[i] \in gone \cup Elems(t)
      <3> TAKE i \in 1 .. Len(s)
      <3>1. CASE i \in 1 .. k
        BY <3>1
      <3>2. CASE i \notin 1 .. k
        <4>1. i - k \in 1 .. Len(t) /\ (i - k) + k = i
          BY <3>2, <1>1
        <4> QED
          BY <4>1, <1>2 DEF Elems
      <3> QED
        BY <3>1, <3>2
    <2>2. \A i \in 1 .. Len(t) : t[i] \in Elems(s)
      BY <1>2 DEF Elems
    <2>3. \A i \in 1 .. k : s[i] \in Elems(s)
      BY DEF Elems
    <2>4. Elems(s) \subseteq gone \cup Elems(t)
      BY <2>1 DEF Elems
    <2>5. Elems(t) \subseteq Elems(s)
      BY <2>2 DEF Elems
    <2> QED
      BY <2>3, <2>4, <2>5
  <1>7. gone \subseteq Nat
    BY <1>3
  <1>8. gone \cap Elems(t) = {}
    <2> SUFFICES ASSUME NEW g \in gone, g \in Elems(t) PROVE FALSE
      OBVIOUS
    <2>1. g < g /\ g \in Nat
      BY <1>5, <1>7
    <2> QED
      BY <2>1
  <1> QED
    BY <1>1, <1>4, <1>5, <1>6, <1>8 DEF t

\* A frame newer than all that wait goes to the end of the queue.
LEMMA AppendToIncreasing ==
    ASSUME NEW s \in Seq(Frame), NEW f \in Frame, Increasing(s),
           \A e \in Elems(s) : e < f
    PROVE  /\ Append(s, f) \in Seq(Frame) /\ Len(Append(s, f)) = Len(s) + 1
           /\ Increasing(Append(s, f))
           /\ Elems(Append(s, f)) = Elems(s) \cup {f}
  <1> DEFINE t == Append(s, f)
  <1>1. t \in Seq(Frame) /\ Len(t) = Len(s) + 1
    OBVIOUS
  <1>2. \A i \in 1 .. Len(s) : t[i] = s[i]
    OBVIOUS
  <1>3. t[Len(s) + 1] = f
    OBVIOUS
  <1> HIDE DEF t
  <1>4. Increasing(t)
    <2> SUFFICES ASSUME NEW i \in 1 .. Len(t), NEW j \in 1 .. Len(t), i < j
                 PROVE  t[i] < t[j]
      BY DEF Increasing
    <2>1. i \in 1 .. Len(s)
      BY <1>1
    <2>2. CASE j \in 1 .. Len(s)
      BY <2>1, <2>2, <1>2 DEF Increasing
    <2>3. CASE j = Len(s) + 1
      BY <2>1, <2>3, <1>2, <1>3 DEF Elems
    <2> QED
      BY <1>1, <2>2, <2>3
  <1>5. Elems(t) = Elems(s) \cup {f}
    <2>1. \A i \in 1 .. Len(t) : t[i] \in Elems(s) \cup {f}
      <3> TAKE i \in 1 .. Len(t)
      <3>1. i \in 1 .. Len(s) \/ i = Len(s) + 1
        BY <1>1
      <3> QED
        BY <3>1, <1>2, <1>3 DEF Elems
    <2>2. \A i \in 1 .. Len(s) : s[i] \in Elems(t)
      <3> TAKE i \in 1 .. Len(s)
      <3>1. i \in 1 .. Len(t)
        BY <1>1
      <3> QED
        BY <3>1, <1>2 DEF Elems
    <2>3. f \in Elems(t)
      <3>1. Len(s) + 1 \in 1 .. Len(t)
        BY <1>1
      <3> QED
        BY <3>1, <1>3 DEF Elems
    <2> QED
      BY <2>1, <2>2, <2>3 DEF Elems
  <1> QED
    BY <1>1, <1>4, <1>5 DEF t

-----------------------------------------------------------------------------
(***************************************************************************)
(* The inductive invariant.                                                 *)
(***************************************************************************)

\* The counters of a frame that is sent, waits or was dropped are its number.
LEMMA QueuedFacts ==
    ASSUME IInv
    PROVE  /\ pending \in Seq(Frame) /\ Increasing(pending)
           /\ Queued = Elems(pending)
           /\ \A e \in Elems(pending) : e \in 1 .. received
           /\ received \in Nat
  BY DEF IInv, TypeOK, PendingInOrder, EveryFrameAccounted, Queued, Elems,
         Increasing

\* The invariant, as far as it depends on the frames, follows from the facts
\* about the next queue that the lemmas give.
LEMMA FramesKept ==
    ASSUME IInv,
           received' \in 0 .. MaxFrames,
           pending' \in Seq(Frame), Len(pending') <= MaxPending,
           Increasing(pending'),
           sent' \cup dropped' \cup Elems(pending') = 1 .. received',
           sent' \cap dropped' = {},
           sent' \cap Elems(pending') = {},
           dropped' \cap Elems(pending') = {},
           \A d \in dropped', e \in Elems(pending') : d < e
    PROVE  /\ pending' \in Seq(Frame) /\ sent' \subseteq Frame /\ dropped' \subseteq Frame
           /\ PendingInOrder' /\ EveryFrameAccounted' /\ DroppedAreOldest'
  <1>1. 1 .. received' \subseteq Frame
    BY ProxyAssumption DEF Frame
  <1>2. Queued' = Elems(pending')
    BY DEF Queued, Elems
  <1>3. PendingInOrder'
    BY DEF PendingInOrder, Increasing
  <1> QED
    BY <1>1, <1>2, <1>3 DEF EveryFrameAccounted, DroppedAreOldest

LEMMA InitIInv == Init => IInv
  <1> SUFFICES ASSUME Init PROVE IInv
    OBVIOUS
  <1>a. conn \in {"connecting", "unconnected"} /\ armed \in BOOLEAN
    BY DEF Init
  <1>b. pending \in Seq(Frame) /\ Len(pending) <= MaxPending
    BY ProxyAssumption DEF Init
  <1>c. /\ inbox \in 0 .. MaxInbox /\ budget \in 0 .. MaxPerTick
        /\ received \in 0 .. MaxFrames /\ invalid \in 0 .. MaxFrames
    BY ProxyAssumption DEF Init
  <1>d. Bounded
    BY ProxyAssumption DEF Init, Bounded
  <1>1. TypeOK /\ Bounded
    BY <1>a, <1>b, <1>c, <1>d DEF Init, TypeOK
  <1>2. Queued = {} /\ 1 .. received = {}
    BY DEF Init, Queued
  <1>3. EveryFrameAccounted /\ DroppedAreOldest
    BY <1>2 DEF Init, EveryFrameAccounted, DroppedAreOldest
  <1>4. PendingInOrder /\ ReconnectScheduled
    BY DEF Init, PendingInOrder, ReconnectScheduled
  <1> QED
    BY <1>1, <1>3, <1>4 DEF IInv

\* The frames a flush has sent leave the queue; the others stay in order.
LEMMA FlushKeeps ==
    ASSUME IInv, FlushPending, UNCHANGED <<received, dropped>>
    PROVE  /\ pending' \in Seq(Frame) /\ Len(pending') <= MaxPending
           /\ sent' \subseteq Frame
           /\ PendingInOrder' /\ EveryFrameAccounted' /\ DroppedAreOldest'
  <1>1. PICK k \in 0 .. Len(pending) :
           /\ pending' = SubSeq(pending, k + 1, Len(pending))
           /\ sent' = sent \cup Flushed(k)
    <2>1. CASE pending' = <<>> /\ sent' = sent \cup Flushed(Len(pending))
      <3>1. SubSeq(pending, Len(pending) + 1, Len(pending)) = <<>>
        BY DEF IInv, TypeOK
      <3>2. Len(pending) \in 0 .. Len(pending)
        BY DEF IInv, TypeOK
      <3> QED
        BY <2>1, <3>1, <3>2
    <2>2. CASE \E k \in 0 .. Len(pending) - 1 :
                  /\ pending' = SubSeq(pending, k + 1, Len(pending))
                  /\ sent' = sent \cup Flushed(k)
      <3>1. \A k \in 0 .. Len(pending) - 1 : k \in 0 .. Len(pending)
        BY DEF IInv, TypeOK
      <3> QED
        BY <2>2, <3>1
    <2> QED
      BY <2>1, <2>2 DEF FlushPending
  <1> DEFINE gone == {pending[i] : i \in 1 .. k}
  <1>2. /\ pending' \in Seq(Frame) /\ Len(pending') = Len(pending) - k
        /\ Increasing(pending')
        /\ Elems(pending) = gone \cup Elems(pending')
        /\ gone \cap Elems(pending') = {}
    BY <1>1, QueuedFacts, SuffixOfIncreasing
  <1>3. sent' = sent \cup gone
    BY <1>1 DEF Flushed
  <1>4. Len(pending') <= MaxPending
    BY <1>2, ProxyAssumption DEF IInv, TypeOK
  <1>5. received' = received /\ dropped' = dropped /\ received \in 0 .. MaxFrames
    BY DEF IInv, TypeOK
  <1>6. /\ sent \cup dropped \cup Elems(pending) = 1 .. received
        /\ sent \cap dropped = {} /\ sent \cap Elems(pending) = {}
        /\ dropped \cap Elems(pending) = {}
        /\ \A d \in dropped, e \in Elems(pending) : d < e
    BY QueuedFacts DEF IInv, EveryFrameAccounted, DroppedAreOldest
  <1> HIDE DEF gone
  <1>7. /\ sent' \cup dropped' \cup Elems(pending') = 1 .. received'
        /\ sent' \cap dropped' = {} /\ sent' \cap Elems(pending') = {}
        /\ dropped' \cap Elems(pending') = {}
        /\ \A d \in dropped', e \in Elems(pending') : d < e
    BY <1>2, <1>3, <1>5, <1>6
  <1> QED
    BY <1>2, <1>4, <1>5, <1>7, FramesKept

\* A frame that cannot be sent waits; a full queue gives up its oldest one.
LEMMA EnqueueKeeps ==
    ASSUME IInv, received + 1 \in Frame, received' = received + 1,
           Enqueue(received + 1), UNCHANGED sent
    PROVE  /\ pending' \in Seq(Frame) /\ Len(pending') <= MaxPending
           /\ dropped' \subseteq Frame
           /\ PendingInOrder' /\ EveryFrameAccounted' /\ DroppedAreOldest'
  <1> DEFINE f == received + 1
  <1>1. /\ sent \cup dropped \cup Elems(pending) = 1 .. received
        /\ sent \cap dropped = {} /\ sent \cap Elems(pending) = {}
        /\ dropped \cap Elems(pending) = {}
        /\ \A d \in dropped, e \in Elems(pending) : d < e
    BY QueuedFacts DEF IInv, EveryFrameAccounted, DroppedAreOldest
  <1>2. received \in Nat /\ 1 .. f = (1 .. received) \cup {f} /\ f \notin 1 .. received
    BY QueuedFacts
  <1>3. f \in 0 .. MaxFrames
    BY ProxyAssumption DEF Frame
  <1>4. \A e \in 1 .. received : e < f
    BY <1>2
  <1>5. CASE Len(pending) = MaxPending
    <2> DEFINE t == SubSeq(pending, 1 + 1, Len(pending))
               h == pending[1]
    <2>1. Tail(pending) = t /\ Head(pending) = h /\ 1 \in 0 .. Len(pending)
      BY <1>5, QueuedFacts, ProxyAssumption
    <2>2. {pending[i] : i \in 1 .. 1} = {h}
      OBVIOUS
    <2>3. /\ t \in Seq(Frame) /\ Len(t) = Len(pending) - 1
          /\ Increasing(t)
          /\ Elems(pending) = {h} \cup Elems(t)
          /\ {h} \cap Elems(t) = {}
          /\ \A e \in Elems(t) : h < e
      BY <2>1, <2>2, QueuedFacts, SuffixOfIncreasing
    <2>4. pending' = Append(t, f) /\ dropped' = dropped \cup {h}
      BY <1>5, <2>1 DEF Enqueue
    <2> HIDE DEF t, h
    <2>5. \A e \in Elems(t) : e < f
      BY <2>3, <1>4, QueuedFacts
    <2>6. /\ pending' \in Seq(Frame) /\ Len(pending') = Len(t) + 1
          /\ Increasing(pending')
          /\ Elems(pending') = Elems(t) \cup {f}
      BY <2>3, <2>4, <2>5, AppendToIncreasing
    <2>7. Len(pending') <= MaxPending
      BY <2>3, <2>6, <1>5, QueuedFacts, ProxyAssumption
    <2>8. h \in 1 .. received /\ dropped \subseteq 1 .. received
      BY <1>1, <2>3, QueuedFacts
    <2>9. \A d \in dropped', e \in Elems(pending') : d < e
      BY <1>1, <1>4, <2>3, <2>4, <2>6, <2>8
    <2>10. /\ sent' \cup dropped' \cup Elems(pending') = 1 .. received'
           /\ sent' \cap dropped' = {} /\ sent' \cap Elems(pending') = {}
           /\ dropped' \cap Elems(pending') = {}
      BY <1>1, <1>2, <2>3, <2>4, <2>6
    <2> QED
      BY <1>3, <2>6, <2>7, <2>9, <2>10, FramesKept
  <1>6. CASE Len(pending) # MaxPending
    <2>1. pending' = Append(pending, f) /\ dropped' = dropped
      BY <1>6 DEF Enqueue
    <2>2. \A e \in Elems(pending) : e < f
      BY <1>4, QueuedFacts
    <2>3. /\ pending' \in Seq(Frame) /\ Len(pending') = Len(pending) + 1
          /\ Increasing(pending')
          /\ Elems(pending') = Elems(pending) \cup {f}
      BY <2>1, <2>2, QueuedFacts, AppendToIncreasing
    <2>4. Len(pending') <= MaxPending
      BY <1>6, <2>3, ProxyAssumption DEF IInv, TypeOK
    <2>5. dropped \subseteq 1 .. received
      BY <1>1
    <2>6. /\ sent' \cup dropped' \cup Elems(pending') = 1 .. received'
          /\ sent' \cap dropped' = {} /\ sent' \cap Elems(pending') = {}
          /\ dropped' \cap Elems(pending') = {}
          /\ \A d \in dropped', e \in Elems(pending') : d < e
      BY <1>1, <1>2, <1>4, <2>1, <2>3, <2>5
    <2> QED
      BY <1>3, <2>3, <2>4, <2>6, FramesKept
  <1> QED
    BY <1>5, <1>6

\* A step that leaves the frames alone leaves what is said of them.
LEMMA FramesUnchanged ==
    ASSUME IInv, UNCHANGED frames
    PROVE  /\ PendingInOrder' /\ EveryFrameAccounted' /\ DroppedAreOldest'
           /\ received' \in 0 .. MaxFrames
           /\ pending' \in Seq(Frame) /\ Len(pending') <= MaxPending
           /\ sent' \subseteq Frame /\ dropped' \subseteq Frame
  BY DEF IInv, TypeOK, frames, PendingInOrder, EveryFrameAccounted,
         DroppedAreOldest, Queued

\* A frame that is sent at once is counted as sent.
LEMMA SentKeeps ==
    ASSUME IInv, received + 1 \in Frame, received' = received + 1,
           sent' = sent \cup {received + 1}, UNCHANGED <<pending, dropped>>
    PROVE  /\ pending' \in Seq(Frame) /\ Len(pending') <= MaxPending
           /\ sent' \subseteq Frame
           /\ PendingInOrder' /\ EveryFrameAccounted' /\ DroppedAreOldest'
  <1> DEFINE f == received + 1
  <1>1. /\ sent \cup dropped \cup Elems(pending) = 1 .. received
        /\ sent \cap dropped = {} /\ sent \cap Elems(pending) = {}
        /\ dropped \cap Elems(pending) = {}
        /\ \A d \in dropped, e \in Elems(pending) : d < e
    BY QueuedFacts DEF IInv, EveryFrameAccounted, DroppedAreOldest
  <1>2. received \in Nat /\ 1 .. f = (1 .. received) \cup {f} /\ f \notin 1 .. received
    BY QueuedFacts
  <1>3. f \in 0 .. MaxFrames
    BY ProxyAssumption DEF Frame
  <1>4. /\ sent' \cup dropped' \cup Elems(pending') = 1 .. received'
        /\ sent' \cap dropped' = {} /\ sent' \cap Elems(pending') = {}
        /\ dropped' \cap Elems(pending') = {}
        /\ \A d \in dropped', e \in Elems(pending') : d < e
    BY <1>1, <1>2
  <1>5. pending' \in Seq(Frame) /\ Len(pending') <= MaxPending /\ Increasing(pending')
    BY QueuedFacts DEF IInv, TypeOK
  <1> QED
    BY <1>3, <1>4, <1>5, FramesKept

LEMMA PartOfSum ==
    ASSUME NEW a \in Nat, NEW b \in Nat, NEW c \in Nat, NEW d \in Nat,
           a + b + c <= d
    PROVE  c <= d
  OBVIOUS

\* The steps that do not move frames: the invariant depends on the type of what
\* they assign, on the bound, and on the timer.
LEMMA QuietStep ==
    ASSUME IInv, UNCHANGED frames,
           conn' \in {"unconnected", "connecting", "refused", "connected", "closing"},
           armed' \in BOOLEAN, quit' \in BOOLEAN,
           inbox' \in 0 .. MaxInbox, budget' \in 0 .. MaxPerTick,
           invalid' \in Nat, inbox' + received + invalid' <= MaxFrames,
           conn' = "unconnected" /\ ~quit' => armed'
    PROVE  IInv'
  <1>a. received \in Nat /\ received' = received
    BY DEF IInv, TypeOK, frames
  <1>1. Bounded'
    BY <1>a DEF Bounded
  <1>b. invalid' <= MaxFrames
    <2>1. inbox' \in Nat /\ MaxFrames \in Nat
      BY ProxyAssumption
    <2>2. inbox' + received + invalid' <= MaxFrames /\ invalid' \in Nat
      OBVIOUS
    <2> QED
      BY <1>a, <2>1, <2>2, PartOfSum
  <1>c. invalid' \in 0 .. MaxFrames
    BY <1>b, ProxyAssumption
  <1>2. ReconnectScheduled'
    BY DEF ReconnectScheduled
  <1>3. TypeOK'
    BY <1>c, FramesUnchanged DEF TypeOK
  <1> QED
    BY <1>1, <1>2, <1>3, FramesUnchanged DEF IInv

LEMMA NextIInv == IInv /\ [Next]_vars => IInv'
  <1> SUFFICES ASSUME IInv, [Next]_vars PROVE IInv'
    OBVIOUS
  <1> USE ProxyAssumption
  <1>a. /\ conn \in {"unconnected", "connecting", "refused", "connected", "closing"}
        /\ armed \in BOOLEAN /\ quit \in BOOLEAN
        /\ inbox \in 0 .. MaxInbox /\ budget \in 0 .. MaxPerTick
        /\ received \in 0 .. MaxFrames /\ invalid \in Nat
        /\ inbox + received + invalid <= MaxFrames
        /\ conn = "unconnected" /\ ~quit => armed
    BY DEF IInv, TypeOK, Bounded, ReconnectScheduled
  <1>1. CASE ReconnectTimeout
    BY <1>1, <1>a, QuietStep DEF ReconnectTimeout, Open, frames
  <1>2. CASE ConnectFails
    BY <1>2, <1>a, QuietStep DEF ConnectFails, frames
  <1>3. CASE Connected
    <2>1. FlushPending /\ UNCHANGED <<inbox, budget, received, dropped, invalid, quit>>
      BY <1>3 DEF Connected
    <2>2. /\ pending' \in Seq(Frame) /\ Len(pending') <= MaxPending
          /\ sent' \subseteq Frame
          /\ PendingInOrder' /\ EveryFrameAccounted' /\ DroppedAreOldest'
      BY <2>1, FlushKeeps
    <2>3. /\ conn' \in {"unconnected", "connected"} /\ armed' \in BOOLEAN
          /\ conn' = "unconnected" => armed'
      BY <2>1, <1>a DEF FlushPending
    <2>4. TypeOK' /\ Bounded' /\ ReconnectScheduled'
      BY <2>1, <2>2, <2>3 DEF IInv, TypeOK, Bounded, ReconnectScheduled
    <2> QED
      BY <2>2, <2>4 DEF IInv
  <1>4. CASE BeginClose
    BY <1>4, <1>a, QuietStep DEF BeginClose, frames
  <1>5. CASE Disconnected
    BY <1>5, <1>a, QuietStep DEF Disconnected, frames
  <1>6. CASE Publish
    BY <1>6, <1>a, QuietStep DEF Publish, socket, frames
  <1>7. CASE Tick
    BY <1>7, <1>a, QuietStep DEF Tick, socket, frames
  <1>8. CASE ReceiveNothing
    BY <1>8, <1>a, QuietStep DEF ReceiveNothing, socket, frames
  <1>9. CASE ReceiveInvalid
    BY <1>9, <1>a, QuietStep DEF ReceiveInvalid, Take, socket, frames
  <1>10. CASE SubmitFrame
    <2> DEFINE f == received + 1
    <2>1. /\ received' = f /\ UNCHANGED <<invalid, quit>>
          /\ budget > 0 /\ inbox > 0 /\ budget' = budget - 1 /\ inbox' = inbox - 1
      BY <1>10 DEF SubmitFrame, Take
    <2>2. f \in Frame /\ received' \in 0 .. MaxFrames
      BY <2>1, <1>a DEF Frame
    <2>3. /\ inbox' \in 0 .. MaxInbox /\ budget' \in 0 .. MaxPerTick
          /\ Bounded'
      BY <2>1, <1>a DEF Bounded
    <2>4. /\ conn' \in {"unconnected", "connecting", "refused", "connected", "closing"}
          /\ armed' \in BOOLEAN
          /\ conn' = "unconnected" /\ ~quit' => armed'
      BY <1>10, <1>a DEF SubmitFrame, socket
    <2>5. /\ pending' \in Seq(Frame) /\ Len(pending') <= MaxPending
          /\ sent' \subseteq Frame /\ dropped' \subseteq Frame
          /\ PendingInOrder' /\ EveryFrameAccounted' /\ DroppedAreOldest'
      <3>1. CASE sent' = sent \cup {f} /\ UNCHANGED <<pending, dropped>>
        <4>1. dropped' \subseteq Frame
          BY <3>1 DEF IInv, TypeOK
        <4> QED
          BY <3>1, <2>1, <2>2, <4>1, SentKeeps
      <3>2. CASE Enqueue(f) /\ UNCHANGED sent
        <4>1. sent' \subseteq Frame
          BY <3>2 DEF IInv, TypeOK
        <4> QED
          BY <3>2, <2>1, <2>2, <4>1, EnqueueKeeps
      <3> QED
        BY <1>10, <3>1, <3>2 DEF SubmitFrame
    <2>6. TypeOK' /\ ReconnectScheduled'
      BY <2>1, <2>2, <2>3, <2>4, <2>5 DEF IInv, TypeOK, ReconnectScheduled
    <2> QED
      BY <2>3, <2>5, <2>6 DEF IInv
  <1>11. CASE Quit
    BY <1>11, <1>a, QuietStep DEF Quit, frames
  <1>12. CASE Ended \/ UNCHANGED vars
    <2>1. UNCHANGED vars
      BY <1>12 DEF Ended
    <2> QED
      BY <2>1, <1>a, QuietStep DEF vars, socket, frames
  <1> QED
    BY <1>1, <1>2, <1>3, <1>4, <1>5, <1>6, <1>7, <1>8, <1>9, <1>10, <1>11, <1>12
    DEF Next, Network

\* The queue keeps its limit, whatever arrives and however sends end.
THEOREM TypeCorrect == Spec => []TypeOK
  <1>1. IInv => TypeOK
    BY DEF IInv
  <1> QED
    BY InitIInv, NextIInv, <1>1, PTL DEF Spec

\* No frame is lost without being counted, and none is counted twice.
THEOREM FramesAccounted == Spec => []NothingMiscounted
  <1>1. IInv => NothingMiscounted
    BY DEF IInv, NothingMiscounted
  <1> QED
    BY InitIInv, NextIInv, <1>1, PTL DEF Spec

\* The way back to the server is never lost.
THEOREM AlwaysReconnects == Spec => []ReconnectScheduled
  <1>1. IInv => ReconnectScheduled
    BY DEF IInv
  <1> QED
    BY InitIInv, NextIInv, <1>1, PTL DEF Spec
=============================================================================
