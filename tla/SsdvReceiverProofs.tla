------------------------- MODULE SsdvReceiverProofs -------------------------
(***************************************************************************)
(* Proofs about SsdvReceiver, for every queue length and every number of    *)
(* frames and clears.                                                       *)
(***************************************************************************)
EXTENDS SsdvReceiver, FiniteSetTheorems, TLAPS

(* What Append and Tail do to the set of elements of a sequence.            *)
LEMMA ToSetAppend ==
    ASSUME NEW S, NEW s \in Seq(S), NEW e \in S
    PROVE  ToSet(Append(s, e)) = ToSet(s) \cup {e}
<1>1. /\ DOMAIN Append(s, e) = 1..(Len(s) + 1)
      /\ \A i \in 1..Len(s) : Append(s, e)[i] = s[i]
      /\ Append(s, e)[Len(s) + 1] = e
  OBVIOUS
<1>2. DOMAIN s = 1..Len(s) /\ Len(s) \in Nat
  OBVIOUS
<1> QED
  BY <1>1, <1>2 DEF ToSet

LEMMA ToSetHeadTail ==
    ASSUME NEW S, NEW s \in Seq(S), s # <<>>
    PROVE  /\ Head(s) \in S
           /\ Tail(s) \in Seq(S)
           /\ Len(Tail(s)) = Len(s) - 1
           /\ ToSet(s) = {Head(s)} \cup ToSet(Tail(s))
<1>1. /\ DOMAIN s = 1..Len(s) /\ Len(s) \in Nat \ {0}
      /\ DOMAIN Tail(s) = 1..(Len(s) - 1)
      /\ \A i \in 1..(Len(s) - 1) : Tail(s)[i] = s[i + 1]
      /\ Head(s) = s[1]
  OBVIOUS
<1>2. ToSet(s) \subseteq {Head(s)} \cup ToSet(Tail(s))
  <2> SUFFICES ASSUME NEW i \in 1..Len(s)
               PROVE  s[i] \in {Head(s)} \cup ToSet(Tail(s))
    BY <1>1 DEF ToSet
  <2>1. CASE i = 1
    BY <1>1, <2>1
  <2>2. CASE i # 1
    <3>1. i - 1 \in 1..(Len(s) - 1) /\ Tail(s)[i - 1] = s[i]
      BY <1>1, <2>2
    <3> QED
      BY <1>1, <3>1 DEF ToSet
  <2> QED
    BY <2>1, <2>2
<1>3. {Head(s)} \cup ToSet(Tail(s)) \subseteq ToSet(s)
  BY <1>1 DEF ToSet
<1> QED
  BY <1>2, <1>3

-----------------------------------------------------------------------------
(***************************************************************************)
(* Type correctness.                                                        *)
(***************************************************************************)
LEMMA EnqueueType ==
    ASSUME NEW q \in Seq(Frame), Len(q) <= MaxQueuedFrames, NEW f \in Frame
    PROVE  Enqueue(q, f) \in Seq(Frame) /\ Len(Enqueue(q, f)) <= MaxQueuedFrames
<1>1. CASE Full(q)
  <2>1. q # <<>>
    BY <1>1, ReceiverAssumption DEF Full
  <2>2. Tail(q) \in Seq(Frame) /\ Len(Tail(q)) = Len(q) - 1
    BY <2>1, ToSetHeadTail
  <2> QED
    BY <1>1, <2>2, ReceiverAssumption DEF Enqueue, Full
<1>2. CASE ~Full(q)
  BY <1>2, ReceiverAssumption DEF Enqueue, Full
<1> QED
  BY <1>1, <1>2

LEMMA ProcessType ==
    ASSUME TypeOK, NEW f \in Frame, ProcessFrame(f)
    PROVE  (/\ packets \in SUBSET Frame
            /\ path \in Nat
            /\ serial \in Nat
            /\ complete \in BOOLEAN
            /\ stateGen \in Nat
            /\ dirty \in BOOLEAN
            /\ urgent \in BOOLEAN
            /\ ingested \in Seq(Frame)
            /\ evicted \in SUBSET Frame
            /\ logged \in Nat
            /\ archived \in Seq(Frame)
            /\ unsaved \in SUBSET Frame
            /\ faults \in Nat)'
<1>1. f.gen \in Nat
  BY DEF Frame
<1>5. archived' \in Seq(Frame) /\ unsaved' \in SUBSET Frame /\ faults' \in Nat
  <2>1. Append(archived, f) \in Seq(Frame) /\ unsaved \cup {f} \in SUBSET Frame
    BY DEF TypeOK
  <2>2. AppendRawFrame(f)
    BY DEF ProcessFrame
  <2>3. archived' = Append(archived, f) \/ archived' = archived
    BY <2>2 DEF AppendRawFrame
  <2>4. unsaved' = unsaved \cup {f} \/ unsaved' = unsaved
    BY <2>2 DEF AppendRawFrame
  <2>5. faults' = faults + 1 \/ faults' = faults
    BY <2>2 DEF AppendRawFrame
  <2>6. archived' \in Seq(Frame)
    BY <2>1, <2>3 DEF TypeOK
  <2> QED
    BY <2>1, <2>4, <2>5, <2>6 DEF TypeOK
<1>2. CASE Reject
  BY <1>2, <1>5 DEF TypeOK, ProcessFrame, Reject, image
<1>3. CASE Join(f)
  BY <1>3, <1>5 DEF TypeOK, ProcessFrame, Join, Changed
<1>4. CASE Open(f)
  BY <1>1, <1>4, <1>5 DEF TypeOK, ProcessFrame, Open, Changed
<1> QED
  BY <1>2, <1>3, <1>4 DEF ProcessFrame

LEMMA TypeStep == TypeOK /\ [Next]_vars => TypeOK'
<1> SUFFICES ASSUME TypeOK PROVE [Next]_vars => TypeOK'
  OBVIOUS
<1> USE DEF shared, image, ui, hist
<1>1. ASSUME IngestFrame PROVE TypeOK'
  <2> DEFINE f == [id |-> Len(ingested) + 1, gen |-> gen]
  <2>1. f \in Frame
    BY DEF Frame, TypeOK
  <2>2. Enqueue(queue, f) \in Seq(Frame) /\ Len(Enqueue(queue, f)) <= MaxQueuedFrames
    BY <2>1, EnqueueType DEF TypeOK
  <2>3. Full(queue) => Head(queue) \in Frame
    BY ReceiverAssumption, ToSetHeadTail DEF Full, TypeOK
  <2>4. Append(ingested, f) \in Seq(Frame)
    BY <2>1 DEF TypeOK
  <2> HIDE DEF f
  <2>5. queue' = Enqueue(queue, f) /\ ingested' = Append(ingested, f)
    BY <1>1 DEF IngestFrame, f
  <2>6. evicted' \in SUBSET Frame /\ dropped' \in Nat
    BY <1>1, <2>3 DEF IngestFrame, TypeOK
  <2> QED
    BY <1>1, <2>2, <2>4, <2>5, <2>6 DEF IngestFrame, TypeOK
<1>2. ASSUME Clear PROVE TypeOK'
  BY <1>2, ReceiverAssumption DEF Clear, TypeOK
<1>3. ASSUME ClearDisplay PROVE TypeOK'
  BY <1>3 DEF ClearDisplay, TypeOK
<1>4. ASSUME UpdateImage PROVE TypeOK'
  <2>1. Head(posted) \in Update /\ Tail(posted) \in Seq(Update)
    BY <1>4, ToSetHeadTail DEF UpdateImage, TypeOK
  <2> QED
    BY <1>4, <2>1 DEF UpdateImage, TypeOK
<1>5. ASSUME Finish PROVE TypeOK'
  BY <1>5 DEF Finish, TypeOK
<1>6. ASSUME Joined PROVE TypeOK'
  BY <1>6 DEF Joined, TypeOK
<1>7. ASSUME Elapse PROVE TypeOK'
  BY <1>7 DEF Elapse, TypeOK
<1>8. ASSUME WakeToStop PROVE TypeOK'
  BY <1>8 DEF WakeToStop, TypeOK, WorkerStates
<1>9. ASSUME Take PROVE TypeOK'
  <2>1. <<>> \in Seq(Frame) /\ Len(<<>>) <= MaxQueuedFrames
    BY ReceiverAssumption
  <2>2. logged' \in Nat /\ dropped' \in Nat
    BY <1>9 DEF Take, ReportDrops, TypeOK
  <2>3. packets' \in SUBSET Frame
    BY <1>9 DEF Take, ClearState, TypeOK
  <2>4. path' \in Nat /\ serial' \in Nat /\ stateGen' \in Nat
    BY <1>9 DEF Take, ClearState, TypeOK
  <2>5. complete' \in BOOLEAN /\ dirty' \in BOOLEAN /\ due' \in BOOLEAN
    BY <1>9 DEF Take, ClearState, TypeOK
  <2> QED
    BY <1>9, <2>1, <2>2, <2>3, <2>4, <2>5 DEF Take, TypeOK, WorkerStates
<1>10. ASSUME NextFrame PROVE TypeOK'
  <2>1. Tail(batch) \in Seq(Frame)
    BY <1>10, ToSetHeadTail DEF NextFrame, TypeOK
  <2> QED
    BY <1>10, <2>1 DEF NextFrame, TypeOK, WorkerStates
<1>11. ASSUME Process PROVE TypeOK'
  <2>1. Head(batch) \in Frame /\ Tail(batch) \in Seq(Frame)
    BY <1>11, ToSetHeadTail DEF Process, TypeOK
  <2> QED
    BY <1>11, <2>1, ProcessType DEF Process, TypeOK, WorkerStates
<1>12. ASSUME BatchDone PROVE TypeOK'
  BY <1>12 DEF BatchDone, TypeOK, WorkerStates
<1>13. ASSUME CheckBeforeDecode PROVE TypeOK'
  BY <1>13 DEF CheckBeforeDecode, GiveUp, TypeOK, WorkerStates
<1>14. ASSUME Decode PROVE TypeOK'
  <2>1. packets' \in SUBSET Frame
    BY <1>14 DEF Decode, RejectPackets, TypeOK
  <2>2. faults' \in Nat
    BY <1>14 DEF Decode, RejectPackets, TypeOK
  <2>3. complete' \in BOOLEAN
    BY <1>14, Zenon DEF Decode, RejectPackets, TypeOK
  <2>4. dirty' \in BOOLEAN /\ due' \in BOOLEAN /\ pc' \in WorkerStates
    BY <1>14 DEF Decode, GiveUp, TypeOK, WorkerStates
  <2> QED
    BY <1>14, <2>1, <2>2, <2>3, <2>4 DEF Decode, TypeOK
<1>15. ASSUME CheckBeforePublish PROVE TypeOK'
  BY <1>15 DEF CheckBeforePublish, GiveUp, TypeOK, WorkerStates
<1>16. ASSUME Publish PROVE TypeOK'
  <2> DEFINE u == [path |-> path, gen |-> stateGen, frames |-> packets]
  <2>1. u \in Update
    BY DEF Update, TypeOK
  <2>2. Append(posted, u) \in Seq(Update)
    BY <2>1 DEF TypeOK
  <2>3. posted' = Append(posted, u)
    BY <1>16 DEF Publish
  <2> HIDE DEF u
  <2> QED
    BY <1>16, <2>2, <2>3 DEF Publish, TypeOK, WorkerStates
<1>17. ASSUME Drain PROVE TypeOK'
  <2>1. <<>> \in Seq(Frame) /\ Len(<<>>) <= MaxQueuedFrames
    BY ReceiverAssumption
  <2>2. packets' \in SUBSET Frame
    BY <1>17 DEF Drain, ClearState, TypeOK
  <2>3. path' \in Nat /\ serial' \in Nat /\ stateGen' \in Nat
    BY <1>17 DEF Drain, ClearState, TypeOK
  <2>4. complete' \in BOOLEAN /\ pc' \in WorkerStates
    BY <1>17 DEF Drain, ClearState, WorkerStates, TypeOK
  <2>5. batch' \in Seq(Frame)
    BY <1>17 DEF Drain, TypeOK
  <2> QED
    BY <1>17, <2>1, <2>2, <2>3, <2>4, <2>5 DEF Drain, TypeOK
<1>18. ASSUME DrainFrame PROVE TypeOK'
  <2>1. Head(batch) \in Frame /\ Tail(batch) \in Seq(Frame)
    BY <1>18, ToSetHeadTail DEF DrainFrame, TypeOK
  <2>2. CASE Head(batch).gen = gen
    BY <1>18, <2>1, <2>2, ProcessType DEF DrainFrame, TypeOK
  <2>3. CASE Head(batch).gen # gen
    BY <1>18, <2>1, <2>3 DEF DrainFrame, TypeOK
  <2> QED
    BY <2>2, <2>3
<1>19. ASSUME DrainDone PROVE TypeOK'
  BY <1>19 DEF DrainDone, TypeOK, WorkerStates
<1>20. ASSUME Closed PROVE TypeOK'
  BY <1>20 DEF Closed, vars, TypeOK
<1>21. ASSUME UNCHANGED vars PROVE TypeOK'
  <2>1. /\ UNCHANGED <<queue, gen, dropped, clearReq, stopReq, packets, path,
                       serial, complete, stateGen>>
        /\ UNCHANGED <<uiPc, posted, minGen, gallery, ingested, evicted,
                       logged, archived, unsaved, faults, pc, batch, dirty, urgent,
                       due>>
    BY <1>21 DEF vars
  <2> QED
    BY <2>1 DEF TypeOK
<1>22. ASSUME Next PROVE TypeOK'
  BY <1>1, <1>2, <1>3, <1>4, <1>5, <1>6, <1>7, <1>8, <1>9, <1>10, <1>11,
     <1>12, <1>13, <1>14, <1>15, <1>16, <1>17, <1>18, <1>19, <1>20, <1>22
     DEF Next, Qt, Worker
<1> QED
  BY <1>21, <1>22

(* Every variable of the receiver has its type in every reachable state.   *)
THEOREM TypeCorrect == Spec => []TypeOK
<1>1. Init => TypeOK
  <2> SUFFICES ASSUME Init PROVE TypeOK
    OBVIOUS
  <2>1. /\ queue \in Seq(Frame) /\ Len(queue) <= MaxQueuedFrames
        /\ batch \in Seq(Frame)
        /\ ingested \in Seq(Frame)
        /\ archived \in Seq(Frame)
        /\ posted \in Seq(Update)
    BY ReceiverAssumption DEF Init
  <2>2. /\ packets \in SUBSET Frame
        /\ evicted \in SUBSET Frame
        /\ unsaved \in SUBSET Frame
        /\ gallery \in SUBSET Update
    BY DEF Init
  <2> QED
    BY <2>1, <2>2 DEF Init, TypeOK, WorkerStates
<1> QED
  BY <1>1, TypeStep, PTL DEF Spec

-----------------------------------------------------------------------------
(***************************************************************************)
(* Generations. The queue holds frames of one generation because clear()    *)
(* empties it under the lock that bumps the generation; the worker adopts   *)
(* that generation together with the frames, so the batch and the image     *)
(* agree with state_generation_ although clear() may overtake both.         *)
(***************************************************************************)
HasGeneration(S, g) == \A f \in S : f.gen = g

GenInv ==
    /\ HasGeneration(ToSet(queue), gen)
    /\ HasGeneration(ToSet(batch), stateGen)
    /\ HasGeneration(packets, stateGen)
    /\ ~clearReq => stateGen = gen
    /\ batch # <<>> => pc \in {"batch", "process", "drainBatch"}
    /\ \A u \in ToSet(posted) : HasGeneration(u.frames, u.gen)
    /\ \A u \in gallery : u.gen >= minGen /\ HasGeneration(u.frames, u.gen)

LEMMA ToSetEmpty == ToSet(<<>>) = {}
BY DEF ToSet

LEMMA EnqueueElements ==
    ASSUME NEW q \in Seq(Frame), NEW f \in Frame
    PROVE  /\ ToSet(Enqueue(q, f)) \subseteq ToSet(q) \cup {f}
           /\ Full(q) => ToSet(q) \subseteq {Head(q)} \cup ToSet(Enqueue(q, f))
           /\ ~Full(q) => ToSet(q) \subseteq ToSet(Enqueue(q, f))
           /\ f \in ToSet(Enqueue(q, f))
<1>1. CASE Full(q)
  <2>1. q # <<>>
    BY <1>1, ReceiverAssumption DEF Full
  <2>2. ToSet(q) = {Head(q)} \cup ToSet(Tail(q))
    BY <2>1, ToSetHeadTail
  <2>3. PICK t \in Seq(Frame) : t = Tail(q)
    BY <2>1, ToSetHeadTail
  <2>4. ToSet(Append(t, f)) = ToSet(t) \cup {f}
    BY ToSetAppend
  <2> QED
    BY <1>1, <2>2, <2>3, <2>4 DEF Enqueue
<1>2. CASE ~Full(q)
  BY <1>2, ToSetAppend DEF Enqueue
<1> QED
  BY <1>1, <1>2

LEMMA GenProcess ==
    ASSUME TypeOK, GenInv, batch # <<>>, ProcessFrame(Head(batch)),
           batch' = Tail(batch)
    PROVE  /\ stateGen' = stateGen
           /\ HasGeneration(ToSet(batch'), stateGen')
           /\ HasGeneration(packets', stateGen')
<1>1. /\ ToSet(batch) = {Head(batch)} \cup ToSet(Tail(batch))
      /\ Head(batch).gen = stateGen
  BY ToSetHeadTail DEF TypeOK, GenInv, HasGeneration
<1>2. stateGen' = stateGen
  BY <1>1 DEF ProcessFrame, Reject, Join, Open, image
<1>3. HasGeneration(ToSet(batch'), stateGen')
  BY <1>1, <1>2 DEF GenInv, HasGeneration
<1>4. HasGeneration(packets', stateGen')
  BY <1>1, <1>2 DEF ProcessFrame, Reject, Join, Open, image, GenInv, HasGeneration
<1> QED
  BY <1>2, <1>3, <1>4

LEMMA GenStep == TypeOK /\ GenInv /\ [Next]_vars => GenInv'
<1> SUFFICES ASSUME TypeOK, GenInv PROVE [Next]_vars => GenInv'
  OBVIOUS
<1> USE DEF shared, image, ui, hist
<1>1. ASSUME IngestFrame PROVE GenInv'
  <2> DEFINE f == [id |-> Len(ingested) + 1, gen |-> gen]
  <2>1. f \in Frame /\ f.gen = gen
    BY DEF Frame, TypeOK
  <2>2. ToSet(Enqueue(queue, f)) \subseteq ToSet(queue) \cup {f}
    BY <2>1, EnqueueElements DEF TypeOK
  <2> HIDE DEF f
  <2>3. queue' = Enqueue(queue, f)
    BY <1>1 DEF IngestFrame, f
  <2>4. HasGeneration(ToSet(queue'), gen')
    BY <1>1, <2>1, <2>2, <2>3 DEF IngestFrame, GenInv, HasGeneration
  <2> QED
    BY <1>1, <2>4 DEF IngestFrame, GenInv, HasGeneration
<1>2. ASSUME Clear PROVE GenInv'
  BY <1>2, ToSetEmpty DEF Clear, GenInv, HasGeneration
<1>3. ASSUME ClearDisplay PROVE GenInv'
  BY <1>3 DEF ClearDisplay, GenInv, HasGeneration
<1>4. ASSUME UpdateImage PROVE GenInv'
  <2>1. /\ Head(posted) \in Update
        /\ ToSet(posted) = {Head(posted)} \cup ToSet(Tail(posted))
    BY <1>4, ToSetHeadTail DEF UpdateImage, TypeOK
  <2>2. \A u \in ToSet(posted') : HasGeneration(u.frames, u.gen)
    BY <1>4, <2>1 DEF UpdateImage, GenInv
  <2>3. gallery' \subseteq gallery \cup {Head(posted)}
    BY <1>4 DEF UpdateImage
  <2>4. Head(posted) \in gallery' => Head(posted).gen >= minGen \/ Head(posted) \in gallery
    BY <1>4, <2>1 DEF UpdateImage, Stale, Update, TypeOK
  <2>5. \A u \in gallery' : u.gen >= minGen /\ HasGeneration(u.frames, u.gen)
    BY <2>1, <2>3, <2>4 DEF GenInv
  <2> QED
    BY <1>4, <2>2, <2>5 DEF UpdateImage, GenInv, HasGeneration
<1>5. ASSUME Finish PROVE GenInv'
  BY <1>5 DEF Finish, GenInv, HasGeneration
<1>6. ASSUME Joined PROVE GenInv'
  BY <1>6 DEF Joined, GenInv, HasGeneration
<1>7. ASSUME Elapse PROVE GenInv'
  BY <1>7 DEF Elapse, GenInv, HasGeneration
<1>8. ASSUME WakeToStop PROVE GenInv'
  BY <1>8 DEF WakeToStop, GenInv, HasGeneration
<1>9. ASSUME Take PROVE GenInv'
  <2>1. stateGen' = gen /\ HasGeneration(packets', stateGen')
    BY <1>9 DEF Take, ClearState, GenInv, HasGeneration
  <2> QED
    BY <1>9, <2>1, ToSetEmpty DEF Take, GenInv, HasGeneration
<1>10. ASSUME NextFrame PROVE GenInv'
  <2>1. ToSet(batch') \subseteq ToSet(batch)
    BY <1>10, ToSetHeadTail DEF NextFrame, TypeOK
  <2> QED
    BY <1>10, <2>1 DEF NextFrame, GenInv, HasGeneration
<1>11. ASSUME Process PROVE GenInv'
  BY <1>11, GenProcess DEF Process, ProcessFrame, GenInv, HasGeneration
<1>12. ASSUME BatchDone PROVE GenInv'
  BY <1>12 DEF BatchDone, GenInv, HasGeneration
<1>13. ASSUME CheckBeforeDecode PROVE GenInv'
  BY <1>13 DEF CheckBeforeDecode, GiveUp, GenInv, HasGeneration
<1>14. ASSUME Decode PROVE GenInv'
  <2>1. packets' \subseteq packets
    BY <1>14 DEF Decode, RejectPackets
  <2>2. HasGeneration(packets', stateGen')
    BY <1>14, <2>1 DEF Decode, GenInv, HasGeneration
  <2> QED
    BY <1>14, <2>2 DEF Decode, GiveUp, GenInv, HasGeneration
<1>15. ASSUME CheckBeforePublish PROVE GenInv'
  BY <1>15 DEF CheckBeforePublish, GiveUp, GenInv, HasGeneration
<1>16. ASSUME Publish PROVE GenInv'
  <2> DEFINE u == [path |-> path, gen |-> stateGen, frames |-> packets]
  <2>1. u \in Update /\ HasGeneration(u.frames, u.gen)
    BY DEF Update, TypeOK, GenInv
  <2>2. ToSet(Append(posted, u)) = ToSet(posted) \cup {u}
    BY <2>1, ToSetAppend DEF TypeOK
  <2>3. posted' = Append(posted, u)
    BY <1>16 DEF Publish
  <2> HIDE DEF u
  <2>4. \A v \in ToSet(posted') : HasGeneration(v.frames, v.gen)
    BY <2>1, <2>2, <2>3 DEF GenInv
  <2> QED
    BY <1>16, <2>4 DEF Publish, GenInv, HasGeneration
<1>17. ASSUME Drain PROVE GenInv'
  <2>1. CASE clearReq
    BY <1>17, <2>1, ToSetEmpty DEF Drain, ClearState, GenInv, HasGeneration
  <2>2. CASE ~clearReq
    BY <1>17, <2>2, ToSetEmpty DEF Drain, GenInv, HasGeneration
  <2> QED
    BY <2>1, <2>2
<1>18. ASSUME DrainFrame PROVE GenInv'
  <2>1. CASE Head(batch).gen = gen
    BY <1>18, <2>1, GenProcess DEF DrainFrame, ProcessFrame, GenInv, HasGeneration
  <2>2. CASE Head(batch).gen # gen
    <3>1. ToSet(batch') \subseteq ToSet(batch)
      BY <1>18, ToSetHeadTail DEF DrainFrame, TypeOK
    <3> QED
      BY <1>18, <2>2, <3>1 DEF DrainFrame, GenInv, HasGeneration
  <2> QED
    BY <2>1, <2>2
<1>19. ASSUME DrainDone PROVE GenInv'
  BY <1>19 DEF DrainDone, GenInv, HasGeneration
<1>20. ASSUME Closed \/ UNCHANGED vars PROVE GenInv'
  BY <1>20 DEF Closed, vars, GenInv, HasGeneration
<1>21. ASSUME Next PROVE GenInv'
  BY <1>1, <1>2, <1>3, <1>4, <1>5, <1>6, <1>7, <1>8, <1>9, <1>10, <1>11,
     <1>12, <1>13, <1>14, <1>15, <1>16, <1>17, <1>18, <1>19, <1>20, <1>21
     DEF Next, Qt, Worker
<1> QED
  BY <1>20, <1>21

(* A cleared image is never shown again, and no image mixes the frames of   *)
(* two generations, for any number of clears and any timing.                *)
THEOREM ClearIsFinal == Spec => [](ClearedImageNeverShown /\ ImageOfOneGeneration)
<1>1. Init => GenInv
  BY ToSetEmpty DEF Init, GenInv, HasGeneration
<1>2. TypeOK /\ GenInv => ClearedImageNeverShown /\ ImageOfOneGeneration
  BY DEF TypeOK, GenInv, HasGeneration, ClearedImageNeverShown, ImageOfOneGeneration
<1> QED
  BY <1>1, <1>2, GenStep, TypeCorrect, PTL DEF Spec

-----------------------------------------------------------------------------
(***************************************************************************)
(* Accounting. A frame moves from the queue to the batch and from the batch *)
(* to the archive, or the full queue loses it, and each place holds frames  *)
(* older than those of the place before it: so nothing is archived out of   *)
(* order or twice, and what is lost is lost, and counted, once.             *)
(***************************************************************************)
Increasing(s) == \A i, j \in DOMAIN s : i < j => s[i].id < s[j].id
Before(S, T) == \A e \in S, f \in T : e.id < f.id

OrderInv ==
    /\ Increasing(archived) /\ Increasing(batch) /\ Increasing(queue)
    /\ Before(ToSet(archived), ToSet(batch)) /\ Before(ToSet(archived), ToSet(queue))
    /\ Before(ToSet(batch), ToSet(queue)) /\ Before(evicted, ToSet(queue))
    /\ \A f \in ToSet(queue) \cup ToSet(batch) \cup ToSet(archived) \cup evicted :
          f.id <= Len(ingested)

AccountInv ==
    /\ OrderInv
    /\ IsFiniteSet(evicted) /\ DropsAccounted
    /\ NoFrameLost
    /\ \A f \in ToSet(ingested) : f.gen <= gen

(* What is in a sequence of S is in S.                                      *)
LEMMA ToSetIn == ASSUME NEW S, NEW s \in Seq(S) PROVE ToSet(s) \subseteq S
BY DEF ToSet

(* An element behind all others keeps a sequence increasing.               *)
LEMMA AppendIncreasing ==
    ASSUME NEW s \in Seq(Frame), NEW e \in Frame, Increasing(s),
           Before(ToSet(s), {e})
    PROVE  Increasing(Append(s, e))
<1>1. /\ DOMAIN s = 1 .. Len(s) /\ Len(s) \in Nat
      /\ DOMAIN Append(s, e) = 1 .. (Len(s) + 1)
      /\ \A i \in 1 .. Len(s) : Append(s, e)[i] = s[i]
      /\ Append(s, e)[Len(s) + 1] = e
  OBVIOUS
<1>2. \A i \in 1 .. Len(s) : s[i].id < e.id
  BY <1>1 DEF Before, ToSet
<1> SUFFICES ASSUME NEW i \in 1 .. (Len(s) + 1), NEW j \in 1 .. (Len(s) + 1),
                    i < j
             PROVE  Append(s, e)[i].id < Append(s, e)[j].id
  BY <1>1 DEF Increasing
<1>3. CASE j = Len(s) + 1
  BY <1>1, <1>2, <1>3
<1>4. CASE j # Len(s) + 1
  BY <1>1, <1>4 DEF Increasing
<1> QED
  BY <1>3, <1>4

(* The tail of an increasing sequence is behind its head.                  *)
LEMMA TailIncreasing ==
    ASSUME NEW s \in Seq(Frame), s # <<>>, Increasing(s)
    PROVE  Increasing(Tail(s)) /\ Before({Head(s)}, ToSet(Tail(s)))
<1>1. /\ DOMAIN s = 1 .. Len(s) /\ Len(s) \in Nat \ {0}
      /\ DOMAIN Tail(s) = 1 .. (Len(s) - 1)
      /\ \A i \in 1 .. (Len(s) - 1) : Tail(s)[i] = s[i + 1]
      /\ Head(s) = s[1]
  OBVIOUS
<1> QED
  BY <1>1 DEF Increasing, Before, ToSet

(* The new frame is behind all others.                                     *)
LEMMA EnqueueKeepsOrder ==
    ASSUME TypeOK, AccountInv, IngestFrame
    PROVE  OrderInv' /\ IsFiniteSet(evicted') /\ DropsAccounted'
<1> DEFINE f == [id |-> Len(ingested) + 1, gen |-> gen]
           kept == IF Full(queue) THEN Tail(queue) ELSE queue
<1>1. f \in Frame /\ f.id = Len(ingested) + 1
  BY DEF Frame, TypeOK
<1>2. /\ queue' = Append(kept, f) /\ ingested' = Append(ingested, f)
      /\ UNCHANGED <<batch, archived, logged>>
      /\ IF Full(queue)
         THEN evicted' = evicted \cup {Head(queue)} /\ dropped' = dropped + 1
         ELSE UNCHANGED <<evicted, dropped>>
  BY DEF IngestFrame, Enqueue
<1>3. Len(ingested) \in Nat /\ Len(ingested') = Len(ingested) + 1
  BY <1>1, <1>2 DEF TypeOK
<1>4. Full(queue) => queue # <<>>
  BY ReceiverAssumption DEF Full
<1>5. /\ kept \in Seq(Frame) /\ Increasing(kept)
      /\ ToSet(kept) \subseteq ToSet(queue)
      /\ Full(queue) => /\ Before({Head(queue)}, ToSet(kept))
                        /\ Head(queue) \in ToSet(queue)
  BY <1>4, ToSetHeadTail, TailIncreasing DEF TypeOK, AccountInv, OrderInv
<1>6. Before(ToSet(kept), {f})
  <2>1. ToSet(kept) \subseteq Frame
    BY <1>5, ToSetIn
  <2>2. \A e \in ToSet(kept) : e.id \in Nat /\ e.id <= Len(ingested)
    BY <1>5, <2>1 DEF AccountInv, OrderInv, Frame
  <2> QED
    BY <1>1, <1>3, <2>2 DEF Before
<1> HIDE DEF f, kept
<1>7. ToSet(queue') = ToSet(kept) \cup {f} /\ Increasing(queue')
  BY <1>1, <1>2, <1>5, <1>6, ToSetAppend, AppendIncreasing
<1>8. \A e \in ToSet(queue) \cup ToSet(batch) \cup ToSet(archived) \cup evicted :
         e \in Frame /\ e.id < f.id
  <2>1. ToSet(queue) \cup ToSet(batch) \cup ToSet(archived) \cup evicted
           \subseteq Frame
    BY ToSetIn DEF TypeOK
  <2> QED
    BY <1>1, <1>3, <2>1 DEF AccountInv, OrderInv, Frame
<1>9. evicted' \subseteq evicted \cup ToSet(queue)
  BY <1>2, <1>5
<1>10. Before(evicted', ToSet(queue'))
  BY <1>2, <1>5, <1>7, <1>8 DEF AccountInv, OrderInv, Before
<1>11. OrderInv'
  BY <1>1, <1>2, <1>3, <1>5, <1>7, <1>8, <1>9, <1>10
  DEF AccountInv, OrderInv, Before, Frame
<1>12. IsFiniteSet(evicted') /\ DropsAccounted'
  <2>1. CASE Full(queue)
    <3>1. Head(queue) \notin evicted
      BY <1>5, <1>8, <2>1 DEF AccountInv, OrderInv, Before, Frame
    <3>2. /\ IsFiniteSet(evicted')
          /\ Cardinality(evicted') = Cardinality(evicted) + 1
      BY <1>2, <2>1, <3>1, FS_AddElement DEF AccountInv
    <3> QED
      BY <1>2, <2>1, <3>2 DEF AccountInv, DropsAccounted, TypeOK
  <2>2. CASE ~Full(queue)
    BY <1>2, <2>2 DEF AccountInv, DropsAccounted
  <2> QED
    BY <2>1, <2>2
<1> QED
  BY <1>11, <1>12

(* A frame of the batch is archived, or its write fails.                   *)
LEMMA ArchiveKeepsOrder ==
    ASSUME TypeOK, OrderInv, batch # <<>>,
           AppendRawFrame(Head(batch)), batch' = Tail(batch),
           UNCHANGED <<queue, ingested, evicted>>
    PROVE  /\ OrderInv'
           /\ ToSet(batch) = {Head(batch)} \cup ToSet(batch')
           /\ ToSet(archived) \cup unsaved \cup {Head(batch)}
                 \subseteq ToSet(archived') \cup unsaved'
<1>1. /\ Head(batch) \in Frame /\ Tail(batch) \in Seq(Frame)
      /\ ToSet(batch) = {Head(batch)} \cup ToSet(batch')
  BY ToSetHeadTail DEF TypeOK
<1>2. /\ Increasing(batch') /\ Before({Head(batch)}, ToSet(batch'))
  BY TailIncreasing DEF TypeOK, OrderInv
<1>3. CASE archived' = Append(archived, Head(batch)) /\ UNCHANGED unsaved
  <2>1. ToSet(archived') = ToSet(archived) \cup {Head(batch)}
    BY <1>1, <1>3, ToSetAppend DEF TypeOK
  <2>2. Increasing(archived')
    BY <1>1, <1>3, AppendIncreasing DEF OrderInv, Before, TypeOK
  <2>3. OrderInv'
    BY <1>1, <1>2, <2>1, <2>2 DEF OrderInv, Before
  <2> QED
    BY <1>1, <1>3, <2>1, <2>3
<1>4. CASE UNCHANGED archived /\ unsaved' = unsaved \cup {Head(batch)}
  <2>1. OrderInv'
    BY <1>1, <1>2, <1>4 DEF OrderInv, Before
  <2> QED
    BY <1>1, <1>4, <2>1
<1> QED
  BY <1>3, <1>4 DEF AppendRawFrame

(* Every step keeps the accounts.                                          *)
LEMMA AccountStep == ASSUME TypeOK, GenInv, AccountInv, [Next]_vars PROVE AccountInv'
<1> USE DEF shared, image, ui, hist
<1>1. CASE IngestFrame
  <2> DEFINE f == [id |-> Len(ingested) + 1, gen |-> gen]
  <2>1. f \in Frame /\ f.gen = gen
    BY DEF Frame, TypeOK
  <2>2. ToSet(ingested') = ToSet(ingested) \cup {f} /\ queue' = Enqueue(queue, f)
    BY <1>1, <2>1, ToSetAppend DEF IngestFrame, TypeOK
  <2>3. /\ f \in ToSet(queue')
        /\ ToSet(queue) \subseteq ToSet(queue') \cup evicted'
        /\ evicted \subseteq evicted'
    BY <1>1, <2>1, <2>2, EnqueueElements DEF IngestFrame, TypeOK
  <2> HIDE DEF f
  <2>4. UNCHANGED <<gen, batch, archived, unsaved, pc>>
    BY <1>1 DEF IngestFrame
  <2>5. NoFrameLost'
    BY <2>2, <2>3, <2>4 DEF AccountInv, NoFrameLost
  <2>6. \A e \in ToSet(ingested') : e.gen <= gen'
    BY <2>1, <2>2, <2>4 DEF AccountInv, TypeOK
  <2> QED
    BY <1>1, <2>5, <2>6, EnqueueKeepsOrder DEF AccountInv
<1>2. CASE Clear
  <2>1. \A f \in ToSet(ingested) : f.gen # gen' /\ f.gen <= gen'
    <3>1. ToSet(ingested) \subseteq Frame
      BY ToSetIn DEF TypeOK
    <3> QED
      BY <1>2, <3>1 DEF Clear, AccountInv, TypeOK, Frame
  <2>2. ToSet(queue') = {} /\ Increasing(queue')
    BY <1>2, ToSetEmpty DEF Clear, Increasing
  <2> QED
    BY <1>2, <2>1, <2>2
    DEF Clear, AccountInv, OrderInv, Before, DropsAccounted, NoFrameLost
<1>3. CASE \/ ClearDisplay \/ UpdateImage \/ Finish \/ Joined \/ Elapse
           \/ WakeToStop \/ BatchDone \/ CheckBeforeDecode \/ Decode
           \/ CheckBeforePublish \/ Publish \/ DrainDone \/ Closed
           \/ UNCHANGED vars
  <2>1. /\ UNCHANGED <<queue, batch, archived, unsaved, evicted, ingested, gen,
                       logged, dropped>>
        /\ pc = "discarded" => pc' = "discarded"
    BY <1>3
    DEF ClearDisplay, UpdateImage, Finish, Joined, Elapse, WakeToStop, BatchDone,
        CheckBeforeDecode, Decode, CheckBeforePublish, Publish, DrainDone,
        Closed, vars, GiveUp
  <2> QED
    BY <2>1 DEF AccountInv, OrderInv, Before, DropsAccounted, NoFrameLost
<1>4. CASE Take
  <2>1. ToSet(batch) = {} /\ batch' = queue /\ queue' = <<>>
    BY <1>4, ToSetEmpty DEF Take, GenInv
  <2>2. ToSet(queue') = {} /\ Increasing(queue')
    BY <2>1, ToSetEmpty DEF Increasing
  <2>3. /\ UNCHANGED <<archived, unsaved, evicted, ingested, gen>>
        /\ pc # "discarded"
        /\ logged' + dropped' = logged + dropped
    BY <1>4 DEF Take, ReportDrops, TypeOK
  <2> QED
    BY <2>1, <2>2, <2>3
    DEF AccountInv, OrderInv, Before, DropsAccounted, NoFrameLost
<1>5. CASE NextFrame
  <2>1. UNCHANGED <<queue, archived, unsaved, evicted, ingested, gen, logged,
                    dropped>>
    BY <1>5 DEF NextFrame
  <2>2. CASE Head(batch).gen = gen
    <3>1. UNCHANGED batch /\ pc # "discarded"
      BY <1>5, <2>2 DEF NextFrame, IsCurrentGeneration
    <3> QED
      BY <2>1, <3>1 DEF AccountInv, OrderInv, Before, DropsAccounted, NoFrameLost
  <2>3. CASE Head(batch).gen # gen
    <3>1. batch' = Tail(batch) /\ UNCHANGED pc /\ batch # <<>>
      BY <1>5, <2>3 DEF NextFrame, IsCurrentGeneration
    <3>2. /\ ToSet(batch) = {Head(batch)} \cup ToSet(batch')
          /\ Increasing(batch')
      BY <3>1, ToSetHeadTail, TailIncreasing DEF AccountInv, OrderInv, TypeOK
    <3> QED
      BY <2>1, <2>3, <3>1, <3>2
      DEF AccountInv, OrderInv, Before, DropsAccounted, NoFrameLost
  <2> QED
    BY <2>2, <2>3
<1>6. CASE Process
  <2>1. /\ batch # <<>> /\ batch' = Tail(batch)
        /\ AppendRawFrame(Head(batch))
        /\ UNCHANGED <<queue, ingested, evicted, gen, logged, dropped>>
        /\ pc # "discarded"
    BY <1>6 DEF Process, ProcessFrame
  <2>2. /\ OrderInv'
        /\ ToSet(batch) = {Head(batch)} \cup ToSet(batch')
        /\ ToSet(archived) \cup unsaved \cup {Head(batch)}
              \subseteq ToSet(archived') \cup unsaved'
    BY <2>1, ArchiveKeepsOrder DEF AccountInv
  <2> QED
    BY <2>1, <2>2 DEF AccountInv, DropsAccounted, NoFrameLost
<1>7. CASE Drain
  <2>1. /\ ToSet(batch) = {} /\ queue' = <<>> /\ pc # "discarded"
        /\ UNCHANGED <<archived, unsaved, evicted, ingested, gen, logged, dropped>>
    BY <1>7, ToSetEmpty DEF Drain, GenInv
  <2>2. ToSet(queue') = {} /\ Increasing(queue')
    BY <2>1, ToSetEmpty DEF Increasing
  <2>3. \/ pc' = "discarded" /\ UNCHANGED batch
        \/ batch' = queue
    BY <1>7 DEF Drain
  <2> QED
    BY <2>1, <2>2, <2>3
    DEF AccountInv, OrderInv, Before, DropsAccounted, NoFrameLost
<1>8. CASE DrainFrame
  <2>1. /\ batch # <<>> /\ batch' = Tail(batch) /\ UNCHANGED pc
        /\ UNCHANGED <<queue, ingested, evicted, gen, logged, dropped>>
    BY <1>8 DEF DrainFrame, ProcessFrame
  <2>2. CASE Head(batch).gen = gen
    <3>1. AppendRawFrame(Head(batch))
      BY <1>8, <2>2 DEF DrainFrame, ProcessFrame
    <3>2. /\ OrderInv'
          /\ ToSet(batch) = {Head(batch)} \cup ToSet(batch')
          /\ ToSet(archived) \cup unsaved \cup {Head(batch)}
                \subseteq ToSet(archived') \cup unsaved'
      BY <2>1, <3>1, ArchiveKeepsOrder DEF AccountInv
    <3> QED
      BY <2>1, <3>2 DEF AccountInv, DropsAccounted, NoFrameLost
  <2>3. CASE Head(batch).gen # gen
    <3>1. UNCHANGED <<archived, unsaved>>
      BY <1>8, <2>3 DEF DrainFrame
    <3>2. /\ ToSet(batch) = {Head(batch)} \cup ToSet(batch')
          /\ Increasing(batch')
      BY <2>1, ToSetHeadTail, TailIncreasing DEF AccountInv, OrderInv, TypeOK
    <3> QED
      BY <2>1, <2>3, <3>1, <3>2
      DEF AccountInv, OrderInv, Before, DropsAccounted, NoFrameLost
  <2> QED
    BY <2>2, <2>3
<1> QED
  BY <1>1, <1>2, <1>3, <1>4, <1>5, <1>6, <1>7, <1>8 DEF Next, Qt, Worker

(* Every frame is accounted for, also when the archive cannot be written: a *)
(* frame that no clear revoked and that is neither archived nor on its way  *)
(* was dropped and counted, once, or is one whose write failed; and the     *)
(* archive is in order and free of copies.                                  *)
THEOREM EveryFrameAccounted == Spec => []FramesAccounted
<1>1. Init => AccountInv
  <2> SUFFICES ASSUME Init PROVE AccountInv
    OBVIOUS
  <2>1. /\ ToSet(queue) = {} /\ ToSet(batch) = {} /\ ToSet(archived) = {}
        /\ ToSet(ingested) = {} /\ evicted = {}
    BY ToSetEmpty DEF Init
  <2>2. Increasing(queue) /\ Increasing(batch) /\ Increasing(archived)
    BY DEF Init, Increasing
  <2>3. DropsAccounted /\ IsFiniteSet(evicted)
    BY FS_EmptySet DEF Init, DropsAccounted
  <2> QED
    BY <2>1, <2>2, <2>3 DEF AccountInv, OrderInv, Before, NoFrameLost
<1>2. TypeOK /\ AccountInv => FramesAccounted
  BY DEF AccountInv, OrderInv, FramesAccounted, ArchiveInOrder, Increasing
<1>3. Init => GenInv
  BY ToSetEmpty DEF Init, GenInv, HasGeneration
<1> QED
  BY <1>1, <1>2, <1>3, GenStep, AccountStep, TypeCorrect, PTL DEF Spec
=============================================================================
