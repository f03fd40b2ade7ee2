------------------------- MODULE SharedIqRingProofs -------------------------
(***************************************************************************)
(* Proofs about the I/Q bridge, for every capacity, latency limit, block    *)
(* size and length of the stream, with a producer that crashes between any  *)
(* two stores.                                                              *)
(*                                                                          *)
(* Positions: the cursor never moves back, a producer continues from it, and *)
(* every position the reader holds was a cursor or is behind one.  Samples: *)
(* a slot that the cursor has published holds the sample it should, or one  *)
(* of a later lap; so does what the reader has copied, unless the cursor    *)
(* has already passed the copy by a whole lap, and then the check finds it. *)
(***************************************************************************)
EXTENDS SharedIqRing, TLAPS

-----------------------------------------------------------------------------
(***************************************************************************)
(* Slots.                                                                   *)
(***************************************************************************)

\* The slot of a sample.
LEMMA SlotRange == ASSUME NEW a \in Nat PROVE a % Capacity \in Slots
BY RingAssumption DEF Slots

\* A position is its lap and its slot.
LEMMA SlotDivision ==
    ASSUME NEW a \in Nat
    PROVE  a \div Capacity \in Int
           /\ a = Capacity * (a \div Capacity) + (a % Capacity)
BY RingAssumption

\* The beginnings of two laps are a lap apart.
LEMMA LapsApart ==
    ASSUME NEW p \in Int, NEW q \in Int, Capacity * p < Capacity * q
    PROVE  Capacity * p + Capacity <= Capacity * q
<1>1. p + 1 <= q
  BY RingAssumption
<1>2. Capacity * (p + 1) <= Capacity * q
  BY <1>1, RingAssumption
<1> QED
  BY <1>2, RingAssumption

\* A later sample of the same slot is at least a lap later.
LEMMA NextLap ==
    ASSUME NEW a \in Nat, NEW b \in Nat, a % Capacity = b % Capacity, a < b
    PROVE  a + Capacity <= b
<1> DEFINE p == a \div Capacity
           q == b \div Capacity
<1>1. /\ a = Capacity * p + (a % Capacity) /\ b = Capacity * q + (b % Capacity)
      /\ p \in Int /\ q \in Int /\ a % Capacity \in Int
  BY SlotDivision, SlotRange DEF Slots
<1>2. Capacity * p < Capacity * q
  BY <1>1, RingAssumption
<1>3. Capacity * p + Capacity <= Capacity * q
  BY <1>1, <1>2, LapsApart
<1> QED
  BY <1>1, <1>3, RingAssumption

-----------------------------------------------------------------------------
(***************************************************************************)
(* Types.                                                                   *)
(***************************************************************************)

\* The initial states are well formed.
LEMMA TypeInit == Init => TypeOK
<1> SUFFICES ASSUME Init PROVE TypeOK
  OBVIOUS
<1>1. ring \in [Slots -> Sample]
  BY DEF Init, Sample, Unwritten
<1>2. out \in Seq(Sample) /\ block \in [from : Nat, data : Seq(Sample)]
  BY DEF Init
<1>3. /\ cursor = 0 /\ index = 0 /\ total = 0 /\ copied = 0 /\ written = 0
      /\ read = 0 /\ count = 0 /\ origin = 0 /\ delivered = 0 /\ dropped = 0
      /\ mark = 0 /\ magic = FALSE /\ enabled = FALSE /\ wasActive = FALSE
      /\ recent = FALSE /\ heartbeat = "none" /\ prodPc = "down"
      /\ readPc = "unmapped"
  BY DEF Init
<1> QED
  BY <1>1, <1>2, <1>3 DEF TypeOK

\* The numbers among the variables.
LEMMA Numbers ==
    ASSUME TypeOK
    PROVE  /\ cursor \in Nat /\ index \in Nat /\ total \in Nat /\ copied \in Nat
           /\ written \in Nat /\ read \in Nat /\ count \in Nat /\ mark \in Nat
           /\ origin \in Nat /\ delivered \in Nat /\ dropped \in Nat
           /\ wasActive \in BOOLEAN /\ Len(out) \in Nat
BY DEF TypeOK

\* What a work() call plans: where it starts after the realignment and the skip,
\* and how much it copies.
LEMMA PlanFits ==
    ASSUME TypeOK, NEW nout \in 1..MaxOutput, Plan(nout)
    PROVE  /\ read' \in Nat /\ read' <= written /\ count' \in Nat
           /\ read' = Aligned + Skipped(Aligned)
           /\ Aligned \in Nat /\ Skipped(Aligned) \in Nat
           /\ Aligned = (IF wasActive /\ written >= read THEN read ELSE written)
           /\ read' + count' <= written
           /\ readPc' = "copy" => count' > 0
           /\ out' \in Seq(Sample) /\ Len(out') = 0
<1>1. written \in Nat /\ read \in Nat /\ MaximumLatency \in Nat
      /\ nout \in Nat /\ nout > 0 /\ wasActive \in BOOLEAN
  BY RingAssumption DEF TypeOK
<1>2. Aligned \in Nat /\ Aligned <= written
      /\ Aligned = (IF wasActive /\ written >= read THEN read ELSE written)
  BY <1>1 DEF Aligned
<1>3. Skipped(Aligned) \in Nat /\ Aligned + Skipped(Aligned) <= written
  BY <1>1, <1>2 DEF Skipped
<1>4. /\ read' = Aligned + Skipped(Aligned)
      /\ count' = Least(written - (Aligned + Skipped(Aligned)), nout)
      /\ readPc' = (IF written = Aligned + Skipped(Aligned)
                    THEN "idle" ELSE "copy")
      /\ out' = <<>>
  BY DEF Plan
<1>5. read' \in Nat /\ read' <= written
  BY <1>2, <1>3, <1>4
<1>6. /\ count' \in Nat /\ read' + count' <= written
      /\ readPc' = "copy" => count' > 0
  BY <1>1, <1>4, <1>5 DEF Least
<1>7. out' \in Seq(Sample) /\ Len(out') = 0
  BY <1>4
<1> QED
  BY <1>2, <1>3, <1>4, <1>5, <1>6, <1>7

\* Every step keeps the types.
LEMMA TypeStep == ASSUME TypeOK, [Next]_vars PROVE TypeOK'
<1>1. CASE Start
  BY <1>1 DEF Start, ResumeIndex, TypeOK, file, producer, reader, hist
<1>2. CASE WriteHeader
  BY <1>2 DEF WriteHeader, TypeOK, file, producer, reader, hist
<1>3. CASE Enable
  BY <1>3 DEF Enable, TypeOK, file, producer, reader, hist
<1>4. CASE Stop
  BY <1>4 DEF Stop, TypeOK, file, producer, reader, hist
<1>5. CASE Crash
  BY <1>5 DEF Crash, TypeOK, file, producer, reader, hist
<1>6. ASSUME NEW n \in 1..MaxBlock, BeginWrite(n) PROVE TypeOK'
  <2>1. total' \in Nat /\ copied' \in Nat
    BY <1>6, RingAssumption DEF BeginWrite
  <2> QED
    BY <1>6, <2>1 DEF BeginWrite, TypeOK, file, reader, hist
<1>7. CASE StoreSample
  <2>1. index + copied \in Sample /\ copied' \in Nat
    BY <1>7, Numbers, SMTT(30) DEF StoreSample, Sample
  <2>2. ring' \in [Slots -> Sample]
    BY <1>7, <2>1 DEF StoreSample, TypeOK
  <2> QED
    BY <1>7, <2>1, <2>2 DEF StoreSample, TypeOK, reader, hist
<1>8. CASE PublishCursor
  BY <1>8 DEF PublishCursor, TypeOK, file, producer, reader, hist
<1>9. CASE Beat
  BY <1>9 DEF Beat, TypeOK, file, producer, reader, hist
<1>10. CASE Expire
  BY <1>10 DEF Expire, TypeOK, file, producer, reader, hist
<1>11. CASE OpenMapping
  BY <1>11 DEF OpenMapping, TypeOK, file, producer, reader, hist
<1>12. CASE LoadCursor
  BY <1>12 DEF LoadCursor, TypeOK, file, producer, reader, hist
<1>13. CASE Inactive
  BY <1>13 DEF Inactive, TypeOK, file, producer, reader, hist
<1>14. ASSUME NEW nout \in 1..MaxOutput, Plan(nout) PROVE TypeOK'
  <2>1. /\ read' \in Nat /\ count' \in Nat /\ out' \in Seq(Sample)
        /\ Aligned \in Nat /\ Skipped(Aligned) \in Nat
    BY <1>14, PlanFits
  <2>2. readPc' \in {"idle", "copy"} /\ wasActive' = TRUE
    BY <1>14 DEF Plan
  <2>3. origin' \in Nat /\ delivered' \in Nat /\ dropped' \in Nat
    <3>1. \/ /\ dropped' = dropped + Skipped(Aligned)
             /\ origin' = origin /\ delivered' = delivered
          \/ /\ origin' = Aligned /\ delivered' = 0
             /\ dropped' = Skipped(Aligned)
      <4>1. CASE wasActive /\ written >= read
        BY <1>14, <4>1 DEF Plan
      <4>2. CASE ~(wasActive /\ written >= read)
        BY <1>14, <4>2 DEF Plan
      <4> QED
        BY <4>1, <4>2
    <3>2. dropped \in Nat /\ origin \in Nat /\ delivered \in Nat
      BY Numbers
    <3> QED
      BY <2>1, <3>1, <3>2
  <2>4. UNCHANGED <<file, producer, written, recent, block, mark>>
    BY <1>14 DEF Plan
  <2> QED
    BY <2>1, <2>2, <2>3, <2>4 DEF TypeOK, file, producer
<1>15. CASE CopySample
  <2>1. ring[(read + Len(out)) % Capacity] \in Sample
    BY SlotRange, Numbers DEF TypeOK
  <2>2. out' \in Seq(Sample)
    BY <1>15, <2>1 DEF CopySample, TypeOK
  <2> QED
    BY <1>15, <2>2 DEF CopySample, TypeOK, file, producer, hist
<1>16. CASE Discard
  <2>1. dropped' \in Nat /\ wasActive' \in BOOLEAN /\ read' \in Nat
    <3>1. /\ read' = cursor
          /\ \/ wasActive' = FALSE /\ dropped' = dropped
             \/ /\ ~(cursor < read) /\ wasActive' = wasActive
                /\ dropped' = dropped + (cursor - read)
      <4>1. CASE cursor < read
        BY <1>16, <4>1 DEF Discard
      <4>2. CASE ~(cursor < read)
        BY <1>16, <4>2 DEF Discard, LostToLap
      <4> QED
        BY <4>1, <4>2
    <3>2. /\ cursor \in Nat /\ read \in Nat /\ dropped \in Nat
          /\ wasActive \in BOOLEAN
      BY Numbers
    <3>3. dropped' \in Nat /\ read' \in Nat
      BY <3>1, <3>2
    <3>4. wasActive' \in BOOLEAN
      BY <3>1, <3>2, Zenon
    <3> QED
      BY <3>3, <3>4
  <2> QED
    BY <1>16, <2>1 DEF Discard, TypeOK, file, producer
<1>17. CASE Deliver
  <2>1. block' \in [from : Nat, data : Seq(Sample)]
    BY <1>17 DEF Deliver, TypeOK
  <2>2. delivered' \in Nat /\ read' \in Nat /\ recent' = TRUE /\ readPc' = "idle"
    BY <1>17, Numbers, SMTT(30) DEF Deliver
  <2> QED
    BY <1>17, <2>1, <2>2 DEF Deliver, TypeOK, file, producer
<1>18. CASE UNCHANGED vars
  BY <1>18 DEF TypeOK, vars, file, producer, reader, hist
<1> QED
  BY <1>1, <1>2, <1>3, <1>4, <1>5, <1>6, <1>7, <1>8, <1>9, <1>10, <1>11, <1>12,
     <1>13, <1>14, <1>15, <1>16, <1>17, <1>18 DEF Next, Producer, Reader

-----------------------------------------------------------------------------
(***************************************************************************)
(* Positions.                                                               *)
(***************************************************************************)

\* The producer that runs is at the cursor, in a file that has a header.
ProducerAtCursor ==
    /\ prodPc # "down" => index = cursor
    /\ prodPc \in {"header", "up", "copy", "beat"} => magic
    /\ cursor > 0 => magic

\* The reader's positions, and those that were cursors, are not ahead of it.
ReaderBehind ==
    /\ read <= cursor /\ written <= cursor /\ mark <= cursor
    /\ readPc = "check" => read <= written /\ mark <= written
    /\ wasActive => read >= mark /\ readPc # "unmapped"
    /\ readPc = "copy" =>
          wasActive /\ count > 0 /\ read + count <= written /\ Len(out) <= count

PositionInv ==
    TypeOK /\ ProducerAtCursor /\ ReaderBehind /\ DropsAccounted

\* The initial states satisfy the invariant.
LEMMA PositionInit == Init => PositionInv
BY TypeInit DEF Init, PositionInv, ProducerAtCursor, ReaderBehind, DropsAccounted

\* The producer's steps and the passing of time.
LEMMA PositionProducer ==
    ASSUME PositionInv, Producer \/ Expire
    PROVE  (ProducerAtCursor /\ ReaderBehind /\ DropsAccounted)'
<1> USE DEF ProducerAtCursor, ReaderBehind, DropsAccounted
<1>1. TypeOK /\ ProducerAtCursor /\ ReaderBehind /\ DropsAccounted
  BY DEF PositionInv
<1>2. /\ cursor \in Nat /\ index \in Nat /\ total \in Nat /\ read \in Nat
      /\ written \in Nat /\ mark \in Nat
  BY <1>1, Numbers
<1>3. UNCHANGED <<reader, hist>>
  BY DEF Producer, Start, WriteHeader, Enable, Stop, Crash, BeginWrite,
         StoreSample, PublishCursor, Beat, Expire
<1>4. CASE Start
  BY <1>1, <1>2, <1>3, <1>4 DEF Start, ResumeIndex, reader, hist
<1>5. CASE WriteHeader
  BY <1>1, <1>2, <1>3, <1>5 DEF WriteHeader, reader, hist
<1>6. CASE Enable \/ Stop \/ Crash \/ Beat \/ StoreSample \/ Expire
           \/ \E n \in 1..MaxBlock : BeginWrite(n)
  BY <1>1, <1>2, <1>3, <1>6
  DEF Enable, Stop, Crash, Beat, StoreSample, Expire, BeginWrite, file,
      producer, reader, hist
<1>7. CASE PublishCursor
  BY <1>1, <1>2, <1>3, <1>7 DEF PublishCursor, SamplesStored, reader, hist
<1> QED
  BY <1>4, <1>5, <1>6, <1>7 DEF Producer

\* The reader's steps.
LEMMA PositionReader ==
    ASSUME PositionInv, Reader
    PROVE  (ProducerAtCursor /\ ReaderBehind /\ DropsAccounted)'
<1> USE DEF ProducerAtCursor, ReaderBehind, DropsAccounted
<1>1. TypeOK /\ ProducerAtCursor /\ ReaderBehind /\ DropsAccounted
  BY DEF PositionInv
<1>2. /\ cursor \in Nat /\ read \in Nat /\ written \in Nat /\ mark \in Nat
      /\ count \in Nat /\ origin \in Nat /\ delivered \in Nat /\ dropped \in Nat
      /\ Len(out) \in Nat /\ wasActive \in BOOLEAN
  BY <1>1, Numbers
<1>3. UNCHANGED <<file, producer>>
  <2>1. CASE OpenMapping \/ LoadCursor \/ Inactive \/ CopySample \/ Discard
             \/ Deliver
    BY <2>1
    DEF OpenMapping, LoadCursor, Inactive, CopySample, Discard, Deliver
  <2>2. CASE \E nout \in 1..MaxOutput : Plan(nout)
    BY <2>2 DEF Plan
  <2> QED
    BY <2>1, <2>2 DEF Reader
<1>4. CASE OpenMapping
  BY <1>1, <1>2, <1>3, <1>4 DEF OpenMapping, file, producer, hist
<1>5. CASE LoadCursor
  BY <1>1, <1>2, <1>3, <1>5 DEF LoadCursor, file, producer, hist
<1>6. CASE Inactive
  BY <1>1, <1>2, <1>3, <1>6 DEF Inactive, file, producer
<1>7. ASSUME NEW nout \in 1..MaxOutput, Plan(nout)
      PROVE  (ProducerAtCursor /\ ReaderBehind /\ DropsAccounted)'
  <2>1. /\ read' \in Nat /\ read' <= written /\ count' \in Nat
        /\ read' = Aligned + Skipped(Aligned)
        /\ Aligned \in Nat /\ Skipped(Aligned) \in Nat
        /\ Aligned = (IF wasActive /\ written >= read THEN read ELSE written)
        /\ read' + count' <= written
        /\ readPc' = "copy" => count' > 0
        /\ Len(out') = 0
    BY <1>1, <1>7, PlanFits
  <2>2. /\ readPc = "check" /\ readPc' \in {"idle", "copy"} /\ wasActive' = TRUE
        /\ written' = written /\ mark' = mark
    BY <1>7 DEF Plan
  <2>3. ProducerAtCursor' /\ ReaderBehind'
    BY <1>1, <1>2, <1>3, <2>1, <2>2 DEF file, producer
  <2>4. CASE wasActive /\ written >= read
    <3>1. /\ dropped' = dropped + Skipped(Aligned)
          /\ origin' = origin /\ delivered' = delivered
      BY <1>7, <2>4 DEF Plan
    <3> QED
      BY <1>1, <1>2, <2>1, <2>3, <2>4, <3>1, SMTT(30)
  <2>5. CASE ~(wasActive /\ written >= read)
    <3>1. origin' = Aligned /\ delivered' = 0 /\ dropped' = Skipped(Aligned)
      BY <1>7, <2>5 DEF Plan
    <3> QED
      BY <1>1, <1>2, <2>1, <2>3, <3>1
  <2> QED
    BY <2>4, <2>5
<1>8. CASE CopySample
  <2>1. Len(out') = Len(out) + 1
    BY <1>1, <1>8 DEF CopySample, TypeOK
  <2> QED
    BY <1>1, <1>2, <1>3, <1>8, <2>1 DEF CopySample, file, producer, hist
<1>9. CASE Discard
  <2>1. ~(cursor < read) /\ wasActive
    BY <1>1, <1>2, <1>9 DEF Discard, Copied
  <2>2. /\ read' = cursor /\ dropped' = dropped + (cursor - read)
        /\ wasActive' = wasActive /\ readPc' = "idle"
        /\ written' = written /\ mark' = mark
        /\ origin' = origin /\ delivered' = delivered
    BY <1>9, <2>1 DEF Discard, LostToLap
  <2> QED
    BY <1>1, <1>2, <1>3, <2>1, <2>2 DEF file, producer
<1>10. CASE Deliver
  BY <1>1, <1>2, <1>3, <1>10 DEF Deliver, Copied, file, producer
<1> QED
  BY <1>4, <1>5, <1>6, <1>7, <1>8, <1>9, <1>10 DEF Reader

\* Every step keeps the positions.
LEMMA PositionStep == ASSUME PositionInv, [Next]_vars PROVE PositionInv'
<1>1. TypeOK'
  BY TypeStep DEF PositionInv
<1>2. CASE UNCHANGED vars
  BY <1>1, <1>2
  DEF PositionInv, ProducerAtCursor, ReaderBehind, DropsAccounted, vars, file,
      producer, reader, hist
<1>3. CASE Next
  <2>1. (ProducerAtCursor /\ ReaderBehind /\ DropsAccounted)'
    BY <1>3, PositionProducer, PositionReader DEF Next
  <2> QED
    BY <1>1, <2>1 DEF PositionInv
<1> QED
  BY <1>2, <1>3

\* The positions are explained: every sample the reader passed was delivered or
\* is counted, and after a pause it is not behind what the pause showed.
THEOREM Positions == Spec => []PositionExplained
<1>1. PositionInv => PositionExplained
  BY DEF PositionInv, ReaderBehind, PositionExplained, ResumesAfterPause
<1> QED
  BY PositionInit, PositionStep, <1>1, PTL DEF Spec

-----------------------------------------------------------------------------
(***************************************************************************)
(* Samples.                                                                 *)
(***************************************************************************)

\* v is what is to be found at position i, now or laps later.
SameOrLater(v, i) == v = i \/ v >= i + Capacity

\* The published part of the last lap is in its slots.
SlotsTrue ==
    \A i \in Nat :
        i < cursor /\ cursor - Capacity <= i => SameOrLater(ring[i % Capacity], i)

\* A write() has stored what it has passed, but for what it leaves out.
WriteTrue ==
    prodPc = "copy" =>
        /\ copied <= total
        /\ \A j \in Nat : j < copied /\ total - Capacity <= j
              => ring[(index + j) % Capacity] = index + j

\* What the reader copies is true, unless it is lapped by now.
CopyTrue ==
    readPc = "copy" /\ cursor - read <= Capacity =>
        \A k \in 1 .. Len(out) : SameOrLater(out[k], read + k - 1)

SampleInv == PositionInv /\ SlotsTrue /\ WriteTrue /\ CopyTrue

\* The initial states satisfy the invariant.
LEMMA SampleInit == Init => SampleInv
BY PositionInit DEF Init, SampleInv, SlotsTrue, WriteTrue, CopyTrue

\* A sample is stored in a slot of its own lap.
LEMMA StoreKeepsSamples ==
    ASSUME SampleInv, StoreSample
    PROVE  SlotsTrue' /\ WriteTrue' /\ CopyTrue'
<1> DEFINE v == index + copied
<1>1. /\ cursor \in Nat /\ index \in Nat /\ total \in Nat /\ copied \in Nat
      /\ Capacity \in Nat /\ Capacity > 0 /\ ring \in [Slots -> Sample]
  BY Numbers, RingAssumption DEF SampleInv, PositionInv, TypeOK
<1>2. /\ prodPc = "copy" /\ copied < total /\ index = cursor
      /\ v \in Nat /\ v % Capacity \in Slots
      /\ ring' = [ring EXCEPT ![v % Capacity] = v] /\ copied' = copied + 1
      /\ UNCHANGED <<cursor, index, total, prodPc, readPc, read, out>>
  BY <1>1, SlotRange
  DEF StoreSample, SampleInv, PositionInv, ProducerAtCursor, reader
<1>3. ASSUME NEW i \in Nat
      PROVE  ring'[i % Capacity]
               = IF i % Capacity = v % Capacity THEN v ELSE ring[i % Capacity]
  BY <1>1, <1>2, SlotRange
<1>4. SlotsTrue'
  <2> SUFFICES ASSUME NEW i \in Nat, i < cursor, cursor - Capacity <= i
               PROVE  SameOrLater(ring'[i % Capacity], i)
    BY <1>2 DEF SlotsTrue
  <2>1. CASE i % Capacity = v % Capacity
    <3>1. i < v /\ v \in Nat
      BY <1>1, <1>2
    <3>2. i + Capacity <= v
      BY <2>1, <3>1, NextLap
    <3> QED
      BY <1>1, <1>3, <2>1, <3>2 DEF SameOrLater
  <2>2. CASE i % Capacity # v % Capacity
    BY <1>3, <2>2 DEF SampleInv, SlotsTrue
  <2> QED
    BY <2>1, <2>2
<1>5. WriteTrue'
  <2>1. copied' <= total'
    BY <1>1, <1>2
  <2>2. ASSUME NEW j \in Nat, j < copied + 1, total - Capacity <= j
        PROVE  ring'[(index + j) % Capacity] = index + j
    <3>1. CASE j = copied
      BY <1>1, <1>2, <1>3, <3>1
    <3>2. CASE j # copied
      <4>1. j < copied /\ index + j \in Nat /\ index + j < v
            /\ v < index + j + Capacity
        BY <1>1, <1>2, <2>2, <3>2
      <4>2. (index + j) % Capacity # v % Capacity
        BY <1>1, <1>2, <4>1, NextLap
      <4>3. ring[(index + j) % Capacity] = index + j
        BY <1>2, <2>2, <4>1 DEF SampleInv, WriteTrue
      <4> QED
        BY <1>3, <4>1, <4>2, <4>3
    <3> QED
      BY <3>1, <3>2
  <2> QED
    BY <1>2, <2>1, <2>2 DEF WriteTrue
<1>6. CopyTrue'
  BY <1>2 DEF SampleInv, CopyTrue
<1> QED
  BY <1>4, <1>5, <1>6

\* Publishing takes the samples of a write() into the last lap.
LEMMA PublishKeepsSamples ==
    ASSUME SampleInv, PublishCursor
    PROVE  SlotsTrue' /\ WriteTrue' /\ CopyTrue'
<1>1. /\ cursor \in Nat /\ total \in Nat /\ copied \in Nat /\ read \in Nat
      /\ Capacity \in Nat
  BY Numbers, RingAssumption DEF SampleInv, PositionInv
<1>2. /\ prodPc = "copy" /\ copied = total /\ index = cursor
      /\ cursor' = cursor + total /\ prodPc' = "beat"
      /\ UNCHANGED <<ring, readPc, read, out>>
  BY DEF PublishCursor, SamplesStored, SampleInv, PositionInv,
         ProducerAtCursor, reader
<1>3. SlotsTrue'
  <2> SUFFICES ASSUME NEW i \in Nat, i < cursor', cursor' - Capacity <= i
               PROVE  SameOrLater(ring'[i % Capacity], i)
    BY DEF SlotsTrue
  <2>1. CASE i < cursor
    BY <1>1, <1>2, <2>1 DEF SampleInv, SlotsTrue
  <2>2. CASE i >= cursor
    <3>1. i - cursor \in Nat /\ i - cursor < copied
          /\ total - Capacity <= i - cursor /\ cursor + (i - cursor) = i
      BY <1>1, <1>2, <2>2
    <3>2. ring[(index + (i - cursor)) % Capacity] = index + (i - cursor)
      BY <1>2, <3>1 DEF SampleInv, WriteTrue
    <3> QED
      BY <1>2, <3>1, <3>2 DEF SameOrLater
  <2> QED
    BY <1>1, <2>1, <2>2
<1>4. WriteTrue'
  BY <1>2 DEF WriteTrue
<1>5. CopyTrue'
  BY <1>1, <1>2 DEF SampleInv, CopyTrue
<1> QED
  BY <1>3, <1>4, <1>5

\* The reader copies a slot.
LEMMA CopyKeepsSamples ==
    ASSUME SampleInv, CopySample
    PROVE  SlotsTrue' /\ WriteTrue' /\ CopyTrue'
<1>1. /\ cursor \in Nat /\ read \in Nat /\ written \in Nat /\ count \in Nat
      /\ Len(out) \in Nat /\ out \in Seq(Sample) /\ Capacity \in Nat
      /\ ring \in [Slots -> Sample]
  BY Numbers, RingAssumption DEF SampleInv, PositionInv, TypeOK
<1> DEFINE i == read + Len(out)
<1>2. /\ readPc = "copy" /\ out' = Append(out, ring[i % Capacity])
      /\ i \in Nat /\ i < cursor
      /\ UNCHANGED <<file, producer, read, readPc>>
  BY <1>1 DEF CopySample, SampleInv, PositionInv, ReaderBehind
<1>3. SlotsTrue' /\ WriteTrue'
  BY <1>2 DEF SampleInv, SlotsTrue, WriteTrue, file, producer
<1>4. CopyTrue'
  <2> SUFFICES ASSUME cursor - read <= Capacity, NEW k \in 1 .. Len(out')
               PROVE  SameOrLater(out'[k], read + k - 1)
    BY <1>2 DEF CopyTrue, file
  <2>1. ring[i % Capacity] \in Sample
    BY <1>1, <1>2, SlotRange
  <2>2. Len(out') = Len(out) + 1
        /\ out'[k] = IF k = Len(out) + 1 THEN ring[i % Capacity] ELSE out[k]
    BY <1>1, <1>2, <2>1, SMTT(30)
  <2>3. CASE k = Len(out) + 1
    <3>1. cursor - Capacity <= i /\ i = read + k - 1
      BY <1>1, <2>3
    <3>2. SameOrLater(ring[i % Capacity], i)
      BY <1>2, <3>1 DEF SampleInv, SlotsTrue
    <3> QED
      BY <2>2, <2>3, <3>1, <3>2
  <2>4. CASE k # Len(out) + 1
    <3>1. k \in 1 .. Len(out)
      BY <1>1, <2>2, <2>4
    <3> QED
      BY <1>2, <2>2, <2>4, <3>1 DEF SampleInv, CopyTrue
  <2> QED
    BY <2>3, <2>4
<1> QED
  BY <1>3, <1>4

\* The other steps: a copy begins with nothing, and a write() with nothing that
\* is to be published.
LEMMA OthersKeepSamples ==
    ASSUME SampleInv, [Next]_vars,
           ~StoreSample, ~PublishCursor, ~CopySample
    PROVE  SlotsTrue' /\ WriteTrue' /\ CopyTrue'
<1>1. ring' = ring /\ cursor' = cursor
  <2>1. CASE Start \/ WriteHeader \/ Enable \/ Stop \/ Crash \/ Beat \/ Expire
             \/ \E n \in 1..MaxBlock : BeginWrite(n)
    BY <2>1
    DEF Start, WriteHeader, Enable, Stop, Crash, Beat, Expire, BeginWrite, file,
        SampleInv, PositionInv, ProducerAtCursor
  <2>2. CASE Reader
    BY <2>2, PositionReader
    DEF Reader, OpenMapping, LoadCursor, Inactive, Plan, Discard, Deliver, file
  <2>3. CASE UNCHANGED vars
    BY <2>3 DEF vars, file
  <2> QED
    BY <2>1, <2>2, <2>3 DEF Next, Producer
<1>2. SlotsTrue'
  BY <1>1 DEF SampleInv, SlotsTrue
<1>3. WriteTrue'
  <2>1. ASSUME NEW n \in 1..MaxBlock, BeginWrite(n) PROVE WriteTrue'
    <3>1. /\ total' = n /\ n \in Nat
          /\ copied' = IF n > Capacity THEN n - Capacity ELSE 0
      BY <2>1, RingAssumption DEF BeginWrite
    <3> QED
      BY <3>1, RingAssumption DEF WriteTrue
  <2>2. CASE prodPc' # "copy"
    BY <2>2 DEF WriteTrue
  <2>3. CASE UNCHANGED <<prodPc, index, total, copied>>
    BY <1>1, <2>3 DEF SampleInv, WriteTrue
  <2>4. prodPc' # "copy" \/ UNCHANGED <<prodPc, index, total, copied>>
        \/ \E n \in 1..MaxBlock : BeginWrite(n)
    <3>1. CASE Producer
      BY <3>1 DEF Producer, Start, WriteHeader, Enable, Stop, Crash, Beat
    <3>2. CASE Expire \/ Reader \/ UNCHANGED vars
      BY <3>2
      DEF Expire, Reader, OpenMapping, LoadCursor, Inactive, Plan, Discard,
          Deliver, vars, producer
    <3> QED
      BY <3>1, <3>2 DEF Next
  <2> QED
    BY <2>1, <2>2, <2>3, <2>4
<1>4. CopyTrue'
  <2>1. CASE readPc' # "copy"
    BY <2>1 DEF CopyTrue
  <2>2. CASE UNCHANGED <<readPc, read, out>>
    BY <1>1, <2>2 DEF SampleInv, CopyTrue
  <2>3. ASSUME NEW nout \in 1..MaxOutput, Plan(nout) PROVE CopyTrue'
    BY <2>3, PlanFits DEF SampleInv, PositionInv, CopyTrue
  <2>4. readPc' # "copy" \/ UNCHANGED <<readPc, read, out>>
        \/ \E nout \in 1..MaxOutput : Plan(nout)
    <3>1. CASE Producer \/ Expire
      BY <3>1
      DEF Producer, Start, WriteHeader, Enable, Stop, Crash, BeginWrite, Beat,
          Expire, reader
    <3>2. CASE Reader
      BY <3>2 DEF Reader, OpenMapping, LoadCursor, Inactive, Discard, Deliver
    <3>3. CASE UNCHANGED vars
      BY <3>3 DEF vars, reader
    <3> QED
      BY <3>1, <3>2, <3>3 DEF Next
  <2> QED
    BY <2>1, <2>2, <2>3, <2>4
<1> QED
  BY <1>2, <1>3, <1>4

\* Every step keeps the samples.
LEMMA SampleStep == ASSUME SampleInv, [Next]_vars PROVE SampleInv'
<1>1. PositionInv'
  BY PositionStep DEF SampleInv
<1>2. SlotsTrue' /\ WriteTrue' /\ CopyTrue'
  BY StoreKeepsSamples, PublishKeepsSamples, CopyKeepsSamples, OthersKeepSamples
<1> QED
  BY <1>1, <1>2 DEF SampleInv

\* A block that reaches the flowgraph holds the samples it should, but for those
\* of a write() whose cursor was not published when the reader checked.
THEOREM Torn == Spec => TornOnlyByUnpublished
<1>1. ASSUME SampleInv, [Next]_vars, block' # block,
             NEW k \in DOMAIN block'.data
      PROVE  \/ block'.data[k] = block'.from + k - 1
             \/ block'.data[k] >= cursor
  <2>1. Deliver
    <3>1. CASE Producer \/ Expire
      BY <1>1, <3>1
      DEF Producer, Start, WriteHeader, Enable, Stop, Crash, BeginWrite,
          StoreSample, PublishCursor, Beat, Expire, hist
    <3>2. CASE Reader
      BY <1>1, <3>2
      DEF Reader, OpenMapping, LoadCursor, Inactive, Plan, CopySample, Discard,
          hist
    <3> QED
      BY <1>1, <3>1, <3>2 DEF Next, vars, hist
  <2>2. /\ cursor \in Nat /\ read \in Nat /\ Capacity \in Nat
        /\ out \in Seq(Sample)
    BY <1>1, Numbers, RingAssumption DEF SampleInv, PositionInv, TypeOK
  <2>3. /\ block' = [from |-> read, data |-> out] /\ readPc = "copy"
        /\ cursor - read <= Capacity
    BY <2>1, <2>2 DEF Deliver, Copied, Lapped
  <2>4. k \in 1 .. Len(out) /\ out[k] \in Sample
    BY <1>1, <2>2, <2>3
  <2>5. SameOrLater(out[k], read + k - 1)
    BY <1>1, <2>3, <2>4 DEF SampleInv, CopyTrue
  <2>6. out[k] = read + k - 1 \/ out[k] >= cursor
    BY <2>2, <2>3, <2>4, <2>5 DEF SameOrLater, Sample, Unwritten
  <2> QED
    BY <2>3, <2>6
<1>2. SampleInv /\ [Next]_vars
      => [ block' # block =>
             \A k \in DOMAIN block'.data :
                 \/ block'.data[k] = block'.from + k - 1
                 \/ block'.data[k] >= cursor ]_vars
  BY <1>1
<1> QED
  BY SampleInit, SampleStep, <1>2, PTL DEF Spec, TornOnlyByUnpublished

-----------------------------------------------------------------------------
(***************************************************************************)
(* The abstract stream.                                                     *)
(***************************************************************************)

\* The bridge implements the stream: the cursor only grows, and the reader walks
\* along it, delivering intervals that follow one another.
THEOREM BridgeImplementsStream == Spec => ImplementsStream
<1>1. Init => Stream!Init
  BY DEF Init, Stream!Init
<1>2. ASSUME PositionInv, [Next]_vars PROVE [Stream!Next]_Stream!vars
  <2>1. /\ cursor \in Nat /\ index \in Nat /\ total \in Nat /\ read \in Nat
        /\ written \in Nat /\ count \in Nat /\ wasActive \in BOOLEAN
    BY <1>2, Numbers DEF PositionInv
  <2>2. CASE Start \/ WriteHeader \/ Enable \/ Stop \/ Crash \/ StoreSample
             \/ Beat \/ Expire \/ \E n \in 1..MaxBlock : BeginWrite(n)
    BY <1>2, <2>2
    DEF Start, WriteHeader, Enable, Stop, Crash, StoreSample, Beat, Expire,
        BeginWrite, PositionInv, ProducerAtCursor, file, reader, hist,
        Stream!vars
  <2>3. CASE PublishCursor
    <3>1. cursor' = cursor + total /\ UNCHANGED <<readPc, read, block>>
      BY <1>2, <2>3
      DEF PublishCursor, SamplesStored, PositionInv, ProducerAtCursor, reader,
          hist
    <3> QED
      BY <2>1, <3>1 DEF Stream!Next, Stream!Publish, Stream!vars
  <2>4. CASE OpenMapping
    <3>1. /\ readPc = "unmapped" /\ readPc' = "idle" /\ read' = cursor
          /\ UNCHANGED <<cursor, block>>
      BY <2>4 DEF OpenMapping, file, hist
    <3> QED
      BY <2>1, <3>1 DEF Stream!Next, Stream!Skip, Stream!vars
  <2>5. CASE LoadCursor \/ Inactive \/ CopySample
    BY <2>5
    DEF LoadCursor, Inactive, CopySample, file, hist, Stream!vars
  <2>6. ASSUME NEW nout \in 1..MaxOutput, Plan(nout)
        PROVE  [Stream!Next]_Stream!vars
    <3>1. read <= read' /\ read' <= cursor /\ read' \in Nat
      <4>1. /\ read' \in Nat /\ read' <= written
            /\ read' = Aligned + Skipped(Aligned)
            /\ Aligned \in Nat /\ Skipped(Aligned) \in Nat
            /\ Aligned = (IF wasActive /\ written >= read THEN read ELSE written)
        BY <1>2, <2>6, PlanFits DEF PositionInv
      <4>2. read <= written /\ written <= cursor
        BY <1>2, <2>6 DEF PositionInv, ReaderBehind, Plan
      <4> QED
        BY <2>1, <4>1, <4>2
    <3>2. /\ readPc = "check" /\ readPc' # "unmapped"
          /\ UNCHANGED <<cursor, block>>
      BY <2>6 DEF Plan, file
    <3> QED
      BY <2>1, <3>1, <3>2 DEF Stream!Next, Stream!Skip, Stream!vars
  <2>7. CASE Discard
    <3>1. /\ readPc = "copy" /\ readPc' = "idle" /\ read' = cursor
          /\ UNCHANGED <<cursor, block>>
      BY <2>7 DEF Discard, Copied, file
    <3>2. read <= cursor
      BY <1>2 DEF PositionInv, ReaderBehind
    <3> QED
      BY <2>1, <3>1, <3>2 DEF Stream!Next, Stream!Skip, Stream!vars
  <2>8. CASE Deliver
    <3>1. /\ readPc = "copy" /\ readPc' = "idle" /\ read' = read + count
          /\ block' = [from |-> read, data |-> out] /\ Len(out) = count
          /\ cursor' = cursor
      BY <2>8 DEF Deliver, Copied, file
    <3>2. count > 0 /\ read + count <= cursor
      BY <1>2, <2>1, <3>1 DEF PositionInv, ReaderBehind
    <3> QED
      BY <2>1, <3>1, <3>2 DEF Stream!Next, Stream!Deliver, Stream!vars
  <2>9. CASE UNCHANGED vars
    BY <2>9 DEF vars, file, reader, hist, Stream!vars
  <2> QED
    BY <1>2, <2>2, <2>3, <2>4, <2>5, <2>6, <2>7, <2>8, <2>9
    DEF Next, Producer, Reader
<1> QED
  BY PositionInit, PositionStep, <1>1, <1>2, PTL
  DEF Spec, ImplementsStream, Stream!Spec
=============================================================================
