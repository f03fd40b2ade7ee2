---------------------------- MODULE SharedIqRing ----------------------------
(***************************************************************************)
(* The shared-memory I/Q bridge: SDR++'s sink writes samples into a ring in *)
(* a mapped file, the decoder polls it from another process without locks.  *)
(*                                                                          *)
(* Source: integrations/sdrpp/asrtu_sink/src/posix_bridge.h (SharedBridge;  *)
(* shared_bridge.h is the Windows twin) and libs/demod/shared_iq_source.cpp.*)
(*                                                                          *)
(* One atomic step is one access another process can observe: one sample of *)
(* a memcpy, or one store or load of a header word. A sample is represented *)
(* by its absolute index in the stream. flock admits one producer at a time,*)
(* so "the producer" is whichever process holds the lock; it may crash      *)
(* between any two steps, which releases the lock and keeps the file.       *)
(***************************************************************************)
EXTENDS Integers, Sequences

CONSTANTS
    Capacity,        \* kCapacity = kCapacitySamples
    MaximumLatency,  \* kMaximumLatencySamples
    MaxOutput,       \* bound: the largest noutputItems of a work() call
    MaxBlock,        \* bound: the largest count of a write() call
    MaxIndex         \* bound: samples ever written

ASSUME RingAssumption ==
    /\ Capacity \in Nat \ {0}
    /\ MaximumLatency \in 1..Capacity
    /\ MaxOutput \in Nat \ {0}
    /\ MaxBlock \in Nat \ {0}
    /\ MaxIndex \in Nat

Slots == 0..(Capacity - 1)
Unwritten == -1

VARIABLES
    \* The mapped file
    magic,      \* the header identifies a V1 ring
    cursor,     \* offset 24: samples published
    enabled,    \* offset 40
    heartbeat,  \* offset 48: "none", "fresh", or "stale" after kProducerTimeout
    ring,       \* offset 64: the sample index each slot holds
    \* The producer
    prodPc,     \* "down", "starting", "header", "up", "copy", "publish", "beat"
    index,      \* index_
    total,      \* count of the write() in progress
    copied,     \* samples of it already stored
    \* The reader
    readPc,     \* "unmapped", "idle", "check", "copy", "after"
    written,    \* writeIndex() loaded at the start of work()
    read,       \* read_index_
    wasActive,  \* producer_was_active_
    recent,     \* last_sample_time_ns_ is set
    count,      \* samples this work() call copies
    out,        \* the samples copied so far
    \* History
    block,      \* the last block handed to the flowgraph: [from, data]
    origin,     \* read_index_ when the reader last aligned with a producer
    delivered,  \* samples handed on since then
    dropped,    \* dropped_samples_ since then
    mark        \* cursor seen when the producer was last found inactive

file     == <<magic, cursor, enabled, heartbeat, ring>>
producer == <<prodPc, index, total, copied>>
reader   == <<readPc, written, read, wasActive, recent, count, out>>
hist     == <<block, origin, delivered, dropped, mark>>
vars     == <<file, producer, reader, hist>>

Sample == Nat \cup {Unwritten}

TypeOK ==
    /\ magic \in BOOLEAN
    /\ cursor \in Nat
    /\ enabled \in BOOLEAN
    /\ heartbeat \in {"none", "fresh", "stale"}
    /\ ring \in [Slots -> Sample]
    /\ prodPc \in {"down", "starting", "header", "up", "copy", "publish",
                   "beat"}
    /\ index \in Nat
    /\ total \in Nat
    /\ copied \in Nat
    /\ readPc \in {"unmapped", "idle", "check", "copy", "after"}
    /\ written \in Nat
    /\ read \in Nat
    /\ wasActive \in BOOLEAN
    /\ recent \in BOOLEAN
    /\ count \in Nat
    /\ out \in Seq(Sample)
    /\ block \in [from : Nat, data : Seq(Sample)]
    /\ origin \in Nat
    /\ delivered \in Nat
    /\ dropped \in Nat
    /\ mark \in Nat

Init ==
    /\ magic = FALSE /\ cursor = 0 /\ enabled = FALSE /\ heartbeat = "none"
    /\ ring = [s \in Slots |-> Unwritten]
    /\ prodPc = "down" /\ index = 0 /\ total = 0 /\ copied = 0
    /\ readPc = "unmapped" /\ written = 0 /\ read = 0 /\ wasActive = FALSE
    /\ recent = FALSE /\ count = 0 /\ out = <<>>
    /\ block = [from |-> 0, data |-> <<>>]
    /\ origin = 0 /\ delivered = 0 /\ dropped = 0 /\ mark = 0

-----------------------------------------------------------------------------
(***************************************************************************)
(* The producer.                                                            *)
(***************************************************************************)

\* Fault: a producer always begins a new stream.
ResetIndex == 0

\* The cursor a new producer continues from.
ResumeIndex == IF magic THEN cursor ELSE 0

\* start(): the lock is taken; a reader must not trust the header meanwhile.
Start ==
    /\ prodPc = "down"
    /\ index' = ResumeIndex
    /\ enabled' = FALSE
    /\ prodPc' = "starting"
    /\ UNCHANGED <<magic, cursor, heartbeat, ring, total, copied, reader, hist>>

WriteHeader ==
    /\ prodPc = "starting"
    /\ magic' = TRUE
    /\ cursor' = index
    /\ prodPc' = "header"
    /\ UNCHANGED <<enabled, heartbeat, ring, index, total, copied, reader, hist>>

Enable ==
    /\ prodPc = "header"
    /\ heartbeat' = "none"
    /\ enabled' = TRUE
    /\ prodPc' = "up"
    /\ UNCHANGED <<magic, cursor, ring, index, total, copied, reader, hist>>

\* stop(), and the end of the process that called it.
Stop ==
    /\ prodPc = "up"
    /\ enabled' = FALSE
    /\ prodPc' = "down"
    /\ UNCHANGED <<magic, cursor, heartbeat, ring, index, total, copied, reader,
                   hist>>

Crash ==
    /\ prodPc # "down"
    /\ prodPc' = "down"
    /\ UNCHANGED <<file, index, total, copied, reader, hist>>

\* write() of n samples: only the last Capacity of them are stored.
BeginWrite(n) ==
    /\ prodPc = "up"
    /\ index + n <= MaxIndex
    /\ total' = n
    /\ copied' = IF n > Capacity THEN n - Capacity ELSE 0
    /\ prodPc' = "copy"
    /\ UNCHANGED <<file, index, reader, hist>>

StoreSample ==
    /\ prodPc = "copy"
    /\ copied < total
    /\ ring' = [ring EXCEPT ![(index + copied) % Capacity] = index + copied]
    /\ copied' = copied + 1
    /\ UNCHANGED <<magic, cursor, enabled, heartbeat, prodPc, index, total,
                   reader, hist>>

\* The samples are stored before the cursor that publishes them.
SamplesStored == prodPc = "copy" /\ copied = total

PublishCursor ==
    /\ SamplesStored
    /\ index' = index + total
    /\ cursor' = index + total
    /\ prodPc' = "beat"
    /\ UNCHANGED <<magic, enabled, heartbeat, ring, total, copied, reader, hist>>

Beat ==
    /\ prodPc = "beat"
    /\ heartbeat' = "fresh"
    /\ prodPc' = "up"
    /\ UNCHANGED <<magic, cursor, enabled, ring, index, total, copied, reader,
                   hist>>

\* kProducerTimeout passes since the last heartbeat.
Expire ==
    /\ heartbeat = "fresh"
    /\ heartbeat' = "stale"
    /\ UNCHANGED <<magic, cursor, enabled, ring, producer, reader, hist>>

-----------------------------------------------------------------------------
(***************************************************************************)
(* The reader: SharedIqSource::work().                                      *)
(***************************************************************************)
OpenMapping ==
    /\ readPc = "unmapped"
    /\ magic
    /\ read' = cursor
    /\ readPc' = "idle"
    /\ UNCHANGED <<file, producer, written, wasActive, recent, count, out, hist>>

LoadCursor ==
    /\ readPc = "idle"
    /\ written' = cursor
    /\ readPc' = "check"
    /\ UNCHANGED <<file, producer, read, wasActive, recent, count, out, hist>>

ProducerActive == enabled /\ heartbeat = "fresh"

Inactive ==
    /\ readPc = "check"
    /\ ~ProducerActive
    /\ wasActive' = FALSE
    /\ recent' = FALSE
    /\ mark' = written
    /\ readPc' = "idle"
    /\ UNCHANGED <<file, producer, written, read, count, out, block, origin,
                   delivered, dropped>>

\* Fault: a resumed producer is read from where the last one was left.
KeepPosition == read

\* read_index_ after the realignment with a producer that was not active and
\* after the guard against a cursor that moved backwards.
Aligned == IF ~wasActive \/ written < read THEN written ELSE read

\* Samples dropped to bound the latency of a reader that starts at from.
Skipped(from) == IF written - from > MaximumLatency
                 THEN written - from - MaximumLatency
                 ELSE 0

\* Fault: the reader waits for a full output buffer.
FullOrNothing(a, b) == IF a < b THEN 0 ELSE b

Least(a, b) == IF a < b THEN a ELSE b

\* The producer is active: align, skip, and choose how much to copy.
Plan(nout) ==
    /\ readPc = "check"
    /\ ProducerActive
    /\ LET from == Aligned
           next == from + Skipped(from)
       IN  /\ read' = next
           /\ IF wasActive /\ written >= read
              THEN /\ dropped' = dropped + Skipped(from)
                   /\ UNCHANGED <<origin, delivered>>
              ELSE origin' = from /\ delivered' = 0 /\ dropped' = Skipped(from)
           /\ count' = Least(written - next, nout)
           /\ readPc' = IF written = next THEN "idle" ELSE "copy"
    /\ wasActive' = TRUE
    /\ out' = <<>>
    /\ UNCHANGED <<file, producer, written, recent, block, mark>>

CopySample ==
    /\ readPc = "copy"
    /\ Len(out) < count
    /\ out' = Append(out, ring[(read + Len(out)) % Capacity])
    /\ UNCHANGED <<file, producer, readPc, written, read, wasActive, recent,
                   count, hist>>

Copied == readPc = "copy" /\ Len(out) = count

\* Fault: the copy is never checked against the cursor.
NeverLapped == FALSE

\* The producer published over the oldest sample of the copy.
Lapped == cursor - read > Capacity

LostToLap == cursor - read

\* A torn copy, or a cursor that moved backwards: resume at the cursor.
Discard ==
    /\ Copied
    /\ \/ cursor < read
       \/ Lapped
    /\ read' = cursor
    /\ IF cursor < read
       THEN wasActive' = FALSE /\ UNCHANGED dropped
       ELSE dropped' = dropped + LostToLap /\ UNCHANGED wasActive
    /\ readPc' = "idle"
    /\ UNCHANGED <<file, producer, written, recent, count, out, block, origin,
                   delivered, mark>>

Deliver ==
    /\ Copied
    /\ cursor >= read
    /\ ~Lapped
    /\ block' = [from |-> read, data |-> out]
    /\ delivered' = delivered + count
    /\ read' = read + count
    /\ recent' = TRUE
    /\ readPc' = "idle"
    /\ UNCHANGED <<file, producer, written, wasActive, count, out, origin,
                   dropped, mark>>

-----------------------------------------------------------------------------
Producer ==
    \/ Start \/ WriteHeader \/ Enable \/ Stop \/ Crash
    \/ \E n \in 1..MaxBlock : BeginWrite(n)
    \/ StoreSample \/ PublishCursor \/ Beat

Reader ==
    \/ OpenMapping \/ LoadCursor \/ Inactive
    \/ \E nout \in 1..MaxOutput : Plan(nout)
    \/ CopySample \/ Discard \/ Deliver

Next == Producer \/ Expire \/ Reader

Spec == Init /\ [][Next]_vars

(* The flowgraph keeps calling work(); nobody obliges the producer.         *)
FairSpec == Spec /\ WF_vars(Reader)

-----------------------------------------------------------------------------
(***************************************************************************)
(* Properties.                                                              *)
(***************************************************************************)

(* What the lap check achieves: a sample that is not the one asked for can  *)
(* reach the flowgraph only when it belongs to a write() whose cursor was   *)
(* not published yet when the check was made (in flight, or left behind by  *)
(* a crashed producer). Every published overwrite discards the block. (A    *)
(* write in flight is not caught, although the comment at the check says    *)
(* that the torn block is discarded: see the README.)                       *)
TornOnlyByUnpublished ==
    [][ block' # block =>
          \A k \in DOMAIN block'.data :
              \/ block'.data[k] = block'.from + k - 1
              \/ block'.data[k] >= cursor ]_vars

(* Since the reader aligned with a producer, every sample it has passed was *)
(* delivered or counted in dropped_samples_, through every combination of   *)
(* skips, laps and partial reads.                                           *)
DropsAccounted == wasActive => read - origin = delivered + dropped

(* After a pause of the producer that the reader noticed, nothing that was  *)
(* published before the pause is delivered, whether the producer resumed,   *)
(* crashed and came back, or was replaced by another one.                   *)
ResumesAfterPause == readPc = "copy" => read >= mark

(* Every step of the read position is explained, before a pause and after. *)
PositionExplained == TypeOK /\ DropsAccounted /\ ResumesAfterPause

(* If the producer stays active from some point on, the reader consumes     *)
(* everything it published.                                                 *)
CatchesUp == <>[]ProducerActive => <>[](read = cursor)

(* The positions of both sides, without the ring: see BridgeStream.         *)
Stream == INSTANCE BridgeStream WITH
              published <- cursor,
              consumed  <- IF readPc = "unmapped" THEN 0 ELSE read,
              last      <- <<block.from, block.from + Len(block.data)>>

ImplementsStream == Stream!Spec
=============================================================================
