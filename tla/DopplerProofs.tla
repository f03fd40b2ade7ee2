---------------------------- MODULE DopplerProofs ----------------------------
(***************************************************************************)
(* Proofs about the Doppler record and the radio that follows it, for every *)
(* set of targets.                                                          *)
(*                                                                          *)
(* The reader's guarantee needs three facts.  The sequence is odd whenever  *)
(* the writer is between its fields, so that a store to a field meets no    *)
(* reader that saw an even sequence which nobody stored since.  As long as  *)
(* nobody has stored it, what the reader has loaded is what the record it   *)
(* maps still holds, whether that is the writer's record or one that the    *)
(* writer has replaced.  And nobody unmaps it in the middle of a read.      *)
(***************************************************************************)
EXTENDS DopplerTuning, TLAPS

Loading == {"target", "stamp", "after"}

\* The writer stores fields only behind an odd sequence.
WriterMarks ==
    /\ writer = "writing" => record.odd
    /\ writer # "writing" => todo = {}

\* A read goes on under the sink's mutex and on a mapped record.
ReadHolds == reader # "idle" => gui = "read" /\ mapped # "none"

\* While nobody has stored the sequence, the record is even and the reader's
\* copy of it is true as far as it goes.
CopyIsTrue ==
    reader \in Loading /\ ~touched
    => /\ ~Mapped.odd
       /\ reader \in {"stamp", "after"} => seen.target = Mapped.data.target
       /\ reader = "after" => seen.stamp = Mapped.data.stamp

ReadInv == DopplerTypeOK /\ WriterMarks /\ ReadHolds /\ CopyIsTrue

-----------------------------------------------------------------------------

Records == [odd : BOOLEAN, data : Payloads]

\* The blank record and the abandoned one are records, in step with nothing.
LEMMA Constants ==
    /\ Nothing \in Payloads
    /\ Blank \in Records /\ ~Blank.odd
    /\ Abandoned \in Records /\ Abandoned.odd
<1>1. Nothing \in Payloads
  BY DEF Nothing, Payloads
<1> QED
  BY <1>1 DEF Blank, Abandoned, Records

\* The initial states satisfy the invariant.
LEMMA ReadInit == Init => ReadInv
BY Constants
DEF Init, DopplerInit, ReadInv, DopplerTypeOK, WriterMarks, ReadHolds,
    CopyIsTrue, Steps, Loading, Records

\* What an aged payload is: its target stays, and its type.
LEMMA AgedPayload ==
    ASSUME NEW d \in Payloads
    PROVE  /\ [d EXCEPT !.stamp = "stale"] \in Payloads
           /\ [d EXCEPT !.stamp = "stale"].target = d.target
           /\ [d EXCEPT !.stamp = "stale"].stamp = "stale"
BY DEF Payloads

\* The writer, wherever it is and whatever the reader is at.
LEMMA TrackerKeeps == ReadInv /\ Tracker => ReadInv'
<1> SUFFICES ASSUME ReadInv, Tracker PROVE ReadInv'
  OBVIOUS
<1> USE DEF ReadInv, DopplerTypeOK, WriterMarks, ReadHolds, CopyIsTrue,
            Mapped, Steps, Loading, Records
<1>1. UNCHANGED <<gui, reader, seen>>
  BY DEF Tracker, Publish, Store, Finish, Die, Restart, sink
<1>2. CASE Publish
  <2>1. next' \in Payloads
    BY <1>2 DEF Publish, Payloads
  <2>2. record' \in Records /\ record'.odd /\ touched' \in BOOLEAN
    BY <1>2 DEF Publish, StoreSequence
  <2>3. CopyIsTrue'
    BY <1>1, <1>2 DEF Publish, StoreSequence
  <2> QED
    BY <1>1, <1>2, <2>1, <2>2, <2>3 DEF Publish
<1>3. CASE Store
  <2>1. writer = "writing" /\ record.odd
    BY <1>3 DEF Store
  <2>2. record'.odd = record.odd /\ UNCHANGED <<left, mapped, writer, next, touched>>
    BY <1>3 DEF Store
  <2>3. record' \in Records /\ todo' \subseteq Fields
    BY <1>3 DEF Store, Payloads, Fields
  <2>4. CopyIsTrue'
    BY <1>1, <2>1, <2>2
  <2> QED
    BY <1>1, <2>1, <2>2, <2>3, <2>4
<1>4. CASE Finish
  BY <1>1, <1>4, Constants DEF Finish, StoreSequence
<1>5. CASE Die
  BY <1>1, <1>5, Constants DEF Die
<1>6. CASE Restart
  BY <1>1, <1>6, Constants DEF Restart
<1> QED
  BY <1>2, <1>3, <1>4, <1>5, <1>6 DEF Tracker

\* Time ages the reader's copy and the record alike.
LEMMA TimeKeeps == ReadInv /\ Time => ReadInv'
<1> SUFFICES ASSUME ReadInv, Time PROVE ReadInv'
  OBVIOUS
<1>1. UNCHANGED <<mapped, writer, todo, reader, touched, gui>>
  BY DEF Time, TimePasses, sink
<1>2. /\ record.data \in Payloads /\ left.data \in Payloads
      /\ next \in Payloads /\ seen \in Payloads
      /\ record \in [odd : BOOLEAN, data : Payloads]
      /\ left \in [odd : BOOLEAN, data : Payloads]
  BY DEF ReadInv, DopplerTypeOK
<1>3. /\ record' = [record EXCEPT !.data = [record.data EXCEPT !.stamp = "stale"]]
      /\ left' = [left EXCEPT !.data = [left.data EXCEPT !.stamp = "stale"]]
      /\ next' = [next EXCEPT !.stamp = "stale"]
      /\ seen' = [seen EXCEPT !.stamp = "stale"]
  BY DEF Time, TimePasses
<1>4. /\ record'.odd = record.odd /\ left'.odd = left.odd
      /\ record'.data = [record.data EXCEPT !.stamp = "stale"]
      /\ left'.data = [left.data EXCEPT !.stamp = "stale"]
      /\ record' \in [odd : BOOLEAN, data : Payloads]
      /\ left' \in [odd : BOOLEAN, data : Payloads]
  BY <1>2, <1>3, AgedPayload
<1>5. next' \in Payloads /\ seen' \in Payloads
  BY <1>2, <1>3, AgedPayload
<1>6. DopplerTypeOK'
  BY <1>1, <1>4, <1>5 DEF ReadInv, DopplerTypeOK
<1>7. WriterMarks' /\ ReadHolds'
  BY <1>1, <1>4 DEF ReadInv, WriterMarks, ReadHolds
<1>8. CopyIsTrue'
  BY <1>1, <1>2, <1>3, <1>4, AgedPayload
  DEF ReadInv, CopyIsTrue, Mapped, Payloads, Loading
<1> QED
  BY <1>6, <1>7, <1>8 DEF ReadInv

\* The steps of a read.
LEMMA LoadsKeep == ReadInv /\ (Frame \/ Loads \/ ReadEnds) => ReadInv'
<1> SUFFICES ASSUME ReadInv, Frame \/ Loads \/ ReadEnds PROVE ReadInv'
  OBVIOUS
<1> USE DEF ReadInv, DopplerTypeOK, WriterMarks, ReadHolds, CopyIsTrue,
            Mapped, Steps, Loading, Records
<1>1. CASE Frame
  BY <1>1 DEF Frame, Read
<1>2. CASE Loads /\ LoadSequence
  BY <1>2, Constants DEF Loads, LoadSequence, Done
<1>3. CASE Loads /\ LoadFields
  <2>1. UNCHANGED <<record, left, mapped, writer, todo, next, touched>>
    BY <1>3 DEF LoadFields, Load
  <2>2. gui' = "read" /\ gui = "read" /\ mapped # "none"
    BY <1>3 DEF Loads, LoadFields, Load
  <2>3. CASE Load("target", "stamp")
    BY <2>1, <2>2, <2>3 DEF Load, Payloads
  <2>4. CASE Load("stamp", "after")
    BY <2>1, <2>2, <2>4 DEF Load, Payloads
  <2> QED
    BY <1>3, <2>3, <2>4 DEF LoadFields
<1>4. CASE ReadEnds
  BY <1>4, Constants DEF ReadEnds, Done, Close, Unmap
<1> QED
  BY <1>1, <1>2, <1>3, <1>4 DEF Loads

\* All other steps leave the record and its reader alone, or close a reader
\* that is not reading.
LEMMA OthersKeep ==
    ReadInv /\ [Next]_vars /\ ~Tracker /\ ~Time /\ ~Frame /\ ~Loads /\ ~ReadEnds
    => /\ ReadInv'
       /\ ~(gui = "read" /\ gui' = "tracking")
<1> SUFFICES ASSUME ReadInv, [Next]_vars, ~Tracker, ~Time, ~Frame, ~Loads,
                    ~ReadEnds
             PROVE  ReadInv' /\ ~(gui = "read" /\ gui' = "tracking")
  OBVIOUS
<1> USE DEF ReadInv, DopplerTypeOK, WriterMarks, ReadHolds, CopyIsTrue,
            Mapped, Records, Loading, doppler, sink
<1>1. CASE StopSink \/ MenuStop \/ SoapyThrows
  <2>1. gui # "read"
    BY <1>1 DEF StopSink, MenuStop, SoapyThrows
  <2>2. DopplerClosed /\ (gui' = gui \/ gui' = "idle")
    BY <1>1 DEF StopSink, MenuStop, SoapyThrows
  <2> QED
    BY <2>1, <2>2, Constants DEF DopplerClosed, Unmap
<1>2. CASE UNCHANGED vars
  BY <1>2 DEF vars
<1>3. CASE StillTracked \/ DecideRecenter \/ TuneCenter \/ TuneVfo
  BY <1>3 DEF StillTracked, DecideRecenter, TuneCenter, TuneVfo
<1>4. CASE StartSink \/ MoveCenter \/ SelectSource
  BY <1>4 DEF StartSink, MoveCenter, SelectSource
<1>5. CASE StartSoapy \/ StartPluto \/ StopSoapy \/ StopPluto
  BY <1>5 DEF StartSoapy, StartPluto, StopSoapy, StopPluto, Opened, Stopped
<1>6. CASE JoinWorker \/ SoapyWorkerEnds \/ PlutoWorkerEnds
  BY <1>6 DEF JoinWorker, SoapyWorkerEnds, PlutoWorkerEnds, Ends
<1> QED
  BY <1>1, <1>2, <1>3, <1>4, <1>5, <1>6 DEF Next, OnFrame

LEMMA ReadStep == ReadInv /\ [Next]_vars => ReadInv'
BY TrackerKeeps, TimeKeeps, LoadsKeep, OthersKeep

-----------------------------------------------------------------------------

\* A target that read hands to the sink is that of one complete record.
THEOREM ReadsAreAtomic == Spec => TargetIsARecord
<1>1. ReadInv /\ [Next]_vars
      => [gui = "read" /\ gui' = "tracking"
          => ~Mapped.odd /\ seen = Mapped.data]_vars
  <2> SUFFICES ASSUME ReadInv, [Next]_vars, gui = "read", gui' = "tracking"
               PROVE  ~Mapped.odd /\ seen = Mapped.data
    OBVIOUS
  <2>1. ~Tracker /\ ~Time /\ ~Frame /\ ~Loads
    BY DEF Tracker, Time, Frame, Loads, sink
  <2>2. ReadEnds
    BY <2>1, OthersKeep
  <2>3. Accepts
    BY <2>2 DEF ReadEnds
  <2>4. /\ ~Mapped.odd
        /\ seen.target = Mapped.data.target
        /\ seen.stamp = Mapped.data.stamp
    BY <2>3 DEF ReadInv, CopyIsTrue, Accepts, Loading
  <2>5. seen \in Payloads /\ Mapped.data \in Payloads
    BY DEF ReadInv, DopplerTypeOK, Mapped
  <2> QED
    BY <2>4, <2>5 DEF Payloads
<1> QED
  BY <1>1, ReadInit, ReadStep, PTL DEF Spec, TargetIsARecord

-----------------------------------------------------------------------------
(***************************************************************************)
(* The radio.  What makes the property inductive: the source's own note of  *)
(* the frequency is what SDR++ believes whether or not it runs, if it was   *)
(* tuned, a radio is open and a worker streams only from start to the join  *)
(* in stop, and a frame that goes on after its read has a target.           *)
(***************************************************************************)
Following == {"tracking", "recenter", "tune", "vfo"}

SourceInv ==
    /\ ReadInv /\ TypeOK
    /\ freq \in {center, Astray}
    /\ running => radio \in {center, Astray} /\ stream /\ gui # "join"
    /\ radio = Astray => kind = "pluto" \/ freq = Astray
    /\ gui = "join" => radio # 0 /\ (stream \/ kind = "soapy")
    /\ radio # 0 => running \/ gui = "join"
    /\ worker = "streaming" => running \/ gui = "join"
    /\ gui \in Following => target \in Targets

\* No center is 0, which stands for a closed radio, nor is any frequency.
LEMMA CentersPositive == Astray # 0 /\ \A c \in Centers : c # 0 /\ c # Astray
BY TargetsAssumption, TuningAssumption DEF Centers, Center, Astray

\* The initial states satisfy it.
LEMMA SourceInit == Init => SourceInv
BY ReadInit DEF Init, SourceInv, TypeOK, ReadInv, Guis, Centers, Following

\* Steps that have no part in the source.
LEMMA SinkKeepsSource ==
    ASSUME SourceInv, ReadInv',
           \/ Tracker \/ Time \/ Frame \/ Loads \/ ReadEnds
           \/ StillTracked \/ DecideRecenter \/ TuneVfo
           \/ StartSink \/ StopSink \/ MenuStop
    PROVE  SourceInv'
<1> USE DEF SourceInv, TypeOK, ReadInv, sink, source, Guis, Following
<1>1. UNCHANGED <<center, source>>
  BY DEF Tracker, Time, Frame, Loads, ReadEnds, StillTracked,
         DecideRecenter, TuneVfo, StartSink, StopSink, MenuStop
<1>2. /\ gui' \in Guis /\ target' \in Targets \cup {0}
      /\ gui' = "join" <=> gui = "join"
      /\ active' \in BOOLEAN /\ vfo' \in BOOLEAN /\ moved' \in BOOLEAN
      /\ tracked' \in Centers \cup {0}
      /\ gui' \in Following => target' \in Targets
  <2>1. CASE Tracker \/ Time
    BY <2>1 DEF Tracker, Time
  <2>2. CASE Frame \/ Loads
    BY <2>2 DEF Frame, Loads, Load, LoadSequence, LoadFields, ReadHolds
  <2>3. CASE ReadEnds
    <3>1. gui = "read"
      BY <2>3 DEF ReadEnds, ReadHolds
    <3>2. seen.target \in Targets \cup {0}
      BY DEF DopplerTypeOK, Payloads
    <3> QED
      BY <2>3, <3>1, <3>2 DEF ReadEnds, Accepts
  <2>4. CASE StillTracked \/ DecideRecenter \/ TuneVfo
    <3>1. gui = "recenter" => Center(target) \in Centers
      BY DEF Centers
    <3> QED
      BY <2>4, <3>1 DEF StillTracked, DecideRecenter, TuneVfo
  <2>5. CASE StartSink \/ StopSink \/ MenuStop
    BY <2>5 DEF StartSink, StopSink, MenuStop
  <2> QED
    BY <2>1, <2>2, <2>3, <2>4, <2>5
<1> QED
  BY <1>1, <1>2

\* The steps that tune, start, stop or join the source, or end its worker.
LEMMA SourceSteps ==
    ASSUME SourceInv, ReadInv',
           \/ TuneCenter \/ MoveCenter \/ SelectSource \/ SoapyThrows
           \/ StartSoapy \/ StartPluto \/ StopSoapy \/ StopPluto
           \/ JoinWorker \/ SoapyWorkerEnds \/ PlutoWorkerEnds
    PROVE  SourceInv'
<1> USE DEF SourceInv, TypeOK, ReadInv, sink, Guis, Following
<1>1. CASE TuneCenter
  <2>1. Center(target) \in Centers
    BY <1>1 DEF TuneCenter, Centers
  <2> QED
    BY <1>1, <2>1, CentersPositive DEF TuneCenter, Tune, Written
<1>2. CASE MoveCenter
  <2>1. Elsewhere \in Centers
    BY DEF Centers
  <2> QED
    BY <1>2, <2>1, CentersPositive DEF MoveCenter, Tune, Written
<1>3. CASE StartSoapy \/ StartPluto
  BY <1>3, CentersPositive DEF StartSoapy, StartPluto, Opened, Written
<1>4. CASE StopSoapy \/ StopPluto
  <2>1. /\ running /\ running' = FALSE /\ gui' = "join" /\ stream' \in BOOLEAN
        /\ stream' \/ kind = "soapy"
        /\ UNCHANGED <<active, target, vfo, tracked, moved, center>>
        /\ UNCHANGED <<kind, freq, radio, worker>>
    BY <1>4 DEF StopSoapy, StopPluto, Stopped
  <2>2. radio # 0
    BY <2>1, CentersPositive
  <2>3. TypeOK'
    BY <2>1, ZenonT(60)
  <2> QED
    BY <2>1, <2>2, <2>3
<1>5. CASE JoinWorker
  <2>1. /\ gui = "join" /\ gui' = "idle" /\ radio' = 0 /\ stream' = FALSE
        /\ worker' = "none"
        /\ UNCHANGED <<active, target, vfo, tracked, moved, center>>
        /\ UNCHANGED <<kind, freq, running>>
    BY <1>5 DEF JoinWorker
  <2>2. ~running /\ Astray # 0
    BY <2>1, CentersPositive
  <2>3. TypeOK'
    BY <2>1, ZenonT(60)
  <2> QED
    BY <2>1, <2>2, <2>3
<1>6. CASE SoapyWorkerEnds \/ PlutoWorkerEnds
  <2>1. UNCHANGED <<gui, kind, freq, radio, running, stream, center, target>>
    BY <1>6 DEF SoapyWorkerEnds, PlutoWorkerEnds, Ends
  <2>2. worker' = "ended"
    BY <1>6 DEF SoapyWorkerEnds, PlutoWorkerEnds, Ends
  <2>3. TypeOK'
    BY <1>6, <2>1, <2>2 DEF SoapyWorkerEnds, PlutoWorkerEnds, Ends
  <2> QED
    BY <2>1, <2>2, <2>3
<1>7. CASE SelectSource
  BY <1>7, CentersPositive DEF SelectSource
<1>8. CASE SoapyThrows
  <2>1. Elsewhere \in Centers
    BY DEF Centers
  <2> QED
    BY <1>8, <2>1, CentersPositive DEF SoapyThrows, DopplerClosed
<1> QED
  BY <1>1, <1>2, <1>3, <1>4, <1>5, <1>6, <1>7, <1>8

\* Every step keeps it.
LEMMA SourceStep == SourceInv /\ [Next]_vars => SourceInv'
<1> SUFFICES ASSUME SourceInv, [Next]_vars PROVE SourceInv'
  OBVIOUS
<1>1. ReadInv'
  BY ReadStep DEF SourceInv
<1>2. CASE UNCHANGED vars
  BY <1>1, <1>2 DEF SourceInv, TypeOK, ReadInv, vars, sink, source
<1>3. CASE Next
  BY <1>1, <1>3, SinkKeepsSource, SourceSteps DEF Next, OnFrame
<1> QED
  BY <1>2, <1>3

\* A running radio is where SDR++ believes it to be, unless it was never tuned or
\* did not take a frequency, and no worker streams from a device that is closed.
THEOREM RadioInStep == Spec => []SourceInStep
<1>1. SourceInv /\ [Next]_vars => SourceInv'
  BY SourceStep
<1>2. SourceInv => SourceInStep
  BY CentersPositive DEF SourceInv, SourceInStep, TypeOK
<1> QED
  BY <1>1, <1>2, SourceInit, PTL DEF Spec

-----------------------------------------------------------------------------
(***************************************************************************)
(* The center.  The sink compares what it once asked for, which is where    *)
(* SDR++ believes the radio to be unless it was moved since.  In between    *)
(* the decision to recenter and the tuning a stop may forget it.            *)
(***************************************************************************)
CenterRemembered ==
    /\ gui = "tune" => tracked \in {0, Center(target)}
    /\ gui # "tune" /\ tracked # 0 => tracked = center \/ moved

\* Steps that leave alone what the sink compares, and end or begin no tuning.
Compared == <<tracked, center, moved>>

LEMMA ComparedAlone ==
    ASSUME SourceInv,
           \/ Tracker \/ Time \/ Frame \/ Loads \/ ReadEnds \/ StillTracked
           \/ TuneVfo \/ StartSink \/ MenuStop \/ SelectSource
           \/ StartSoapy \/ StartPluto \/ StopSoapy \/ StopPluto
           \/ JoinWorker \/ SoapyWorkerEnds \/ PlutoWorkerEnds
           \/ UNCHANGED vars
    PROVE  /\ UNCHANGED Compared
           /\ gui' = "tune" <=> gui = "tune"
           /\ gui = "tune" => target' = target
           /\ gui = "recenter" => gui' # "vfo"
<1> USE DEF Compared, sink, source
<1>1. CASE Tracker \/ Time \/ UNCHANGED vars
  BY <1>1 DEF Tracker, Time, vars
<1>2. CASE Frame \/ Loads \/ ReadEnds
  <2>1. gui \in {"idle", "read"}
    BY <1>2 DEF Frame, Loads, LoadSequence, LoadFields, Load, ReadEnds,
                SourceInv, ReadInv, ReadHolds
  <2> QED
    BY <1>2, <2>1 DEF Frame, Loads, ReadEnds
<1>3. CASE StillTracked \/ TuneVfo \/ StartSink \/ MenuStop \/ SelectSource
  BY <1>3 DEF StillTracked, TuneVfo, StartSink, MenuStop, SelectSource
<1>4. CASE StartSoapy \/ StartPluto \/ StopSoapy \/ StopPluto
  BY <1>4 DEF StartSoapy, StartPluto, StopSoapy, StopPluto, Opened, Stopped
<1>5. CASE JoinWorker \/ SoapyWorkerEnds \/ PlutoWorkerEnds
  BY <1>5 DEF JoinWorker, SoapyWorkerEnds, PlutoWorkerEnds, Ends
<1> QED
  BY <1>1, <1>2, <1>3, <1>4, <1>5

\* Every step keeps it, and one that leaves the center alone found it near.
LEMMA CenterStep ==
    SourceInv /\ CenterRemembered /\ [Next]_vars
    => /\ CenterRemembered'
       /\ gui = "recenter" /\ gui' = "vfo" => Near(center) \/ moved
<1> SUFFICES ASSUME SourceInv, CenterRemembered, [Next]_vars
             PROVE  /\ CenterRemembered'
                    /\ gui = "recenter" /\ gui' = "vfo" => Near(center) \/ moved
  OBVIOUS
<1>1. CASE DecideRecenter
  <2>1. gui = "recenter" /\ UNCHANGED <<target, center, moved>>
    BY <1>1 DEF DecideRecenter
  <2>2. CASE tracked = 0 \/ ~Near(tracked)
    BY <1>1, <2>1, <2>2 DEF DecideRecenter, CenterRemembered, Center
  <2>3. CASE tracked # 0 /\ Near(tracked)
    <3>1. gui' = "vfo" /\ tracked' = tracked
      BY <1>1, <2>3 DEF DecideRecenter
    <3>2. tracked = center \/ moved
      BY <2>1, <2>3 DEF CenterRemembered
    <3> QED
      BY <2>1, <2>3, <3>1, <3>2 DEF CenterRemembered
  <2> QED
    BY <2>2, <2>3
<1>2. CASE TuneCenter
  BY <1>2 DEF TuneCenter, CenterRemembered, Center
<1>3. CASE StopSink \/ MoveCenter \/ SoapyThrows
  BY <1>3 DEF StopSink, MoveCenter, SoapyThrows, CenterRemembered, Center
<1>4. CASE /\ ~DecideRecenter /\ ~TuneCenter /\ ~StopSink /\ ~MoveCenter
           /\ ~SoapyThrows
  <2>1. /\ UNCHANGED Compared
        /\ gui' = "tune" <=> gui = "tune"
        /\ gui = "tune" => target' = target
        /\ gui = "recenter" => gui' # "vfo"
    BY <1>4, ComparedAlone DEF Next, OnFrame
  <2> QED
    BY <2>1 DEF Compared, CenterRemembered, Center
<1> QED
  BY <1>1, <1>2, <1>3, <1>4

\* The center is left alone only where it is near, unless somebody moved it.
THEOREM CenterIsFollowed == Spec => CenterFollows
<1>1. SourceInv /\ [Next]_vars => SourceInv'
  BY SourceStep
<1>2. Init => CenterRemembered
  BY DEF Init, CenterRemembered
<1>3. SourceInv /\ CenterRemembered /\ [Next]_vars
      => CenterRemembered' /\ [gui = "recenter" /\ gui' = "vfo"
                               => Near(center) \/ moved]_vars
  BY CenterStep
<1> QED
  BY <1>1, <1>2, <1>3, SourceInit, PTL DEF Spec, CenterFollows
=============================================================================
