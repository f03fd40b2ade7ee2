---------------------------- MODULE WavRecorder ----------------------------
(***************************************************************************)
(* The recorder: the flowgraph's thread puts samples in a bounded queue,    *)
(* and a writer thread puts them in WAV files of a bounded size.            *)
(*                                                                          *)
(* Source: libs/demod/async_wav_recorder_sink.cpp.  GNU Radio runs work()   *)
(* and then stop() on one thread of the flowgraph.  stopping_ is an atomic  *)
(* that the writer reads with queue_mutex_ held and stop() sets without it. *)
(* A sample frame is a number, in the order in which work() takes them; a   *)
(* file is the frames it holds and the length its header states.            *)
(***************************************************************************)
EXTENDS Integers, Sequences, FiniteSets, FiniteSetsExt, SequencesExt

CONSTANTS
    MaxQueued,  \* kMaximumQueuedFrames (96000)
    MaxSegment, \* maximum_data_bytes_, in frames
    MaxWork,    \* frames that one call of work() may bring
    MaxTaken,   \* bound: frames taken by work()
    FilesFail   \* may the disk fail?

ASSUME RecorderAssumption ==
    /\ MaxQueued \in Nat \ {0} /\ MaxSegment \in Nat \ {0}
    /\ MaxWork \in Nat /\ MaxTaken \in Nat
    /\ FilesFail \in BOOLEAN

VARIABLES
    graph,    \* the flowgraph's thread: "running", or where it is in stop()
    stopping, \* stopping_
    \* Under queue_mutex_
    chunks,   \* chunks_: sequences of frames
    queued,   \* queued_frames_
    \* The writer thread
    writer,   \* "check", "block" (mutex held), "asleep", "write" or "done"
    chunk,    \* the rest of the chunk that is written
    files,    \* the segments, the last one is the current one
    open,     \* file_ is not null
    segment,  \* segment_data_bytes_, in frames
    writeFailed, \* write_failed_
    \* Bounds and history
    taken,    \* frames that work() took
    dropped   \* the frames counted in dropped_frames_

queue == <<chunks, queued>>
disk  == <<files, open, segment, writeFailed>>
recorderVars ==
    <<graph, stopping, queue, writer, chunk, disk, taken, dropped>>

Frame == 1 .. MaxTaken
File  == [data : Seq(Frame), header : Nat, closed : BOOLEAN]

RecorderTypeOK ==
    /\ graph \in {"running", "notifying", "joining", "stopped"}
    /\ stopping \in BOOLEAN
    /\ chunks \in Seq(Seq(Frame) \ {<<>>})
    /\ queued \in 0 .. MaxQueued
    /\ writer \in {"check", "block", "asleep", "write", "done"}
    /\ chunk \in Seq(Frame)
    /\ files \in Seq(File) /\ files # <<>>
    /\ open \in BOOLEAN /\ writeFailed \in BOOLEAN
    /\ segment \in 0 .. MaxSegment
    /\ taken \in 0 .. MaxTaken /\ dropped \subseteq Frame

NewFile == [data |-> <<>>, header |-> 0, closed |-> FALSE]

\* The constructor opens the first segment and starts the writer.
RecorderInit ==
    /\ graph = "running" /\ stopping = FALSE
    /\ chunks = <<>> /\ queued = 0
    /\ writer = "check" /\ chunk = <<>>
    /\ files = <<NewFile>> /\ open = TRUE /\ segment = 0 /\ writeFailed = FALSE
    /\ taken = 0 /\ dropped = {}

-----------------------------------------------------------------------------
(***************************************************************************)
(* The flowgraph's thread.                                                  *)
(***************************************************************************)

Frames(cs) == UNION {Range(cs[i]) : i \in DOMAIN cs}

\* A frame is in one chunk only: the lengths of the chunks add up to this.
Size(cs) == Cardinality(Frames(cs))

AfterFirst(cs, k) == SubSeq(cs, k + 1, Len(cs))

MutexFree == writer # "block"

\* Fault: nobody is notified.
NotifyNobody == UNCHANGED writer

\* notify_one and notify_all: a writer that is not asleep yet hears nothing.
NotifyWriter == writer' = IF writer = "asleep" THEN "check" ELSE writer

\* Of a burst larger than the queue, only the newest frames are kept.
Kept(burst) ==
    IF Len(burst) > MaxQueued
    THEN SubSeq(burst, Len(burst) - MaxQueued + 1, Len(burst)) ELSE burst

\* The oldest chunks leave the queue until the new one fits.
Room(n) ==
    Min({k \in 0 .. Len(chunks) :
            k = Len(chunks) \/ queued - Size(SubSeq(chunks, 1, k)) + n <= MaxQueued})

Work ==
    /\ graph = "running" /\ MutexFree
    /\ \E n \in 1 .. MaxWork :
         LET burst == [i \in 1 .. n |-> taken + i]
             new == Kept(burst)
             k == Room(Len(new))
             gone == SubSeq(chunks, 1, k)
         IN  /\ taken + n <= MaxTaken
             /\ taken' = taken + n
             /\ chunks' = Append(AfterFirst(chunks, k), new)
             /\ queued' = queued - Size(gone) + Len(new)
             /\ dropped' = dropped \cup (Range(burst) \ Range(new)) \cup Frames(gone)
    /\ NotifyWriter
    /\ UNCHANGED <<graph, stopping, chunk, disk>>

\* finalize(), for the first time: stopping_ is set, and no mutex is taken.
Stop ==
    /\ graph = "running"
    /\ graph' = "notifying" /\ stopping' = TRUE
    /\ UNCHANGED <<queue, writer, chunk, disk, taken, dropped>>

StopNotifies ==
    /\ graph = "notifying"
    /\ graph' = "joining"
    /\ NotifyWriter
    /\ UNCHANGED <<stopping, queue, chunk, disk, taken, dropped>>

-----------------------------------------------------------------------------
(***************************************************************************)
(* The files.                                                               *)
(***************************************************************************)

Current == Len(files)

\* finalizeSegment: when it fails, the header may be the old one.
Close(ok) ==
    \E h \in IF ok THEN {segment} ELSE {segment, files[Current].header} :
       files' = [files EXCEPT ![Current].closed = TRUE, ![Current].header = h]

FileResults == IF FilesFail THEN BOOLEAN ELSE {TRUE}

\* finalize(), after the writer: the last segment is closed.
StopCloses ==
    /\ graph = "joining" /\ writer = "done"
    /\ graph' = "stopped"
    /\ \/ \E ok \in FileResults :
            open /\ Close(ok) /\ writeFailed' = (writeFailed \/ ~ok)
       \/ ~open /\ UNCHANGED <<files, writeFailed>>
    /\ open' = FALSE
    /\ UNCHANGED <<stopping, queue, writer, chunk, segment, taken, dropped>>

-----------------------------------------------------------------------------
(***************************************************************************)
(* writerLoop.                                                              *)
(***************************************************************************)

WriterTakes ==
    /\ writer = "check" /\ chunks # <<>>
    /\ chunk' = Head(chunks) /\ chunks' = Tail(chunks)
    /\ queued' = queued - Len(Head(chunks))
    /\ writer' = "write"
    /\ UNCHANGED <<graph, stopping, disk, taken, dropped>>

\* Fault: the end is decided before the queue is looked at.
WriterEndsAtOnce ==
    /\ writer = "check" /\ stopping
    /\ writer' = "done"
    /\ UNCHANGED <<graph, stopping, queue, chunk, disk, taken, dropped>>

WriterEnds ==
    /\ writer = "check" /\ chunks = <<>> /\ stopping
    /\ writer' = "done"
    /\ UNCHANGED <<graph, stopping, queue, chunk, disk, taken, dropped>>

\* The predicate of the wait is false ...
WriterFindsNothing ==
    /\ writer = "check" /\ chunks = <<>> /\ ~stopping
    /\ writer' = "block"
    /\ UNCHANGED <<graph, stopping, queue, chunk, disk, taken, dropped>>

\* ... and the mutex is released as the writer goes to sleep.
WriterSleeps ==
    /\ writer = "block"
    /\ writer' = "asleep"
    /\ UNCHANGED <<graph, stopping, queue, chunk, disk, taken, dropped>>

WriterWakesUnasked ==
    /\ writer = "asleep"
    /\ writer' = "check"
    /\ UNCHANGED <<graph, stopping, queue, chunk, disk, taken, dropped>>

\* The current segment is full: the next one is opened.
NextSegment ==
    /\ writer = "write" /\ chunk # <<>> /\ ~writeFailed
    /\ segment = MaxSegment
    /\ \/ /\ FilesFail                                 \* finalizeSegment fails
          /\ Close(FALSE)
          /\ open' = FALSE /\ writeFailed' = TRUE /\ UNCHANGED segment
       \/ /\ FilesFail                                 \* openSegment fails
          /\ Close(TRUE)
          /\ open' = FALSE /\ writeFailed' = TRUE /\ segment' = 0
       \/ \E ok \in FileResults :                      \* writeHeader
            /\ files' = Append([files EXCEPT ![Current].closed = TRUE,
                                             ![Current].header = segment],
                               NewFile)
            /\ open' = TRUE /\ writeFailed' = ~ok /\ segment' = 0
    /\ UNCHANGED <<graph, stopping, queue, writer, chunk, taken, dropped>>

\* fwrite of what fits in the segment; when it fails, a part may be written.
Write ==
    /\ writer = "write" /\ chunk # <<>> /\ ~writeFailed
    /\ segment < MaxSegment
    /\ LET room == MaxSegment - segment
           n == IF Len(chunk) < room THEN Len(chunk) ELSE room
       IN  \E w \in IF FilesFail THEN 0 .. n ELSE {n} :
             /\ files' = [files EXCEPT ![Current].data = @ \o SubSeq(chunk, 1, w)]
             /\ segment' = segment + w
             /\ writeFailed' = (w # n)
             /\ chunk' = SubSeq(chunk, w + 1, Len(chunk))
    /\ UNCHANGED <<graph, stopping, queue, writer, open, taken, dropped>>

\* The chunk is written, or given up after a failure.
ChunkDone ==
    /\ writer = "write" /\ (chunk = <<>> \/ writeFailed)
    /\ writer' = "check" /\ chunk' = <<>>
    /\ UNCHANGED <<graph, stopping, queue, disk, taken, dropped>>

Stopped == graph = "stopped" /\ UNCHANGED recorderVars

Writer ==
    \/ WriterTakes \/ WriterEnds \/ WriterFindsNothing \/ WriterSleeps
    \/ NextSegment \/ Write \/ ChunkDone

RecorderNext ==
    \/ Work \/ Stop \/ StopNotifies \/ StopCloses
    \/ Writer \/ WriterWakesUnasked \/ Stopped

RecorderSpec == RecorderInit /\ [][RecorderNext]_recorderVars

\* Both threads run; a wait need not wake by itself.
RecorderLiveSpec ==
    /\ RecorderSpec
    /\ WF_recorderVars(Writer)
    /\ WF_recorderVars(StopNotifies) /\ WF_recorderVars(StopCloses)

-----------------------------------------------------------------------------
(***************************************************************************)
(* Properties.                                                              *)
(***************************************************************************)

Written == UNION {Range(files[i].data) : i \in DOMAIN files}

\* Nothing is out of order or twice in the files, over all segments.
WrittenInOrder ==
    \A i, j \in DOMAIN files :
        \A a \in DOMAIN files[i].data, b \in DOMAIN files[j].data :
            i < j \/ (i = j /\ a < b) => files[i].data[a] < files[j].data[b]

\* While no write failed, every frame is in the files, on its way to them or
\* counted as dropped; when the recorder has stopped, none is on its way.
NothingLost ==
    ~writeFailed =>
        /\ Written \cup Range(chunk) \cup Frames(chunks) \cup dropped = 1 .. taken
        /\ dropped \cap (Written \cup Range(chunk) \cup Frames(chunks)) = {}
        /\ graph = "stopped" => chunk = <<>> /\ chunks = <<>>

\* A segment that was closed without an error states the length of its data,
\* and only the last one is not full.
SegmentsRight ==
    /\ \A i \in DOMAIN files :
         /\ Len(files[i].data) <= MaxSegment
         /\ i < Current => Len(files[i].data) = MaxSegment
         /\ files[i].closed /\ ~writeFailed => files[i].header = Len(files[i].data)
    /\ graph = "stopped" => files[Current].closed

\* The recording: what the files hold, over all segments and faults, is in order,
\* complete up to what is counted as dropped, and stated in their headers.
RecordingFaithful ==
    RecorderTypeOK /\ WrittenInOrder /\ NothingLost /\ SegmentsRight

\* What is queued reaches the files, or is given up.
QueueDrains ==
    \A f \in Frame : f \in Frames(chunks) ~> f \notin Frames(chunks)

\* stop() returns, or waits for a writer that went to sleep after it found
\* stopping_ false and missed the only notification.
StopReturns ==
    stopping ~> graph = "stopped" \/ (graph = "joining" /\ writer = "asleep")

\* A wake-up by work() is never lost, and one by finalize() only in the gap
\* between the predicate of the writer's wait and its sleep.
WriterWakes == QueueDrains /\ StopReturns
=============================================================================
