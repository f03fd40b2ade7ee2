---------------------------- MODULE SsdvReceiver ----------------------------
(***************************************************************************)
(* The SSDV receiver: radio threads ingest frames into a bounded queue, one *)
(* worker thread turns them into an image, and the Qt thread shows, clears  *)
(* and finally closes it.                                                   *)
(*                                                                          *)
(* Source: libs/demod/ssdv_receiver.{h,cpp} (queue, generations, worker),   *)
(* apps/dsp/main_window.cpp (the queued image callback) and                 *)
(* apps/dsp/ssdv_image_window.cpp (updateImage, clearDisplay).              *)
(*                                                                          *)
(* Every region the code runs under queue_mutex_ is one action, and so is   *)
(* every region the worker runs without it, because its state is private.   *)
(* What processFrame makes of a frame (reject it, add it to the open image, *)
(* start a new image) is chosen freely here; SsdvSession models the choice. *)
(***************************************************************************)
EXTENDS Integers, Sequences, FiniteSets, SequencesExt

CONSTANTS
    MaxQueuedFrames,  \* kMaxQueuedFrames
    MaxFrames,        \* bound: frames the radio ever delivers
    MaxClears,        \* bound: times the operator presses "clear"
    MaxFaults,        \* bound: frames not archived, refreshes that reject packets
    Decodes,          \* subset of BOOLEAN: the results a decode may have
    Saves             \* subset of BOOLEAN: the results saving an image may have

ASSUME ReceiverAssumption ==
    /\ MaxQueuedFrames \in Nat \ {0}
    /\ MaxFrames \in Nat
    /\ MaxClears \in Nat
    /\ Decodes \subseteq BOOLEAN
    /\ Saves \subseteq BOOLEAN
    /\ MaxFaults \in Nat

VARIABLES
    \* Shared under queue_mutex_
    queue,      \* frame_queue_: frames [id, gen] in arrival order
    gen,        \* queue_generation_
    dropped,    \* dropped_frames_, not yet logged
    clearReq,   \* clear_requested_
    stopReq,    \* stop_requested_
    \* Private to the worker
    pc,         \* where workerLoop is
    batch,      \* frames taken from the queue and not yet looked at
    dirty,      \* the image has changes that no refresh has published
    urgent,     \* a frame of this batch completed the image
    due,        \* nextRefresh has been reached
    packets,    \* frames in packets_, the open image
    path,       \* session_serial_ at the opening of the image, 0 when none
    serial,     \* session_serial_
    complete,   \* complete_
    stateGen,   \* state_generation_
    \* The Qt thread and its event queue
    uiPc,       \* "idle", "clearing", "joining" or "closed"
    posted,     \* image updates posted to the event loop and not delivered
    minGen,     \* minimum_generation_
    gallery,    \* gallery_: one update for each image path
    \* History
    ingested,   \* frames that entered the queue, in order
    evicted,    \* frames that ingestFrame pushed out of a full queue
    logged,     \* number of drops the worker has logged
    archived,   \* SSDV_received_frames223.bin: frames in the order written
    unsaved,    \* frames that could not be appended to it
    faults      \* the faults of MaxFaults so far

shared == <<queue, gen, dropped, clearReq, stopReq>>
image  == <<packets, path, serial, complete, stateGen>>
ui     == <<uiPc, posted, minGen, gallery>>
hist   == <<ingested, evicted, logged, archived, unsaved, faults>>
vars   == <<shared, pc, batch, dirty, urgent, due, image, ui, hist>>

Frame  == [id : Nat, gen : Nat]
Update == [path : Nat, gen : Nat, frames : SUBSET Frame]

WorkerStates == {"wait", "batch", "process", "check", "decode", "recheck",
                 "publish", "drain", "drainBatch", "done", "discarded"}

TypeOK ==
    /\ queue \in Seq(Frame)
    /\ Len(queue) <= MaxQueuedFrames
    /\ gen \in Nat
    /\ dropped \in Nat
    /\ clearReq \in BOOLEAN
    /\ stopReq \in BOOLEAN
    /\ pc \in WorkerStates
    /\ batch \in Seq(Frame)
    /\ dirty \in BOOLEAN
    /\ urgent \in BOOLEAN
    /\ due \in BOOLEAN
    /\ packets \in SUBSET Frame
    /\ path \in Nat
    /\ serial \in Nat
    /\ complete \in BOOLEAN
    /\ stateGen \in Nat
    /\ uiPc \in {"idle", "clearing", "joining", "closed"}
    /\ posted \in Seq(Update)
    /\ minGen \in Nat
    /\ gallery \in SUBSET Update
    /\ ingested \in Seq(Frame)
    /\ evicted \in SUBSET Frame
    /\ logged \in Nat
    /\ archived \in Seq(Frame)
    /\ unsaved \in SUBSET Frame
    /\ faults \in Nat

Init ==
    /\ queue = <<>> /\ gen = 0 /\ dropped = 0
    /\ clearReq = FALSE /\ stopReq = FALSE
    /\ pc = "wait" /\ batch = <<>> /\ dirty = FALSE
    /\ urgent = FALSE /\ due = TRUE
    /\ packets = {} /\ path = 0 /\ serial = 0
    /\ complete = FALSE /\ stateGen = 0
    /\ uiPc = "idle" /\ posted = <<>> /\ minGen = 0 /\ gallery = {}
    /\ ingested = <<>> /\ evicted = {} /\ logged = 0
    /\ archived = <<>> /\ unsaved = {} /\ faults = 0

-----------------------------------------------------------------------------
(***************************************************************************)
(* The threads that call the receiver.                                      *)
(***************************************************************************)

Full(q) == Len(q) = MaxQueuedFrames

\* A full queue loses its oldest frame.
Enqueue(q, f) == Append(IF Full(q) THEN Tail(q) ELSE q, f)

IngestFrame ==
    LET f == [id |-> Len(ingested) + 1, gen |-> gen] IN
    /\ Len(ingested) < MaxFrames
    /\ ~stopReq
    /\ queue' = Enqueue(queue, f)
    /\ ingested' = Append(ingested, f)
    /\ IF Full(queue)
       THEN evicted' = evicted \cup {Head(queue)} /\ dropped' = dropped + 1
       ELSE UNCHANGED <<evicted, dropped>>
    /\ UNCHANGED <<gen, clearReq, stopReq, pc, batch, dirty, urgent, due,
                   image, ui, logged, archived, unsaved, faults>>

\* The operator presses "clear": the callback clears the receiver ...
Clear ==
    /\ uiPc = "idle"
    /\ gen < MaxClears
    /\ queue' = <<>>
    /\ gen' = gen + 1
    /\ clearReq' = TRUE
    /\ uiPc' = "clearing"
    /\ UNCHANGED <<dropped, stopReq, pc, batch, dirty, urgent, due, image,
                   posted, minGen, gallery, hist>>

\* ... and then the window clears itself, in the same event handler.
ClearDisplay ==
    /\ uiPc = "clearing"
    /\ minGen' = minGen + 1
    /\ gallery' = {}
    /\ uiPc' = "idle"
    /\ UNCHANGED <<shared, pc, batch, dirty, urgent, due, image, posted, hist>>

\* The event loop delivers an update the worker posted.
\*
\* Fault: the window shows whatever arrives.
NeverStale(u) == FALSE

Stale(u) == u.gen < minGen

UpdateImage ==
    /\ uiPc = "idle"
    /\ posted # <<>>
    /\ posted' = Tail(posted)
    /\ LET u == Head(posted) IN
       gallery' = IF Stale(u)
                  THEN gallery
                  ELSE {v \in gallery : v.path # u.path} \cup {u}
    /\ UNCHANGED <<shared, pc, batch, dirty, urgent, due, image, uiPc, minGen,
                   hist>>

\* MainWindow's destructor: finish() asks the worker to stop and joins it.
Finish ==
    /\ uiPc = "idle"
    /\ stopReq' = TRUE
    /\ uiPc' = "joining"
    /\ UNCHANGED <<queue, gen, dropped, clearReq, pc, batch, dirty, urgent,
                   due, image, posted, minGen, gallery, hist>>

Joined ==
    /\ uiPc = "joining"
    /\ pc \in {"done", "discarded"}
    /\ uiPc' = "closed"
    /\ UNCHANGED <<shared, pc, batch, dirty, urgent, due, image, posted,
                   minGen, gallery, hist>>

-----------------------------------------------------------------------------
(***************************************************************************)
(* The worker.                                                              *)
(***************************************************************************)

\* The preview interval elapses.
Elapse ==
    /\ ~due
    /\ due' = TRUE
    /\ UNCHANGED <<shared, pc, batch, dirty, urgent, image, ui, hist>>

\* Fault: a dirty image does not bound the wait.
WokenByEventsOnly == stopReq \/ clearReq \/ queue # <<>>

\* Fault: the predicate forgets the stop request.
WokenByWorkOnly == clearReq \/ queue # <<>> \/ (dirty /\ due)

\* The predicate of queue_cv_, with the deadline a dirty image sets.
Woken == stopReq \/ clearReq \/ queue # <<>> \/ (dirty /\ due)

\* clearState(g)
ClearState(g) ==
    /\ packets' = {}
    /\ path' = 0
    /\ complete' = FALSE
    /\ stateGen' = g
    /\ UNCHANGED serial

WakeToStop ==
    /\ pc = "wait"
    /\ Woken
    /\ stopReq
    /\ pc' = "drain"
    /\ UNCHANGED <<shared, batch, dirty, urgent, due, image, ui, hist>>

ReportDrops == logged' = logged + dropped /\ dropped' = 0

\* The worker takes the whole queue and, with it, a pending clear.
Take ==
    /\ pc = "wait"
    /\ Woken
    /\ ~stopReq
    /\ batch' = queue
    /\ queue' = <<>>
    /\ clearReq' = FALSE
    /\ ReportDrops
    /\ urgent' = FALSE
    /\ IF clearReq
       THEN ClearState(gen) /\ dirty' = FALSE /\ due' = TRUE
       ELSE UNCHANGED <<image, dirty, due>>
    /\ pc' = "batch"
    /\ UNCHANGED <<gen, stopReq, ui, ingested, evicted, archived, unsaved,
                   faults>>

\* Fault: the batch is checked with allowStopped = false.
IsCurrentUnlessStopped(g) == ~stopReq /\ gen = g

IsCurrentGeneration(g) == gen = g

\* The next frame of the batch: drop it when a clear overtook it.
NextFrame ==
    /\ pc = "batch"
    /\ batch # <<>>
    /\ IF IsCurrentGeneration(Head(batch).gen)
       THEN pc' = "process" /\ UNCHANGED batch
       ELSE batch' = Tail(batch) /\ UNCHANGED pc
    /\ UNCHANGED <<shared, dirty, urgent, due, image, ui, hist>>

(* What processFrame may do with a frame after archiving it.               *)
Reject == UNCHANGED <<image, dirty, urgent>>

Changed(eoi) ==
    /\ complete' = eoi
    /\ dirty' = TRUE
    /\ urgent' = (urgent \/ eoi)

Join(f) ==
    /\ path # 0
    /\ packets' = packets \cup {f}
    /\ \E eoi \in BOOLEAN : Changed(complete \/ eoi)
    /\ UNCHANGED <<path, serial, stateGen>>

\* A new image: the old one has been written to disk, not published.
Open(f) ==
    /\ packets' = {f}
    /\ serial' = serial + 1
    /\ path' = serial + 1
    /\ stateGen' = f.gen
    /\ \E eoi \in BOOLEAN : Changed(eoi)

\* The file is opened and appended to for each frame. A failure is logged and
\* the frame is used all the same.
AppendRawFrame(f) ==
    \/ /\ archived' = Append(archived, f)
       /\ UNCHANGED <<unsaved, faults>>
    \/ /\ faults < MaxFaults
       /\ faults' = faults + 1
       /\ unsaved' = unsaved \cup {f}
       /\ UNCHANGED archived

ProcessFrame(f) ==
    /\ AppendRawFrame(f)
    /\ Reject \/ Join(f) \/ Open(f)
    /\ UNCHANGED <<ingested, evicted, logged>>

Process ==
    /\ pc = "process"
    /\ batch # <<>>
    /\ ProcessFrame(Head(batch))
    /\ batch' = Tail(batch)
    /\ pc' = "batch"
    /\ UNCHANGED <<shared, due, ui>>

BatchDone ==
    /\ pc = "batch"
    /\ batch = <<>>
    /\ pc' = IF dirty /\ (urgent \/ due) THEN "check" ELSE "wait"
    /\ UNCHANGED <<shared, batch, dirty, urgent, due, image, ui, hist>>

(* rebuildImage() publishes only when three checks of the generation pass: *)
(* before decoding, after it and after saving the file.                    *)
MayPublish == ~stopReq /\ IsCurrentGeneration(stateGen)

GiveUp == pc' = "wait" /\ due' = FALSE /\ UNCHANGED dirty

CheckBeforeDecode ==
    /\ pc = "check"
    /\ IF packets # {} /\ MayPublish
       THEN pc' = "decode" /\ UNCHANGED <<dirty, due>>
       ELSE GiveUp
    /\ UNCHANGED <<shared, batch, urgent, image, ui, hist>>

\* The decoder rejects packets, which leave the image (and with them what
\* marked it as complete), until it accepts the rest.
RejectPackets(bad) ==
    /\ packets' = packets \ bad
    /\ IF bad = {}
       THEN UNCHANGED <<complete, faults>>
       ELSE /\ faults < MaxFaults
            /\ faults' = faults + 1
            /\ \E eoi \in BOOLEAN : complete' = (eoi /\ complete)

Decode ==
    /\ pc = "decode"
    /\ \E bad \in SUBSET packets, ok \in Decodes :
         /\ RejectPackets(bad)
         /\ IF packets' # {} /\ ok /\ MayPublish
            THEN pc' = "recheck" /\ UNCHANGED <<dirty, due>>
            ELSE GiveUp
    /\ UNCHANGED <<shared, batch, urgent, path, serial, stateGen, ui,
                   ingested, evicted, logged, archived, unsaved>>

\* The image is saved, if that is due, and an image that cannot be saved is not
\* published either.
CheckBeforePublish ==
    /\ pc = "recheck"
    /\ \E saved \in Saves :
         IF saved /\ MayPublish
         THEN pc' = "publish" /\ UNCHANGED <<dirty, due>>
         ELSE GiveUp
    /\ UNCHANGED <<shared, batch, urgent, image, ui, hist>>

\* image_callback_: invokeMethod(..., Qt::QueuedConnection)
Publish ==
    /\ pc = "publish"
    /\ posted' = Append(posted,
                   [path |-> path, gen |-> stateGen, frames |-> packets])
    /\ dirty' = FALSE
    /\ due' = FALSE
    /\ pc' = "wait"
    /\ UNCHANGED <<shared, batch, urgent, image, uiPc, minGen, gallery, hist>>

(* Shutdown: a pending clear discards the queue, otherwise it is drained.  *)
Drain ==
    /\ pc = "drain"
    /\ queue' = <<>>
    /\ clearReq' = FALSE
    /\ IF clearReq
       THEN /\ pc' = "discarded"
            /\ ClearState(gen)
            /\ UNCHANGED batch
       ELSE /\ pc' = "drainBatch"
            /\ batch' = queue
            /\ UNCHANGED image
    /\ UNCHANGED <<gen, dropped, stopReq, dirty, urgent, due, ui, hist>>

DrainFrame ==
    /\ pc = "drainBatch"
    /\ batch # <<>>
    /\ IF Head(batch).gen = gen
       THEN ProcessFrame(Head(batch))
       ELSE UNCHANGED <<image, dirty, urgent, hist>>
    /\ batch' = Tail(batch)
    /\ UNCHANGED <<shared, pc, due, ui>>

\* rebuildImage(true, false) and savePacketBin: files only, no update.
DrainDone ==
    /\ pc = "drainBatch"
    /\ batch = <<>>
    /\ pc' = "done"
    /\ UNCHANGED <<shared, batch, dirty, urgent, due, image, ui, hist>>

-----------------------------------------------------------------------------
Worker ==
    \/ WakeToStop \/ Take \/ NextFrame \/ Process \/ BatchDone
    \/ CheckBeforeDecode \/ Decode \/ CheckBeforePublish \/ Publish
    \/ Drain \/ DrainFrame \/ DrainDone

Qt == Clear \/ ClearDisplay \/ UpdateImage \/ Finish \/ Joined

\* The window is gone and the worker joined: the program is over.
Closed == uiPc = "closed" /\ UNCHANGED vars

Next == IngestFrame \/ Qt \/ Elapse \/ Worker \/ Closed

Spec == Init /\ [][Next]_vars

(***************************************************************************)
(* Fairness: the worker thread runs, the steady clock advances and the Qt   *)
(* event loop delivers. Nobody is obliged to send frames, clear or close.   *)
(* A decode or a save that fails is tried again at the next refresh, and of *)
(* an image that is refreshed for ever one is decoded now and then, and one *)
(* is saved: a disk that is full for good keeps every image from the window *)
(* that it does not let the worker save.                                    *)
(***************************************************************************)
FairSpec ==
    /\ Spec
    /\ WF_vars(Worker)
    /\ WF_vars(Elapse)
    /\ SF_vars(Decode /\ pc' = "recheck")
    /\ SF_vars(CheckBeforePublish /\ pc' = "publish")
    /\ WF_vars(ClearDisplay \/ UpdateImage \/ Joined)

-----------------------------------------------------------------------------
(***************************************************************************)
(* Safety.                                                                  *)
(***************************************************************************)

(* After the operator cleared the display, no image in the gallery shows a *)
(* frame that was ingested before, whatever the worker was doing when the   *)
(* button was pressed: clear() may fall between the last generation check   *)
(* of rebuildImage and its callback, or while the update is posted.         *)
ClearedImageNeverShown ==
    \A u \in gallery : \A f \in u.frames : f.gen >= minGen

(* The open image never mixes frames from both sides of a clear(), at any   *)
(* point between the worker's unlocked steps.                               *)
ImageOfOneGeneration == \A f \in packets : f.gen = stateGen

(* SSDV_received_frames223.bin holds frames in the order they arrived and   *)
(* none twice, although they pass through two containers and three loops.   *)
(* (Whole frames: a write that stops in the middle leaves a part of one.)   *)
ArchiveInOrder ==
    \A i, j \in DOMAIN archived : i < j => archived[i].id < archived[j].id

(* A frame that no clear() revoked is waiting, being looked at, archived,   *)
(* counted as dropped or one whose write failed: the hand-over from the     *)
(* queue to the batch, the stop that arrives in the middle of a batch and   *)
(* the shutdown drain lose nothing, except when a clear is still pending at *)
(* shutdown.                                                                *)
NoFrameLost ==
    \A f \in ToSet(ingested) :
        f.gen = gen => \/ f \in ToSet(queue) \cup ToSet(batch)
                       \/ f \in ToSet(archived) \cup unsaved \cup evicted
                       \/ pc = "discarded"

(* Every frame the full queue lost is in the count that is logged or is     *)
(* still waiting to be.                                                     *)
DropsAccounted == logged + dropped = Cardinality(evicted)

(* Every frame received is accounted for: one that is not in the archive    *)
(* was dropped and counted, met a failing write (which only the log tells)  *)
(* or was revoked by a clear.                                               *)
FramesAccounted == TypeOK /\ NoFrameLost /\ DropsAccounted /\ ArchiveInOrder

(***************************************************************************)
(* Liveness.                                                                *)
(***************************************************************************)

(* finish() returns: the worker leaves every wait, batch or refresh it was  *)
(* in and the window closes.                                                *)
FinishReturns == stopReq ~> uiPc = "closed"

(* A frame of the open image reaches the window, or its image is replaced,  *)
(* cleared or cut short by shutdown, or the decoder rejects it. (An image   *)
(* that is replaced before its first refresh is saved but never shown.)     *)
(* Decodes and saves that fail delay it, as long as they do not fail for    *)
(* ever (FairSpec).                                                         *)
PreviewCatchesUp ==
    \A i \in 1..MaxFrames :
        (\E f \in packets : f.id = i)
        ~> \/ \E u \in gallery : \E f \in u.frames : f.id = i
           \/ \A f \in packets : f.id # i
           \/ stopReq
=============================================================================
