---------------------------- MODULE FrameMonitor ----------------------------
(***************************************************************************)
(* The frame monitor: where the decoder branches meet.  A frame whose error *)
(* correction succeeded is published at once, and identical copies of it    *)
(* are suppressed for a while.  A frame that failed is a candidate for the  *)
(* SSDV fallback: it waits a short arbitration window, in which a better    *)
(* candidate or a success with the same key replaces or cancels it, and is  *)
(* then forwarded by a worker thread.                                       *)
(*                                                                          *)
(* Source: libs/demod/frame_monitor.{h,cpp}.  Each action is the code under *)
(* one lock; a handler holds candidate_mutex_ and dispatch_mutex_ one after *)
(* the other.  GNU Radio runs the handlers of a block on one thread, but    *)
(* the code is written for several: Handlers is the set of threads.         *)
(***************************************************************************)
EXTENDS Integers, Sequences, FiniteSets, SequencesExt

CONSTANTS
    Handlers,    \* threads that run message handlers
    Keys,        \* values of candidateKey: the first eight bytes of a frame
    Variants,    \* what the rest of the bytes may be
    Window,      \* kDuplicateWindowMs, in ticks
    Arbitration, \* kCandidateArbitrationWindow, in ticks
    MaxTime,     \* bound: clock ticks
    MaxMessages  \* bound: messages posted to the monitor

ASSUME MonitorAssumption ==
    /\ Window \in Nat
    /\ Arbitration \in Nat
    /\ MaxTime \in Nat
    /\ MaxMessages \in Nat

Payload == [key : Keys, bytes : Variants]

\* CandidatePriority: OpenHoshimi is the better one.
Priorities == {0, 1}

VARIABLES
    now,       \* the steady clock
    messages,  \* messages posted so far
    handler,   \* what each thread is doing: [at, payload, priority, stamp]
    recent,    \* recently_sent_: frames [sent, payload] in sending order
    pending,   \* pending_candidates_: a function on the keys that have one
    worker,    \* where candidateWorker is
    until,     \* the time the worker's wait_until ends
    notified,  \* candidate_cv_ was notified since the worker began to wait
    ready,     \* candidates extracted and not yet forwarded
    life,      \* "running", "stopping" (in the destructor) or "destroyed"
    \* History
    published, \* frames [stamp, payload] sent to "out" and the callback
    suppressed,\* frames [stamp, payload] taken for duplicates
    forwarded, \* candidates handed to the SSDV fallback
    cancelled, \* identifiers of the candidates a success has cancelled
    offered    \* priorities offered for each pending key

waiting == <<worker, until, notified, ready>>
history == <<published, suppressed, forwarded, cancelled, offered>>
monitorVars ==
    <<now, messages, handler, recent, pending, waiting, life, history>>

Candidate == [id : Nat, payload : Payload, priority : Priorities, deadline : Nat]

Idle == [at |-> "idle"]

MonitorTypeOK ==
    /\ now \in 0 .. MaxTime
    /\ messages \in 0 .. MaxMessages
    /\ \A h \in Handlers :
         \/ handler[h] = Idle
         \/ handler[h] \in [at : {"erased"}, payload : Payload, stamp : Nat]
         \/ handler[h] \in [at : {"checked"}, id : Nat, payload : Payload,
                            priority : Priorities]
    /\ recent \in Seq([sent : Nat, payload : Payload])
    /\ DOMAIN pending \subseteq Keys
    /\ \A k \in DOMAIN pending :
         pending[k] \in Candidate /\ pending[k].payload.key = k
    /\ worker \in {"wait", "timed", "forward", "done"}
    /\ until \in Nat /\ notified \in BOOLEAN
    /\ ready \in Seq(Candidate)
    /\ life \in {"running", "stopping", "destroyed"}
    /\ published \in Seq([stamp : Nat, payload : Payload])
    /\ suppressed \in Seq([stamp : Nat, payload : Payload])
    /\ forwarded \in Seq(Candidate)
    /\ cancelled \subseteq Nat
    /\ DOMAIN offered = DOMAIN pending

MonitorInit ==
    /\ now = 0 /\ messages = 0
    /\ handler = [h \in Handlers |-> Idle]
    /\ recent = <<>>
    /\ pending = <<>>
    /\ worker = "wait" /\ until = 0 /\ notified = FALSE /\ ready = <<>>
    /\ life = "running"
    /\ published = <<>> /\ suppressed = <<>> /\ forwarded = <<>> /\ cancelled = {}
    /\ offered = <<>>

Without(f, k) == [x \in DOMAIN f \ {k} |-> f[x]]

With(f, k, v) == [x \in DOMAIN f \cup {k} |-> IF x = k THEN v ELSE f[x]]

Notify == notified' = (notified \/ worker = "timed")

\* A message is posted to an idle handler thread while the graph runs.
Posted(h) ==
    /\ life = "running"
    /\ handler[h] = Idle
    /\ messages < MaxMessages
    /\ now + Arbitration <= MaxTime
    /\ messages' = messages + 1

-----------------------------------------------------------------------------
(***************************************************************************)
(* handle: a frame whose error correction succeeded.                        *)
(***************************************************************************)

CandidateKey(p) == p.key

\* Fault: a success leaves the candidates alone.
KeepCandidate(k) == pending

EraseCandidate(k) == Without(pending, k)

\* Under candidate_mutex_.
HandleSuccess(h, p) ==
    /\ Posted(h)
    /\ handler' = [handler EXCEPT ![h] =
                      [at |-> "erased", payload |-> p, stamp |-> now]]
    /\ pending' = EraseCandidate(CandidateKey(p))
    /\ cancelled' = cancelled \cup
          {pending[k].id : k \in {k \in DOMAIN pending :
                                    pending[k].payload.key = p.key}}
    /\ offered' = [k \in DOMAIN pending' |-> offered[k]]
    /\ Notify
    /\ UNCHANGED <<now, recent, worker, until, ready, life, published, suppressed,
                   forwarded>>

\* Fault: what was sent is never forgotten.
NeverForget(sent, stamp) == sent

\* Frames at the front that were sent too long before the stamp are forgotten.
Prune(sent, stamp) ==
    LET old(i) == stamp - sent[i].sent > Window
        kept == {i \in 1 .. Len(sent) : \A j \in 1 .. i : old(j)}
    IN  SubSeq(sent, Cardinality(kept) + 1, Len(sent))

IsDuplicate(sent, p) == \E i \in 1 .. Len(sent) : sent[i].payload = p

\* Under dispatch_mutex_.
Dispatch(h) ==
    LET p == handler[h].payload
        stamp == handler[h].stamp
        known == Prune(recent, stamp)
    IN  /\ handler[h].at = "erased"
        /\ handler' = [handler EXCEPT ![h] = Idle]
        /\ \/ /\ IsDuplicate(known, p)
              /\ suppressed' = Append(suppressed, [stamp |-> stamp, payload |-> p])
              /\ recent' = known
              /\ UNCHANGED published
           \/ /\ ~IsDuplicate(known, p)
              /\ recent' = Append(known, [sent |-> stamp, payload |-> p])
              /\ published' = Append(published, [stamp |-> stamp, payload |-> p])
              /\ UNCHANGED suppressed
        /\ UNCHANGED <<now, messages, pending, waiting, life, forwarded,
                       cancelled, offered>>

-----------------------------------------------------------------------------
(***************************************************************************)
(* handleLocalCandidate: a frame whose error correction failed.             *)
(***************************************************************************)

RecentlyPublished(p) == \E i \in 1 .. Len(recent) : recent[i].payload = p

\* Under dispatch_mutex_: a copy of a published frame is dropped.
HandleCandidate(h, p, priority) ==
    /\ Posted(h)
    /\ handler' = [handler EXCEPT ![h] =
          IF RecentlyPublished(p) THEN Idle
          ELSE [at |-> "checked", id |-> messages + 1, payload |-> p,
                priority |-> priority]]
    /\ UNCHANGED <<now, recent, pending, waiting, life, history>>

\* Fault: the last candidate wins, whatever its branch.
BetterIfLater(new, old) == TRUE

Better(new, old) == new.priority < old.priority

\* A better candidate inherits the deadline of the one it replaces.
Merge(new, old) ==
    IF Better(new, old) THEN [new EXCEPT !.deadline = old.deadline] ELSE old

\* Under candidate_mutex_.
InsertCandidate(h) ==
    LET c == handler[h]
        k == CandidateKey(c.payload)
        new == [id |-> c.id, payload |-> c.payload, priority |-> c.priority,
                deadline |-> now + Arbitration]
    IN  /\ c.at = "checked"
        /\ handler' = [handler EXCEPT ![h] = Idle]
        /\ IF k \in DOMAIN pending
           THEN /\ pending' = With(pending, k, Merge(new, pending[k]))
                /\ offered' = With(offered, k, offered[k] \cup {c.priority})
           ELSE /\ pending' = With(pending, k, new)
                /\ offered' = With(offered, k, {c.priority})
        /\ Notify
        /\ UNCHANGED <<now, messages, recent, worker, until, ready, life,
                       published, suppressed, forwarded, cancelled>>

-----------------------------------------------------------------------------
(***************************************************************************)
(* candidateWorker.                                                         *)
(***************************************************************************)

Earliest == CHOOSE t \in {pending[k].deadline : k \in DOMAIN pending} :
                \A k \in DOMAIN pending : t <= pending[k].deadline

\* Fault: a candidate does not end the wait.
WakeToStop == life # "running"

ShouldWake == life # "running" \/ pending # <<>>

\* The first wait ends: there is something to wait for, or to stop.
WorkerWake ==
    /\ worker = "wait"
    /\ ShouldWake
    /\ \/ /\ life # "running"
          /\ worker' = "done"
          /\ UNCHANGED <<until, notified>>
       \/ /\ life = "running"
          /\ worker' = "timed"
          /\ until' = Earliest /\ notified' = FALSE
    /\ UNCHANGED <<now, messages, handler, recent, pending, ready, life, history>>

Due(k) == pending[k].deadline <= now

\* The second wait ends, at its time or by a notification, and the candidates
\* that are due leave the map.
Extract ==
    LET due == {k \in DOMAIN pending : Due(k)} IN
    /\ worker = "timed"
    /\ notified \/ until <= now
    /\ \/ /\ life # "running"
          /\ worker' = "done"
          /\ UNCHANGED <<pending, ready, offered>>
       \/ /\ life = "running"
          /\ worker' = IF due = {} THEN "wait" ELSE "forward"
          /\ ready' = SetToSeq({pending[k] : k \in due})
          /\ pending' = [k \in DOMAIN pending \ due |-> pending[k]]
          /\ offered' = [k \in DOMAIN pending \ due |-> offered[k]]
    /\ UNCHANGED <<now, messages, handler, recent, until, notified, life,
                   published, suppressed, forwarded, cancelled>>

\* Without a lock.
Forward ==
    /\ worker = "forward"
    /\ IF ready = <<>>
       THEN /\ worker' = IF life = "running" THEN "wait" ELSE "done"
            /\ UNCHANGED <<ready, forwarded>>
       ELSE /\ forwarded' = Append(forwarded, Head(ready))
            /\ ready' = Tail(ready)
            /\ UNCHANGED worker
    /\ UNCHANGED <<now, messages, handler, recent, pending, until, notified,
                   life, published, suppressed, cancelled, offered>>

-----------------------------------------------------------------------------
(***************************************************************************)
(* The destructor, the clock and the whole.                                 *)
(***************************************************************************)

\* The flow graph has stopped: no handler runs.
Destroy ==
    /\ life = "running"
    /\ \A h \in Handlers : handler[h] = Idle
    /\ life' = "stopping"
    /\ pending' = <<>> /\ offered' = <<>>
    /\ Notify
    /\ UNCHANGED <<now, messages, handler, recent, worker, until, ready,
                   published, suppressed, forwarded, cancelled>>

WorkerFinished == worker = "done"

Join ==
    /\ life = "stopping" /\ WorkerFinished
    /\ life' = "destroyed"
    /\ UNCHANGED <<now, messages, handler, recent, pending, waiting, history>>

\* The bound on time leaves a window for a candidate on its way.
Tick ==
    /\ now < MaxTime
    /\ now + Arbitration < MaxTime \/ \A h \in Handlers : handler[h].at # "checked"
    /\ now' = now + 1
    /\ UNCHANGED <<messages, handler, recent, pending, waiting, life, history>>

Destroyed == life = "destroyed" /\ UNCHANGED monitorVars

Worker == WorkerWake \/ Extract \/ Forward

MonitorNext ==
    \/ \E h \in Handlers, p \in Payload : HandleSuccess(h, p)
    \/ \E h \in Handlers : Dispatch(h)
    \/ \E h \in Handlers, p \in Payload, priority \in Priorities :
          HandleCandidate(h, p, priority)
    \/ \E h \in Handlers : InsertCandidate(h)
    \/ Worker
    \/ Destroy \/ Join \/ Tick \/ Destroyed

MonitorSpec == MonitorInit /\ [][MonitorNext]_monitorVars

\* Handlers, the worker and the destructor run, and the clock moves.
MonitorFairSpec ==
    /\ MonitorSpec
    /\ \A h \in Handlers : WF_monitorVars(Dispatch(h) \/ InsertCandidate(h))
    /\ WF_monitorVars(Worker) /\ WF_monitorVars(Join) /\ WF_monitorVars(Tick)

-----------------------------------------------------------------------------
(***************************************************************************)
(* Properties.                                                              *)
(***************************************************************************)

\* Identical copies of a frame are suppressed for the duplicate window: the
\* stamps of two publications of one payload are further apart.
NoDuplicateInWindow ==
    \A i, j \in 1 .. Len(published) :
        i < j /\ published[i].payload = published[j].payload
          => published[j].stamp - published[i].stamp > Window

\* Only copies are suppressed: a frame that is not published follows a
\* publication of the same payload, within the duplicate window.
SuppressedWasPublished ==
    \A d \in ToSet(suppressed) :
        \E f \in ToSet(published) :
            f.payload = d.payload /\ d.stamp - f.stamp <= Window

\* What is published is each frame once per window, and again after the window,
\* so that nothing is missing.
\* (With several handler threads this needs that none stalls for a whole window
\* between its stamp and dispatch_mutex_.)
CopiesSuppressed == MonitorTypeOK /\ NoDuplicateInWindow /\ SuppressedWasPublished

\* A candidate that waits when a frame with its key succeeds is never forwarded.
CancelledNeverForwarded ==
    \A i \in 1 .. Len(forwarded) : forwarded[i].id \notin cancelled

\* While one thread runs the handlers, a byte-identical copy of a published
\* frame never waits as a candidate while the frame is remembered: it is dropped
\* when it comes later, and cancelled when it came earlier.
PublishedNeverPending ==
    \A k \in DOMAIN pending, i \in 1 .. Len(recent) :
        recent[i].payload # pending[k].payload

\* What a success beats: the failed candidates with its key that wait when it
\* comes, and every byte-identical copy. It does not beat a candidate that the
\* worker has taken from the table, nor a failed frame with its key and other
\* bytes that comes later: that one waits and is forwarded, because
\* handleLocalCandidate compares whole payloads.
SuccessWins == CancelledNeverForwarded /\ PublishedNeverPending

\* The candidate that waits is of the best branch that offered one.
BestCandidateWaits ==
    \A k \in DOMAIN pending :
        \A priority \in offered[k] : pending[k].priority <= priority

\* A candidate does not wait for ever.
CandidatesLeave ==
    \A n \in 1 .. MaxMessages :
        (\E k \in DOMAIN pending : pending[k].id = n)
          ~> ~(\E k \in DOMAIN pending : pending[k].id = n)
=============================================================================
