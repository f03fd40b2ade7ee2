---------------------------- MODULE DopplerRecord ----------------------------
(***************************************************************************)
(* The Doppler control record: TinyDoppler, a program of its own, writes    *)
(* it, DopplerReader in SDR++ reads it, and a sequence number tells the     *)
(* reader of a writer that was at it.                                       *)
(*                                                                          *)
(* Source: integrations/sdrpp/asrtu_sink/src/posix_bridge.h, and for        *)
(* Windows shared_bridge.h.  The writer is modelled from the protocol the   *)
(* reader goes by: an odd sequence before the fields and an even one after. *)
(* Each load and store is a step (loads acquire, stores release).           *)
(*                                                                          *)
(* The sequence is kept as its parity and as whether it was stored since    *)
(* the reader loaded it: that 2^31 records are written during one read is   *)
(* left out.  Of the fields the target and the time stamp are kept: the     *)
(* correction is loaded beside the target and only shown, and target 0      *)
(* stands for a record that is not valid or whose target is not positive.   *)
(* The blank record also stands for a file that is absent or not of the     *)
(* right kind.  A system clock that is set back is left out.                *)
(***************************************************************************)
EXTENDS Integers, FiniteSets

CONSTANT Targets \* the frequencies the tracker asks for

ASSUME TargetsAssumption == Targets \subseteq Nat \ {0}

VARIABLES
    record,  \* the record at the path
    left,    \* the one that the reader still maps, if it was replaced
    mapped,  \* which of them the reader maps: "none", "record", "left"
    writer,  \* the writer: "gone", "idle" or "writing"
    todo,    \* the fields it has to store
    next,    \* what it stores there
    reader,  \* "idle", or what the reader loads next
    seen,    \* what it has loaded
    touched  \* the sequence was stored since the reader loaded it

doppler == <<record, left, mapped, writer, todo, next, reader, seen,
             touched>>

Fields == {"target", "stamp"}
Payloads == [target : Targets \cup {0},
             stamp : {"fresh", "stale"}] \* at most 3 s old, or more
Steps == {"sequence", "target", "stamp", "after"}

Nothing == [target |-> 0, stamp |-> "stale"]
Blank == [odd |-> FALSE, data |-> Nothing]
Abandoned == [odd |-> TRUE, data |-> Nothing]

DopplerTypeOK ==
    /\ record \in [odd : BOOLEAN, data : Payloads]
    /\ left \in [odd : BOOLEAN, data : Payloads]
    /\ mapped \in {"none", "record", "left"}
    /\ writer \in {"gone", "idle", "writing"} /\ todo \subseteq Fields
    /\ next \in Payloads /\ seen \in Payloads
    /\ reader \in Steps \cup {"idle"}
    /\ touched \in BOOLEAN

DopplerInit ==
    /\ record = Blank /\ left = Blank /\ mapped = "none"
    /\ writer = "gone" /\ todo = {} /\ next = Nothing
    /\ reader = "idle" /\ seen = Nothing /\ touched = FALSE

-----------------------------------------------------------------------------
(***************************************************************************)
(* The writer.                                                              *)
(***************************************************************************)

StoreSequence(odd) ==
    /\ record' = [record EXCEPT !.odd = odd]
    /\ touched' = (touched \/ mapped = "record")

Publish ==
    /\ writer = "idle"
    /\ \E t \in Targets \cup {0} : next' = [target |-> t, stamp |-> "fresh"]
    /\ StoreSequence(TRUE)
    /\ writer' = "writing" /\ todo' = Fields
    /\ UNCHANGED <<left, mapped, reader, seen>>

Store ==
    /\ \E f \in todo :
          /\ record' = [record EXCEPT !.data[f] = next[f]]
          /\ todo' = todo \ {f}
    /\ UNCHANGED <<left, mapped, writer, next, reader, seen, touched>>

Finish ==
    /\ writer = "writing" /\ todo = {}
    /\ StoreSequence(FALSE)
    /\ writer' = "idle" /\ next' = Nothing
    /\ UNCHANGED <<todo, left, mapped, reader, seen>>

\* It is killed, with the record as it is.
Die ==
    /\ writer # "gone"
    /\ writer' = "gone" /\ todo' = {} /\ next' = Nothing
    /\ UNCHANGED <<record, left, mapped, reader, seen, touched>>

\* It takes the record that is there, or replaces it with a new one.
Restart ==
    /\ writer = "gone"
    /\ writer' = "idle"
    /\ UNCHANGED <<todo, next, reader, seen, touched>>
    /\ \/ UNCHANGED <<record, left, mapped>>
       \/ /\ record' = Blank
          /\ left' = IF mapped # "record" THEN left
                     ELSE IF record.odd THEN Abandoned ELSE record
          /\ mapped' = IF mapped = "record" THEN "left" ELSE mapped

-----------------------------------------------------------------------------
\* More than 3 s: all that was written is stale.
TimePasses ==
    LET Stale(data) == [data EXCEPT !.stamp = "stale"]
    IN  /\ record' = [record EXCEPT !.data = Stale(record.data)]
        /\ left' = [left EXCEPT !.data = Stale(left.data)]
        /\ next' = Stale(next) /\ seen' = Stale(seen)
        /\ UNCHANGED <<mapped, writer, todo, reader, touched>>

-----------------------------------------------------------------------------
(***************************************************************************)
(* DopplerReader::read and close.                                           *)
(***************************************************************************)

Mapped == IF mapped = "left" THEN left ELSE record

Unmap == mapped' = "none" /\ left' = Blank

Done == reader' = "idle" /\ seen' = Nothing /\ touched' = FALSE

\* The record is mapped, if none is.
Read ==
    /\ reader = "idle"
    /\ mapped' = IF mapped = "none" THEN "record" ELSE mapped
    /\ reader' = "sequence"
    /\ UNCHANGED <<record, left, writer, todo, next, seen, touched>>

\* A writer is at it, or died at it: the record stays mapped.
LoadSequence ==
    /\ reader = "sequence"
    /\ IF Mapped.odd
       THEN Done
       ELSE reader' = "target" /\ touched' = FALSE /\ UNCHANGED seen
    /\ UNCHANGED <<record, left, mapped, writer, todo, next>>

Load(f, then) ==
    /\ reader = f
    /\ seen' = [seen EXCEPT ![f] = Mapped.data[f]]
    /\ reader' = then
    /\ UNCHANGED <<record, left, mapped, writer, todo, next, touched>>

LoadFields ==
    \/ Load("target", "stamp")
    \/ Load("stamp", "after")

Fresh == seen.stamp = "fresh"

\* read returns true: with the target and its correction.
Accepts ==
    /\ reader = "after"
    /\ ~touched /\ Fresh /\ seen.target # 0

\* Fault: a record that is not fresh stays mapped.
CloseNever == UNCHANGED <<mapped, left>>

\* A record that is not fresh is closed, to be opened anew.
Close == IF Fresh THEN UNCHANGED <<mapped, left>> ELSE Unmap
=============================================================================
