---------------------------- MODULE BridgeStream ----------------------------
(***************************************************************************)
(* What the I/Q bridge promises about positions: a stream that only grows,  *)
(* and a reader that walks along it, delivering consecutive intervals of    *)
(* what is published and skipping the rest. It never delivers an interval   *)
(* twice, never goes back and never passes the end of the stream, although  *)
(* producers come and go and the reader is overtaken. SharedIqRing          *)
(* implements it.                                                           *)
(***************************************************************************)
EXTENDS Integers

VARIABLES
    published,  \* length of the stream
    consumed,   \* position of the reader
    last        \* <<from, to>>: the last interval delivered

vars == <<published, consumed, last>>

Init ==
    /\ published = 0
    /\ consumed = 0
    /\ last = <<0, 0>>

Publish ==
    /\ published' > published
    /\ UNCHANGED <<consumed, last>>

Skip ==
    /\ consumed' > consumed
    /\ consumed' <= published
    /\ UNCHANGED <<published, last>>

Deliver ==
    /\ consumed' > consumed
    /\ consumed' <= published
    /\ last' = <<consumed, consumed'>>
    /\ UNCHANGED published

Next == Publish \/ Skip \/ Deliver

Spec == Init /\ [][Next]_vars
=============================================================================
