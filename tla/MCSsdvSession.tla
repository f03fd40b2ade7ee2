--------------------------- MODULE MCSsdvSession ---------------------------
(***************************************************************************)
(* SsdvSession for TLC: image identities and packet contents are            *)
(* interchangeable.                                                         *)
(***************************************************************************)
EXTENDS SsdvSession, TLC

Symmetry == Permutations(Images) \cup Permutations(Contents)
=============================================================================
