----------------------------- MODULE MCSettlement -----------------------------
(***************************************************************************)
(* Instances of Settlement for TLC.  Workers are interchangeable.          *)
(***************************************************************************)
EXTENDS Settlement, TLC

Symmetry == Permutations(Workers)

=============================================================================
