----------------------------- MODULE MCSpinWheel -----------------------------
(***************************************************************************)
(* An instance of SpinWheel for TLC.                                       *)
(***************************************************************************)
EXTENDS SpinWheel, TLC

Symmetry == Permutations(Calls) \cup Permutations(Users) \cup Permutations(Results)

=============================================================================
