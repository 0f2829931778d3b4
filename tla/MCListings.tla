----------------------------- MODULE MCListings -----------------------------
(***************************************************************************)
(* An instance of Listings for TLC: one parcel that may be sold and one    *)
(* that is only put on the market, and two users who may reserve one each. *)
(***************************************************************************)
EXTENDS Listings, TLC

CONSTANT Sold

Changes == [p \in Parcels |-> IF p = Sold THEN 3 ELSE 1]

Symmetry == Permutations(Calls) \cup Permutations(Users)

=============================================================================
