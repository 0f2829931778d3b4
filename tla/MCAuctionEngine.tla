-------------------------- MODULE MCAuctionEngine --------------------------
(***************************************************************************)
(* Instances of AuctionEngine for TLC.  Calls in flight, workers and       *)
(* administrators are interchangeable, so their permutations are a         *)
(* symmetry of every safety run; keys are too when they have one owner.    *)
(***************************************************************************)
EXTENDS AuctionEngine, TLC

CONSTANTS k1, k2, alice, bob

\* Both keys are different bids of different bidders.
OneKeyEach == (k1 :> alice) @@ (k2 :> bob)

\* One bidder sends two bids.
OneBidder == (k1 :> alice) @@ (k2 :> alice)

OneKey == (k1 :> alice)

Symmetry == Permutations(Handlers) \cup Permutations(Workers)
            \cup Permutations(Admins)

\* With OneBidder.
KeySymmetry == Symmetry \cup Permutations(Keys)

=============================================================================
