--------------------------- MODULE EnglishAuction ---------------------------
(***************************************************************************)
(* What an auction promises its bidders, with no server in sight: while it *)
(* is open every accepted bid raises the highest one by at least the       *)
(* minimum increment, closing stops the bidding, and the winner is then    *)
(* decided once, as the highest bid.                                       *)
(***************************************************************************)
EXTENDS Integers

CONSTANTS
    Keys,           \* one key per bid a client attempts
    Prices,         \* the amounts a client may bid
    StartPrice,     \* the price the first bid has to beat
    MinIncrement,   \* by how much
    None            \* no winner

VARIABLES
    stage,          \* where the auction is
    bids,           \* the accepted bids
    winner          \* the winning bid

vars == <<stage, bids, winner>>

Highest(b) == b \in bids /\ \A c \in bids : c.amount <= b.amount

Init ==
    /\ stage = "preparing"
    /\ bids = {}
    /\ winner = None

Open ==
    /\ stage = "preparing"
    /\ stage' = "open"
    /\ UNCHANGED <<bids, winner>>

Accept(k, amount) ==
    /\ stage = "open"
    /\ amount >= StartPrice + MinIncrement
    /\ \A b \in bids : b.key # k /\ amount >= b.amount + MinIncrement
    /\ bids' = bids \cup {[key |-> k, amount |-> amount]}
    /\ UNCHANGED <<stage, winner>>

Close ==
    /\ stage = "open"
    /\ stage' = "closed"
    /\ UNCHANGED <<bids, winner>>

Decide ==
    /\ stage = "closed"
    /\ stage' = "decided"
    /\ IF bids = {} THEN winner' = None ELSE \E b \in bids : Highest(b) /\ winner' = b
    /\ UNCHANGED bids

Next ==
    \/ Open \/ Close \/ Decide
    \/ \E k \in Keys, amount \in Prices : Accept(k, amount)

Spec == Init /\ [][Next]_vars

=============================================================================
