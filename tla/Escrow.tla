-------------------------------- MODULE Escrow --------------------------------
(***************************************************************************)
(* What the settlement of an auction promises those who paid a deposit: it *)
(* is left alone until the auction settles, the winner's is captured and   *)
(* any other refunded, never before the provider has moved the money, and  *)
(* the auction counts as settled only when that is done for all of them.   *)
(***************************************************************************)
CONSTANTS Deposits, WinnerDeposit

VARIABLES
    auction,    \* "ended", "settling", "settled" or "settlement_failed"
    deposit,    \* the status of each deposit
    moved       \* the deposits whose money the provider has moved

vars == <<auction, deposit, moved>>

Init ==
    /\ auction = "ended"
    /\ deposit \in [Deposits -> {"collected", "held"}]
    /\ moved = {}

Begin ==
    /\ auction = "ended"
    /\ auction' = "settling"
    /\ UNCHANGED <<deposit, moved>>

Move(d) ==
    /\ auction # "ended"
    /\ deposit[d] # "collected"
    /\ moved' = moved \cup {d}
    /\ UNCHANGED <<auction, deposit>>

Step(d, from, to) ==
    /\ auction \in {"settling", "settlement_failed"}
    /\ deposit[d] = from
    /\ deposit' = [deposit EXCEPT ![d] = to]
    /\ UNCHANGED <<auction, moved>>

Capture(d) == d = WinnerDeposit /\ d \in moved /\ Step(d, "held", "captured")

InitiateRefund(d) == d # WinnerDeposit /\ Step(d, "held", "refund_pending")

Refund(d) == d \in moved /\ Step(d, "refund_pending", "refunded")

Settle ==
    /\ auction = "settling"
    /\ \A d \in Deposits : deposit[d] \notin {"held", "refund_pending"}
    /\ auction' = "settled"
    /\ UNCHANGED <<deposit, moved>>

Fail ==
    /\ auction = "settling"
    /\ auction' = "settlement_failed"
    /\ UNCHANGED <<deposit, moved>>

Next ==
    \/ Begin \/ Settle \/ Fail
    \/ \E d \in Deposits : Move(d) \/ Capture(d) \/ InitiateRefund(d) \/ Refund(d)

Spec == Init /\ [][Next]_vars

=============================================================================
