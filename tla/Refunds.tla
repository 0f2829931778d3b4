------------------------------- MODULE Refunds -------------------------------
(***************************************************************************)
(* RefundService on top of Payments.  A refund is validated and created    *)
(* under the row lock of its payment, with its idempotency key; the        *)
(* provider is called outside of any transaction; and its answer is        *)
(* recorded in another, which sets the status of the payment from the sum  *)
(* of its completed refunds.                                               *)
(***************************************************************************)
EXTENDS Payments, FiniteSets, FiniteSetsExt

CONSTANTS
    Refunds,   \* the refunds, each with its idempotency key
    Of,        \* the payment a refund is of
    Cents,     \* what it gives back
    Amount     \* the amount of a payment

ASSUME RefundsAssumption ==
    /\ IsFiniteSet(Refunds)
    /\ Of \in [Refunds -> Payments]
    /\ Cents \in [Refunds -> Nat \ {0}]
    /\ Amount \in Nat \ {0}

VARIABLES
    refund,  \* status of each refund; "none" until it is created
    rpc,     \* where the call that created it is
    paidBack \* the refunds the provider has executed

refundVars == <<refund, rpc, paidBack>>

RefundsInit ==
    /\ Init
    /\ refund = [r \in Refunds |-> "none"]
    /\ rpc = [r \in Refunds |-> "idle"]
    /\ paidBack = {}

Total(S) == MapThenSumSet(LAMBDA r : Cents[r], S)

\* The refunds of a payment with one of these statuses.
With(p, statuses) == {r \in Refunds : Of[r] = p /\ refund[r] \in statuses}

\* What a refund leaves to be refunded is counted under the lock.
\* Mutant: without those that are pending.
CommittedCompleted(p) == With(p, {"completed"})
Committed(p) == With(p, {"pending", "completed"})

\* Phase 1.  A repeated request finds the key, or violates a unique constraint.
InitiateRefund(r) ==
    /\ refund[r] = "none"
    /\ ~Locked(Of[r]) /\ status[Of[r]] \in {"completed", "partially_refunded"}
    /\ Cents[r] <= Amount - Total(Committed(Of[r]))
    /\ refund' = [refund EXCEPT ![r] = "pending"]
    /\ rpc' = [rpc EXCEPT ![r] = "calling"]
    /\ UNCHANGED <<vars, paidBack>>

\* Phase 2.  The provider executes the refund, refuses it, or executes it and its
\* answer is lost; the adapters answer "no" then.
CallRefund(r) ==
    /\ rpc[r] = "calling"
    /\ \/ /\ paidBack' = paidBack \cup {r}
          /\ rpc' = [rpc EXCEPT ![r] = "yes"]
          /\ UNCHANGED <<lost, faults>>
       \/ /\ rpc' = [rpc EXCEPT ![r] = "no"]
          /\ UNCHANGED <<paidBack, lost, faults>>
       \/ /\ paidBack' = paidBack \cup {r}
          /\ rpc' = [rpc EXCEPT ![r] = "no"]
          /\ Loses(Of[r])
    /\ UNCHANGED <<gateway, transfers, status, ledger, posTx, deposit, provider, calls, job,
                   late, refund>>

\* The status of a payment of which S are the completed refunds.
\* Mutant: a comparison that is one cent off.
RefundedStatusStrict(S) == IF Total(S) > Amount THEN "refunded" ELSE "partially_refunded"
RefundedStatus(S) == IF Total(S) >= Amount THEN "refunded" ELSE "partially_refunded"

\* Phase 3, recordRefundPosResult.
RecordRefund(r) ==
    LET p == Of[r] IN
    /\ \/ /\ rpc[r] = "yes" /\ ~Locked(p)
          /\ refund' = [refund EXCEPT ![r] = "completed"]
          /\ status' = [status EXCEPT ![p] =
                           RefundedStatus(With(p, {"completed"}) \cup {r})]
       \/ /\ rpc[r] = "no"
          /\ refund' = [refund EXCEPT ![r] = "failed"]
          /\ UNCHANGED status
    /\ rpc' = [rpc EXCEPT ![r] = "idle"]
    /\ UNCHANGED <<gateway, transfers, ledger, posTx, deposit, provider, calls, job, lost,
                   late, faults, paidBack>>

\* The call dies, or its last transaction is rolled back: the refund stays
\* pending, and the worker does no more than to log it.
InterruptRefund(r) ==
    /\ rpc[r] # "idle"
    /\ Loses(Of[r])
    /\ rpc' = [rpc EXCEPT ![r] = "idle"]
    /\ UNCHANGED <<gateway, transfers, status, ledger, posTx, deposit, provider, calls, job,
                   late, refund, paidBack>>

RefundsNext ==
    \/ Next /\ UNCHANGED refundVars
    \/ \E r \in Refunds :
        InitiateRefund(r) \/ CallRefund(r) \/ RecordRefund(r) \/ InterruptRefund(r)

RefundsSpec == RefundsInit /\ [][RefundsNext]_<<vars, refundVars>>

\* Nobody has to refund, and no call of a refund has to end.
FairRefundsSpec == RefundsSpec /\ PaymentsFairness

-----------------------------------------------------------------------------
(* Properties. *)

\* "Refund amount must not exceed remaining refundable amount": the refunds on
\* record stay within the amount of their payment, however they interleave and
\* whichever of them fail.
RefundsWithinAmount ==
    \A p \in Payments : Total(With(p, {"pending", "completed"})) <= Amount

\* The same of the money: what the provider has paid back is on record, and no
\* more than was paid, until an answer about the payment is lost.
PaidBackIsRecorded ==
    \A p \in Payments :
        /\ With(p, {"completed"}) \subseteq paidBack
        /\ p \notin lost =>
            /\ Total({r \in paidBack : Of[r] = p}) <= Amount
            /\ \A r \in paidBack : Of[r] = p /\ refund[r] # "completed" => rpc[r] = "yes"

\* A payment says that it is refunded once its completed refunds make up its
\* amount, and that it is in part while they do not, in whatever order their
\* answers are recorded.
StatusTellsRefunds ==
    \A p \in Payments :
        LET back == Total(With(p, {"completed"})) IN
        /\ status[p] = "refunded" <=> back = Amount
        /\ status[p] = "partially_refunded" <=> back > 0 /\ back < Amount

=============================================================================
