------------------------------ MODULE Payments ------------------------------
(***************************************************************************)
(* The payments of one user for one auction: PaymentService, the callback  *)
(* of a 3-D Secure payment and the reconciliation worker, against a        *)
(* payment provider whose answers may be lost.                             *)
(*                                                                         *)
(* A handler is one call of one of these services, at any instance.  A     *)
(* payment is created and its idempotency key with it, in a transaction    *)
(* of its own; the provider is called outside of any, and its answer is    *)
(* recorded in another.  Capture, cancel and the callback hold the row     *)
(* lock of the payment while they call the provider.  There are two kinds  *)
(* of provider: iyzico, and the mock, do what they are asked to do, and    *)
(* can be asked for the status of a payment; PayTR takes the money with    *)
(* the form, has no status query, and its adapter answers a capture and a  *)
(* cancel with success without a call.                                     *)
(***************************************************************************)
EXTENDS Integers, Sequences

CONSTANTS
    Payments,   \* the payments, each with its idempotency key
    Handlers,   \* calls and callbacks that may be under way at a time
    Workers,    \* reconciliation workers
    None,       \* no payment
    Earlier,    \* a payment the user made before those modelled
    MaxFaults   \* bound: answers lost and handlers interrupted

ASSUME PaymentsAssumption ==
    /\ None \notin Payments /\ Earlier \notin Payments
    /\ Handlers \cap Workers = {}
    /\ MaxFaults \in Nat

VARIABLES
    gateway,   \* POS_PROVIDER: the kind of provider this deployment has
    transfers, \* the payments with payment_method bank_transfer
    status,    \* of each payment; "none" until it is created
    ledger,    \* its rows in payment_ledger
    posTx,     \* the statuses of its rows in pos_transactions
    deposit,   \* the payment the user's deposit for the auction was made by
    provider,  \* what the provider has of each payment
    calls,     \* how often the provider was asked to provision it
    job,       \* what each handler and worker is doing
    lost,      \* the payments about which an answer was lost
    late,      \* those paid after the worker asked for them in vain
    faults

paymentVars == <<status, ledger, posTx, deposit, provider, calls, job, lost,
                 late, faults>>

vars == <<gateway, transfers, paymentVars>>

Gateways == {"asked", "PayTR"}

\* The provider is asked to capture and to cancel, and has a status query.
CanQuery == gateway = "asked"

Statuses == {"none", "pending", "awaiting_3ds", "provisioned", "completed",
             "failed", "cancelled", "partially_refunded", "refunded"}

\* "form": a 3-D Secure token is issued; "shown": the user has the form.
ProviderStates == {"none", "form", "shown", "paid", "declined", "captured", "released"}

Operations == {"initiate", "capture", "cancel", "callback", "reconcile"}

Idle == [op |-> "idle", pay |-> None, at |-> "none"]

Jobs == [op : Operations, pay : Payments,
         at : {"missed", "calling", "completed", "requires_3ds", "failed",
               "yes", "no", "pending", "awaiting_3ds", "not found", "undecided"}]

\* The status that a payment has after a row of its ledger.  The two rows that
\* the worker writes for a payment are one here, named for their resolution.
StatusAfter ==
    [PAYMENT_INITIATED |-> "pending", THREE_DS_INITIATED |-> "awaiting_3ds",
     THREE_DS_FAILED |-> "failed", PAYMENT_PROVISIONED |-> "provisioned",
     PAYMENT_FAILED |-> "failed", PAYMENT_CAPTURED |-> "completed",
     PAYMENT_PROVISION_CANCELLED |-> "cancelled",
     MARKED_PROVISIONED |-> "provisioned", MARKED_FAILED |-> "failed"]

LedgerEvents == DOMAIN StatusAfter

Init ==
    /\ gateway \in Gateways
    /\ transfers \in SUBSET Payments
    /\ status = [p \in Payments |-> "none"]
    /\ ledger = [p \in Payments |-> <<>>]
    /\ posTx = [p \in Payments |-> {}]
    /\ deposit \in {None, Earlier}
    /\ provider = [p \in Payments |-> "none"]
    /\ calls = [p \in Payments |-> 0]
    /\ job = [h \in Handlers \cup Workers |-> Idle]
    /\ lost = {} /\ late = {}
    /\ faults = 0

-----------------------------------------------------------------------------
\* Handler h turns to step "at" of operation op on payment p.
Go(h, op, p, at) == job' = [job EXCEPT ![h] = [op |-> op, pay |-> p, at |-> at]]
Return(h) == job' = [job EXCEPT ![h] = Idle]
IsAt(h, op, at) == job[h].op = op /\ job[h].at = at

\* A transaction that calls the provider holds the lock of its payment.
\* Mutant: SELECT without FOR UPDATE.
LockedNever(p) == FALSE
Locked(p) == \E h \in Handlers :
    job[h].op \in {"capture", "cancel", "callback"} /\ job[h].pay = p

\* Someone is at one of these steps of an operation on p.
Working(p, op, steps) == \E h \in Handlers \cup Workers :
    job[h].op = op /\ job[h].pay = p /\ job[h].at \in steps

Fault == faults < MaxFaults /\ faults' = faults + 1

\* An answer about p is lost.
Loses(p) == Fault /\ lost' = lost \cup {p}

UnchangedDb == UNCHANGED <<status, ledger, posTx, deposit>>

\* Mutant: without the row.
RecordSilently(p, event) ==
    /\ status' = [status EXCEPT ![p] = StatusAfter[event]]
    /\ UNCHANGED ledger
\* A transaction moves p to a status, with a row in its ledger.
Record(p, event) ==
    /\ status' = [status EXCEPT ![p] = StatusAfter[event]]
    /\ ledger' = [ledger EXCEPT ![p] = Append(@, event)]

-----------------------------------------------------------------------------
(* initiate *)

\* No idempotency key is found.
Check(h, p) ==
    /\ job[h] = Idle
    /\ status[p] = "none"
    /\ Go(h, "initiate", p, "missed")
    /\ UNCHANGED <<status, ledger, posTx, deposit, provider, calls, lost, late, faults>>

\* The insertion of the payment violates no unique constraint.
\* Mutant: there is none.
IsNewAlways(p) == TRUE
IsNew(p) == status[p] = "none"

\* Phase 1: payment, ledger and key; or a call that came first made them, and
\* its payment is returned.
Create(h, p) ==
    /\ IsAt(h, "initiate", "missed") /\ job[h].pay = p
    /\ IF IsNew(p)
       THEN Record(p, "PAYMENT_INITIATED") /\ Go(h, "initiate", p, "calling")
       ELSE Return(h) /\ UNCHANGED <<status, ledger>>
    /\ UNCHANGED <<posTx, deposit, provider, calls, lost, late, faults>>

\* What the provider makes of a request to provision, and the answer.  PayTR
\* makes a form or nothing.
Outcomes == {[made |-> "form", answer |-> "requires_3ds"],
             [made |-> "declined", answer |-> "failed"]}
            \cup {o \in {[made |-> "paid", answer |-> "completed"]} : gateway = "asked"}

Provision(h, p) ==
    /\ IsAt(h, "initiate", "calling") /\ job[h].pay = p
    /\ calls' = [calls EXCEPT ![p] = @ + 1]
    /\ \E o \in Outcomes :
        /\ provider' = [provider EXCEPT ![p] = o.made]
        /\ \/ Go(h, "initiate", p, o.answer) /\ UNCHANGED <<lost, faults>>
           \/ Go(h, "initiate", p, "failed") /\ Loses(p)
    /\ UnchangedDb /\ UNCHANGED late

\* createDepositAndParticipant inserts the deposit.  If the user has one for the
\* auction already the statement fails and the transaction with it: the error is
\* caught, but the COMMIT that follows rolls everything back.
DepositAccepted == deposit = None

\* Provisioned with its deposit, or nothing at all.
Provisioned(p, event) ==
    IF DepositAccepted
    THEN /\ Record(p, event)
         /\ posTx' = [posTx EXCEPT ![p] = @ \cup {"provisioned"}]
         /\ deposit' = p
    ELSE UnchangedDb

Unrecorded(p) == status[p] = "pending"

\* recordPosResult, if nothing else was recorded meanwhile.
RecordResult(h, p) ==
    /\ job[h].op = "initiate" /\ job[h].at \in {"completed", "failed"} /\ job[h].pay = p
    /\ ~Locked(p)
    /\ \/ Unrecorded(p) /\ job[h].at = "completed" /\ Provisioned(p, "PAYMENT_PROVISIONED")
       \/ /\ Unrecorded(p) /\ job[h].at = "failed"
          /\ Record(p, "PAYMENT_FAILED")
          /\ posTx' = [posTx EXCEPT ![p] = @ \cup {"failed"}]
          /\ UNCHANGED deposit
       \/ ~Unrecorded(p) /\ UnchangedDb
    /\ Return(h)
    /\ UNCHANGED <<provider, calls, lost, late, faults>>

\* record3dsInitiated.  The user is given the form whatever it did.
Record3ds(h, p) ==
    /\ IsAt(h, "initiate", "requires_3ds") /\ job[h].pay = p
    /\ ~Locked(p)
    /\ IF status[p] = "pending" THEN Record(p, "THREE_DS_INITIATED")
       ELSE UNCHANGED <<status, ledger>>
    /\ provider' = [provider EXCEPT ![p] = IF @ = "form" THEN "shown" ELSE @]
    /\ Return(h)
    /\ UNCHANGED <<posTx, deposit, calls, lost, late, faults>>

-----------------------------------------------------------------------------
(* The provider, the user and the callback. *)

\* The user pays, or does not, or the form expires.
Decide(p) ==
    /\ \/ /\ provider[p] = "shown" /\ provider' = [provider EXCEPT ![p] = "paid"]
          /\ late' = IF status[p] = "failed" \/ Working(p, "reconcile", {"not found"})
                     THEN late \cup {p} ELSE late
       \/ /\ provider[p] \in {"form", "shown"}
          /\ provider' = [provider EXCEPT ![p] = "declined"]
          /\ UNCHANGED late
    /\ UNCHANGED <<status, ledger, posTx, deposit, calls, job, lost, faults>>

\* A callback arrives, perhaps once more, and finds its payment waiting for it.
\* One whose signature, token or amount is wrong, or that comes too late, changes
\* nothing.
BeginCallback(h, p) ==
    /\ job[h] = Idle
    /\ provider[p] \in {"paid", "declined"}
    /\ ~Locked(p) /\ status[p] = "awaiting_3ds"
    /\ Go(h, "callback", p, "calling")
    /\ UNCHANGED <<status, ledger, posTx, deposit, provider, calls, lost, late, faults>>

\* completeProvision, which answers "no" when it cannot reach the provider.
\* PayTR's reads the callback and calls nobody.
Complete(h, p) ==
    /\ IsAt(h, "callback", "calling") /\ job[h].pay = p
    /\ \/ provider[p] = "paid" /\ Go(h, "callback", p, "yes") /\ UNCHANGED <<lost, faults>>
       \/ provider[p] # "paid" /\ Go(h, "callback", p, "no") /\ UNCHANGED <<lost, faults>>
       \/ gateway = "asked" /\ Go(h, "callback", p, "no") /\ Loses(p)
    /\ UnchangedDb /\ UNCHANGED <<provider, calls, late>>

EndCallback(h, p) ==
    /\ job[h].pay = p
    /\ \/ IsAt(h, "callback", "yes") /\ Provisioned(p, "PAYMENT_PROVISIONED")
       \/ /\ IsAt(h, "callback", "no")
          /\ Record(p, "THREE_DS_FAILED")
          /\ posTx' = [posTx EXCEPT ![p] = @ \cup {"failed"}]
          /\ UNCHANGED deposit
    /\ Return(h)
    /\ UNCHANGED <<provider, calls, lost, late, faults>>

-----------------------------------------------------------------------------
(* The administrator: verifyBankTransfer, capture and cancel. *)

\* In one transaction the status goes from pending over provisioned to completed,
\* in two saves, without a row in the ledger.  A deposit that is there already is
\* kept.
VerifyTransfer(p) ==
    /\ p \in transfers /\ ~Locked(p) /\ status[p] = "pending"
    /\ status' = [status EXCEPT ![p] = "completed"]
    /\ deposit' = IF deposit = None THEN p ELSE deposit
    /\ UNCHANGED <<ledger, posTx, provider, calls, job, lost, late, faults>>

\* Both find the reference of the provision under the lock.
BeginEnding(h, p, op) ==
    /\ job[h] = Idle
    /\ ~Locked(p) /\ status[p] = "provisioned" /\ "provisioned" \in posTx[p]
    /\ Go(h, op, p, "calling")
    /\ UNCHANGED <<status, ledger, posTx, deposit, provider, calls, lost, late, faults>>

Ended == [capture |-> "captured", cancel |-> "released"]

\* The provider does it, or refuses, or does it and its answer is lost.  It can
\* be asked to release what it has captured, and not the other way round.
\* PayTR's adapter says yes, and does not ask it at all.
CallEnding(h, p, op) ==
    /\ IsAt(h, op, "calling") /\ job[h].pay = p
    /\ \/ /\ gateway = "asked"
          /\ op = "capture" => provider[p] # "released"
          /\ provider' = [provider EXCEPT ![p] = Ended[op]]
          /\ \/ Go(h, op, p, "yes") /\ UNCHANGED <<lost, faults>>
             \/ Go(h, op, p, "no") /\ Loses(p)
       \/ /\ gateway = "asked"
          /\ Go(h, op, p, "no") /\ UNCHANGED <<provider, lost, faults>>
       \/ /\ gateway = "PayTR"
          /\ Go(h, op, p, "yes") /\ UNCHANGED <<provider, lost, faults>>
    /\ UnchangedDb /\ UNCHANGED <<calls, late>>

EndEnding(h, p, op) ==
    /\ job[h].pay = p
    /\ \/ /\ IsAt(h, op, "yes")
          /\ Record(p, IF op = "capture" THEN "PAYMENT_CAPTURED"
                       ELSE "PAYMENT_PROVISION_CANCELLED")
          /\ posTx' = IF op = "capture" THEN [posTx EXCEPT ![p] = @ \cup {"captured"}]
                      ELSE posTx
          /\ UNCHANGED deposit
       \/ IsAt(h, op, "no") /\ UnchangedDb
    /\ Return(h)
    /\ UNCHANGED <<provider, calls, lost, late, faults>>

-----------------------------------------------------------------------------
(* The reconciliation worker, at one payment of its batch.  Its advisory     *)
(* lock is left out: as in OutboxRelay it can be lost, and nothing here      *)
(* rests on it.                                                              *)

\* The worker reads a stale payment, without a lock.
List(w, p) ==
    /\ job[w] = Idle
    /\ status[p] \in {"pending", "awaiting_3ds"}
    /\ Go(w, "reconcile", p, status[p])
    /\ UNCHANGED <<status, ledger, posTx, deposit, provider, calls, lost, late, faults>>

\* What the status the provider has of a payment is taken for.
\* Mutant: one spelling of "success" is missing.
FoundMisread(p) == "no"
Found(p) == IF provider[p] = "declined" THEN "no" ELSE "yes"

\* The query.  POS_GATEWAY is wrapped in a TimeoutPosGateway, which has the
\* method even if the provider has not and throws: the worker goes on to the
\* next payment.  An error is an answer too: the transaction is not found.
Query(w, p) ==
    /\ job[w].op = "reconcile" /\ job[w].at \in {"pending", "awaiting_3ds"}
    /\ job[w].pay = p
    /\ IF ~CanQuery THEN Return(w) /\ UNCHANGED <<lost, faults>>
       ELSE LET expire == IF job[w].at = "awaiting_3ds"
                          THEN Go(w, "reconcile", p, "not found") ELSE Return(w)
            IN  \/ /\ provider[p] \in {"paid", "declined", "captured", "released"}
                   /\ Go(w, "reconcile", p, Found(p))
                   /\ UNCHANGED <<lost, faults>>
                \/ /\ provider[p] \in {"none", "form", "shown"}
                   /\ expire \/ Return(w)
                   /\ UNCHANGED <<lost, faults>>
                \/ expire /\ Loses(p)
    /\ UnchangedDb /\ UNCHANGED <<provider, calls, late>>

\* Under the lock the status may have changed.
\* Mutant: it is not looked at again.
StillOpenAlways(p) == TRUE
\* Mutant: a status that came later is not thought of.
StillPending(p) == status[p] = "pending"
StillOpen(p) == status[p] \in {"pending", "awaiting_3ds"}

\* resolveAsPaid makes no deposit and no pos_transactions row; expirePayment.
Resolve(w, p) ==
    /\ job[w].op = "reconcile" /\ job[w].at \in {"yes", "no", "not found"}
    /\ job[w].pay = p
    /\ ~Locked(p)
    /\ IF StillOpen(p)
       THEN Record(p, IF job[w].at = "yes" THEN "MARKED_PROVISIONED" ELSE "MARKED_FAILED")
       ELSE UNCHANGED <<status, ledger>>
    /\ Return(w)
    /\ UNCHANGED <<posTx, deposit, provider, calls, lost, late, faults>>

-----------------------------------------------------------------------------
\* An instance dies, or a query or a call throws: the transaction under way is
\* rolled back, and what the provider has done or answered is forgotten.
Interrupt(h) ==
    /\ job[h] # Idle
    /\ Fault
    /\ lost' = IF job[h].op = "reconcile" THEN lost ELSE lost \cup {job[h].pay}
    /\ Return(h)
    /\ UnchangedDb /\ UNCHANGED <<provider, calls, late>>

Initiate(h, p) ==
    \/ Check(h, p) \/ Create(h, p) \/ Provision(h, p)
    \/ RecordResult(h, p) \/ Record3ds(h, p)

Callback(h, p) == BeginCallback(h, p) \/ Complete(h, p) \/ EndCallback(h, p)

Ending(h, p) == \E op \in {"capture", "cancel"} :
    BeginEnding(h, p, op) \/ CallEnding(h, p, op) \/ EndEnding(h, p, op)

Reconcile(w, p) == List(w, p) \/ Query(w, p) \/ Resolve(w, p)

Next ==
    /\ \/ \E h \in Handlers, p \in Payments : Initiate(h, p) \/ Callback(h, p) \/ Ending(h, p)
       \/ \E w \in Workers, p \in Payments : Reconcile(w, p)
       \/ \E h \in Handlers \cup Workers : Interrupt(h)
       \/ \E p \in Payments : Decide(p) \/ VerifyTransfer(p)
    /\ UNCHANGED <<gateway, transfers>>

Spec == Init /\ [][Next]_vars

\* What is under way and holds a lock.
Finish(h) == \E p \in Payments :
    \/ Complete(h, p) \/ EndCallback(h, p)
    \/ \E op \in {"capture", "cancel"} : CallEnding(h, p, op) \/ EndEnding(h, p, op)

\* Nobody has to pay, to capture or to call back.  A form expires, a call ends,
\* the worker's timer fires and its batch does not leave a payment out for ever,
\* and who waits for a row lock gets it in turn.
PaymentsFairness ==
    /\ \A p \in Payments : WF_paymentVars(Decide(p))
    /\ \A h \in Handlers : WF_paymentVars(Finish(h))
    /\ \A w \in Workers :
        /\ WF_paymentVars(\E p \in Payments : Query(w, p))
        /\ \A p \in Payments : SF_paymentVars(List(w, p)) /\ SF_paymentVars(Resolve(w, p))

FairSpec == Spec /\ PaymentsFairness

-----------------------------------------------------------------------------
(* Properties. *)

TypeOK ==
    /\ gateway \in Gateways
    /\ transfers \subseteq Payments
    /\ status \in [Payments -> Statuses]
    /\ ledger \in [Payments -> Seq(LedgerEvents)]
    /\ posTx \in [Payments -> SUBSET {"provisioned", "failed", "captured"}]
    /\ deposit \in Payments \cup {None, Earlier}
    /\ provider \in [Payments -> ProviderStates]
    /\ calls \in [Payments -> Nat]
    /\ job \in [Handlers \cup Workers -> Jobs \cup {Idle}]
    /\ lost \subseteq Payments /\ late \subseteq Payments
    /\ faults \in Nat

\* "guaranteeing no duplicate POS calls": however often a payment is asked for
\* with the same key, and however close together, the provider is asked once.
OneProvisionPerKey == \A p \in Payments : calls[p] <= 1

Paid == {"completed", "partially_refunded", "refunded"}

\* What a payment that was captured or cancelled is at the provider.
Became(ended) == IF gateway = "PayTR" THEN "paid" ELSE ended

\* "Capture and cancel on the same payment are mutually exclusive", and what
\* the books say was captured or cancelled the provider has captured or
\* released, if it is one that is asked.  PayTR, which is not, has taken the
\* money of both: what the books call cancelled it has kept.  The provider may
\* be ahead of the books while a call is under way, or if its answer was lost.
EndedAsRecorded ==
    \A p \in Payments :
        /\ "captured" \in posTx[p] => provider[p] = Became("captured")
        /\ status[p] = "cancelled" => provider[p] = Became("released")
        /\ provider[p] = "captured" => status[p] \in Paid \/ p \in lost \/ Locked(p)
        /\ provider[p] = "released" => status[p] = "cancelled" \/ p \in lost \/ Locked(p)

\* The user's money is not forgotten: what the provider holds is provisioned, or
\* about to be, or a callback or the worker can still find it; unless an answer
\* was lost, the worker had asked for the payment before it was paid, or the
\* deposit was refused and the transaction with it.  PayTR holds what was
\* captured as well, and what was cancelled, which nobody will give back: its
\* books are closed, and a refund of it is refused.
HeldMoneyIsKnown ==
    \A p \in Payments : provider[p] = "paid" =>
        \/ status[p] \in {"provisioned", "awaiting_3ds"}
        \/ Working(p, "initiate", {"completed"})
        \/ p \in lost
        \/ status[p] = "failed" /\ p \in late
        \/ status[p] = "pending" /\ deposit \notin {None, p}
        \/ p \in transfers /\ status[p] \in Paid
        \/ gateway = "PayTR" /\ status[p] \in Paid \cup {"cancelled"}

\* Whoever has a deposit has paid for it: none is left of a payment that failed
\* or was rolled back.
DepositIsPaid ==
    \A p \in Payments : deposit = p =>
        /\ status[p] \in Paid \cup {"provisioned", "cancelled"}
        /\ p \in transfers \/ provider[p] \in {"paid", "captured", "released"}

\* The trigger enforce_payment_status_transition never refuses a transaction:
\* no service writes over a status that another has set.  (The last disjunct is
\* the two saves of verifyBankTransfer, each of which it allows.)
Transitions ==
    {<<"none", "pending">>, <<"pending", "awaiting_3ds">>, <<"pending", "provisioned">>,
     <<"pending", "failed">>, <<"awaiting_3ds", "provisioned">>,
     <<"awaiting_3ds", "failed">>, <<"provisioned", "completed">>,
     <<"provisioned", "cancelled">>, <<"completed", "refunded">>,
     <<"completed", "partially_refunded">>, <<"partially_refunded", "refunded">>}

TriggerNeverRaises ==
    [][\A p \in Payments :
        \/ status'[p] = status[p]
        \/ <<status[p], status'[p]>> \in Transitions
        \/ p \in transfers /\ status[p] = "pending" /\ status'[p] = "completed"]_vars

Told(p) == StatusAfter[ledger[p][Len(ledger[p])]]

\* The append-only ledger tells the status of every payment, but of a bank
\* transfer once it is verified.  (Its rows about refunds are left out.)
LedgerTellsStatus ==
    \A p \in Payments :
        IF ledger[p] = <<>> THEN status[p] = "none"
        ELSE \/ Told(p) = status[p]
             \/ Told(p) = "completed" /\ status[p] \in Paid
             \/ p \in transfers /\ status[p] \in Paid

\* With a provider that has a status query, a payment does not wait for its
\* callback for ever, lost or refused as it may be.  (Without one it may: the
\* branch that is to "expire stale 3DS" then is never taken, see Query.)
AwaitingEnds ==
    \A p \in Payments :
        CanQuery /\ status[p] = "awaiting_3ds" ~> status[p] # "awaiting_3ds"

=============================================================================
