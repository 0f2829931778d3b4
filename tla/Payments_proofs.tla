--------------------------- MODULE Payments_proofs ---------------------------
(***************************************************************************)
(* Proofs about Payments, for any payments, handlers and workers.          *)
(***************************************************************************)
EXTENDS Payments, TLAPS

Ops == {"capture", "cancel"}
Held == {"paid", "captured", "released"}

\* Who holds the lock of p.
Holds(h, p) == job[h].op \in {"capture", "cancel", "callback"} /\ job[h].pay = p

\* The handler that is to ask the provider for p.
Asks(h, p) == IsAt(h, "initiate", "calling") /\ job[h].pay = p

\* The provider is asked once for a payment, by the handler that created it.
AskedOnce ==
    \A p \in Payments :
        /\ calls[p] <= 1
        /\ calls[p] = 0 <=> provider[p] = "none"
        /\ status[p] = "none" => calls[p] = 0
        /\ \A h \in Handlers : Asks(h, p) => status[p] # "none" /\ calls[p] = 0
        /\ \A g, h \in Handlers : Asks(g, p) /\ Asks(h, p) => g = h

\* One handler at a time is at a payment under its lock.
LockIsExclusive ==
    \A p \in Payments : \A g, h \in Handlers : Holds(g, p) /\ Holds(h, p) => g = h

\* What a handler has read under the lock still holds.
UnderLock ==
    \A h \in Handlers, p \in Payments : job[h].pay = p =>
        /\ job[h].op = "callback" => status[p] = "awaiting_3ds"
        /\ job[h].op \in Ops => status[p] = "provisioned" /\ "provisioned" \in posTx[p]

\* What an answer says is so.
AnswersAreTrue ==
    \A h \in Handlers, p \in Payments : job[h].pay = p =>
        /\ IsAt(h, "initiate", "completed") => gateway = "asked" /\ provider[p] \in Held
        /\ IsAt(h, "callback", "yes") => provider[p] = "paid"
        /\ IsAt(h, "capture", "yes") => provider[p] = Became("captured")
        /\ IsAt(h, "cancel", "yes") => provider[p] = Became("released")
        /\ job[h].op \in Ops /\ job[h].at # "yes" /\ p \notin lost =>
               provider[p] \notin {"captured", "released"}

\* What the books say about what the provider holds.
BooksAreTrue ==
    \A p \in Payments :
        /\ "provisioned" \in posTx[p] => provider[p] \in Held
        /\ "captured" \in posTx[p] => status[p] \in Paid
        /\ provider[p] \in {"captured", "released"} =>
               status[p] \in Paid \cup {"provisioned", "cancelled"}

\* A provider that is not asked captures and releases nothing.
NotAsked ==
    gateway = "PayTR" => \A p \in Payments : provider[p] \notin {"captured", "released"}

IInv ==
    /\ TypeOK /\ NotAsked /\ AskedOnce
    /\ LockIsExclusive /\ UnderLock
    /\ AnswersAreTrue /\ BooksAreTrue
    /\ EndedAsRecorded /\ DepositIsPaid /\ LedgerTellsStatus

-----------------------------------------------------------------------------
(* What the parts of an action do. *)

LEMMA StatusAfterValues ==
    /\ StatusAfter["PAYMENT_INITIATED"] = "pending"
    /\ StatusAfter["THREE_DS_INITIATED"] = "awaiting_3ds"
    /\ StatusAfter["THREE_DS_FAILED"] = "failed"
    /\ StatusAfter["PAYMENT_PROVISIONED"] = "provisioned"
    /\ StatusAfter["PAYMENT_FAILED"] = "failed"
    /\ StatusAfter["PAYMENT_CAPTURED"] = "completed"
    /\ StatusAfter["PAYMENT_PROVISION_CANCELLED"] = "cancelled"
    /\ StatusAfter["MARKED_PROVISIONED"] = "provisioned"
    /\ StatusAfter["MARKED_FAILED"] = "failed"
  BY DEF StatusAfter

Entries == {"PAYMENT_INITIATED", "THREE_DS_INITIATED", "THREE_DS_FAILED", "PAYMENT_PROVISIONED",
            "PAYMENT_FAILED", "PAYMENT_CAPTURED", "PAYMENT_PROVISION_CANCELLED",
            "MARKED_PROVISIONED", "MARKED_FAILED"}

LEMMA EntriesAreEvents == LedgerEvents = Entries
  BY DEF LedgerEvents, StatusAfter, Entries

\* A recorded event is the last of its ledger, and tells the status.
LEMMA RecordEffect ==
    ASSUME TypeOK, NEW p \in Payments, NEW event \in Entries, Record(p, event)
    PROVE  /\ status' \in [Payments -> Statuses]
           /\ ledger' \in [Payments -> Seq(LedgerEvents)]
           /\ status'[p] = StatusAfter[event]
           /\ \A q \in Payments \ {p} : status'[q] = status[q] /\ ledger'[q] = ledger[q]
           /\ ledger'[p] # <<>> /\ Told(p)' = status'[p]
  <1>1. /\ status' = [status EXCEPT ![p] = StatusAfter[event]]
        /\ ledger' = [ledger EXCEPT ![p] = Append(ledger[p], event)]
        /\ status \in [Payments -> Statuses] /\ ledger \in [Payments -> Seq(LedgerEvents)]
    BY DEF Record, TypeOK
  <1>2. StatusAfter[event] \in Statuses \ {"none"}
    BY StatusAfterValues DEF Entries, Statuses
  <1>3. ledger[p] \in Seq(LedgerEvents) /\ event \in LedgerEvents
    BY <1>1, EntriesAreEvents
  <1>4. Append(ledger[p], event) \in Seq(LedgerEvents)
    BY <1>3
  <1>5. ledger'[p] = Append(ledger[p], event) /\ status'[p] = StatusAfter[event]
    BY <1>1
  <1>6. ledger'[p] # <<>> /\ ledger'[p][Len(ledger'[p])] = event
    BY <1>3, <1>5
  <1>7. Told(p)' = status'[p]
    BY <1>5, <1>6 DEF Told
  <1>8. /\ status' \in [Payments -> Statuses]
        /\ ledger' \in [Payments -> Seq(LedgerEvents)]
    BY <1>1, <1>2, <1>4
  <1>9. \A q \in Payments \ {p} : status'[q] = status[q] /\ ledger'[q] = ledger[q]
    BY <1>1
  <1> QED
    BY <1>5, <1>6, <1>7, <1>8, <1>9

Points == {"missed", "calling", "completed", "requires_3ds", "failed", "yes", "no", "pending",
           "awaiting_3ds", "not found", "undecided"}

LEMMA GoEffect ==
    ASSUME TypeOK, NEW h \in Handlers \cup Workers, NEW op \in Operations, NEW p \in Payments,
           NEW at \in Points, Go(h, op, p, at)
    PROVE  /\ job' \in [Handlers \cup Workers -> Jobs \cup {Idle}]
           /\ job'[h].op = op /\ job'[h].pay = p /\ job'[h].at = at
           /\ \A g \in Handlers \cup Workers : g # h => job'[g] = job[g]
  <1>1. [op |-> op, pay |-> p, at |-> at] \in Jobs
    BY DEF Jobs, Points
  <1>2. job' = [job EXCEPT ![h] = [op |-> op, pay |-> p, at |-> at]]
    BY DEF Go
  <1>3. job'[h] = [op |-> op, pay |-> p, at |-> at]
    BY <1>2 DEF TypeOK
  <1>4. job'[h].op = op /\ job'[h].pay = p /\ job'[h].at = at
    BY <1>3
  <1>5. job' \in [Handlers \cup Workers -> Jobs \cup {Idle}]
    BY <1>1, <1>2 DEF TypeOK
  <1>6. \A g \in Handlers \cup Workers : g # h => job'[g] = job[g]
    BY <1>2 DEF TypeOK
  <1> QED
    BY <1>4, <1>5, <1>6

LEMMA ReturnEffect ==
    ASSUME TypeOK, NEW h \in Handlers \cup Workers, Return(h)
    PROVE  /\ job' \in [Handlers \cup Workers -> Jobs \cup {Idle}]
           /\ job'[h] = Idle /\ job'[h].op = "idle" /\ job'[h].pay = None
           /\ \A g \in Handlers \cup Workers : g # h => job'[g] = job[g]
  <1>1. job' = [job EXCEPT ![h] = Idle]
    BY DEF Return
  <1>2. job'[h] = Idle
    BY <1>1 DEF TypeOK
  <1>3. job'[h].op = "idle" /\ job'[h].pay = None
    BY <1>2 DEF Idle
  <1> QED
    BY <1>1, <1>2, <1>3 DEF TypeOK

LEMMA ProvisionedEffect ==
    ASSUME TypeOK, NEW p \in Payments, Provisioned(p, "PAYMENT_PROVISIONED")
    PROVE  \/ UnchangedDb
           \/ /\ Record(p, "PAYMENT_PROVISIONED")
              /\ posTx' = [posTx EXCEPT ![p] = @ \cup {"provisioned"}]
              /\ deposit = None /\ deposit' = p
  BY DEF Provisioned, DepositAccepted

LEMMA PosTxType ==
    ASSUME TypeOK, NEW p \in Payments, NEW kind \in {"provisioned", "failed", "captured"},
           posTx' = [posTx EXCEPT ![p] = @ \cup {kind}]
    PROVE  posTx' \in [Payments -> SUBSET {"provisioned", "failed", "captured"}]
  <1>1. posTx \in [Payments -> SUBSET {"provisioned", "failed", "captured"}]
    BY DEF TypeOK
  <1>2. posTx[p] \cup {kind} \in SUBSET {"provisioned", "failed", "captured"}
    BY <1>1
  <1> QED
    BY <1>1, <1>2

LEMMA ProvisionedType ==
    ASSUME TypeOK, NEW p \in Payments, Provisioned(p, "PAYMENT_PROVISIONED")
    PROVE  /\ posTx' \in [Payments -> SUBSET {"provisioned", "failed", "captured"}]
           /\ deposit' \in Payments \cup {None, Earlier}
  <1>1. CASE UnchangedDb
    BY <1>1 DEF UnchangedDb, TypeOK
  <1>2. CASE posTx' = [posTx EXCEPT ![p] = @ \cup {"provisioned"}] /\ deposit' = p
    BY <1>2, PosTxType
  <1> QED
    BY <1>1, <1>2, ProvisionedEffect

-----------------------------------------------------------------------------
(* Types. *)

LEMMA InitiateType ==
    ASSUME TypeOK, NEW h \in Handlers, NEW p \in Payments, Initiate(h, p),
           UNCHANGED <<gateway, transfers>>
    PROVE  TypeOK'
  <1> USE DEF Entries, Operations, Points
  <1>1. CASE Check(h, p)
    <2>1. job' \in [Handlers \cup Workers -> Jobs \cup {Idle}]
      BY <1>1, GoEffect DEF Check
    <2> QED
      BY <1>1, <2>1 DEF Check, TypeOK
  <1>2. CASE Create(h, p)
    <2>1. job' \in [Handlers \cup Workers -> Jobs \cup {Idle}]
      BY <1>2, GoEffect, ReturnEffect DEF Create
    <2>2. status' \in [Payments -> Statuses] /\ ledger' \in [Payments -> Seq(LedgerEvents)]
      BY <1>2, RecordEffect DEF Create, TypeOK
    <2>3. UNCHANGED <<posTx, deposit, provider, calls, lost, late, faults>>
      BY <1>2 DEF Create
    <2> QED
      BY <2>1, <2>2, <2>3 DEF TypeOK
  <1>3. CASE Provision(h, p)
    <2>1. PICK o \in Outcomes :
            /\ provider' = [provider EXCEPT ![p] = o.made]
            /\ \/ Go(h, "initiate", p, o.answer) /\ UNCHANGED <<lost, faults>>
               \/ Go(h, "initiate", p, "failed") /\ Loses(p)
      BY <1>3 DEF Provision
    <2>2. o.made \in {"paid", "form", "declined"}
          /\ o.answer \in {"completed", "requires_3ds", "failed"}
      BY DEF Outcomes
    <2>3. job' \in [Handlers \cup Workers -> Jobs \cup {Idle}]
      BY <2>1, <2>2, GoEffect
    <2>4. provider' \in [Payments -> ProviderStates]
      BY <2>1, <2>2 DEF TypeOK, ProviderStates
    <2>5. calls' \in [Payments -> Nat]
      BY <1>3 DEF Provision, TypeOK
    <2>6. lost' \subseteq Payments /\ faults' \in Nat
      BY <2>1 DEF Loses, Fault, TypeOK
    <2>7. UnchangedDb /\ UNCHANGED late
      BY <1>3 DEF Provision
    <2> QED
      BY <2>3, <2>4, <2>5, <2>6, <2>7 DEF UnchangedDb, TypeOK
  <1>4. CASE RecordResult(h, p)
    <2>1. /\ Return(h) /\ UNCHANGED <<provider, calls, lost, late, faults>>
          /\ \/ Provisioned(p, "PAYMENT_PROVISIONED")
             \/ /\ Record(p, "PAYMENT_FAILED")
                /\ posTx' = [posTx EXCEPT ![p] = @ \cup {"failed"}]
                /\ UNCHANGED deposit
             \/ UnchangedDb
      BY <1>4 DEF RecordResult
    <2>2. job' \in [Handlers \cup Workers -> Jobs \cup {Idle}]
      BY <2>1, ReturnEffect
    <2>3. status' \in [Payments -> Statuses] /\ ledger' \in [Payments -> Seq(LedgerEvents)]
      BY <2>1, RecordEffect, ProvisionedEffect DEF UnchangedDb, TypeOK
    <2>4. /\ posTx' \in [Payments -> SUBSET {"provisioned", "failed", "captured"}]
          /\ deposit' \in Payments \cup {None, Earlier}
      <3>1. CASE Provisioned(p, "PAYMENT_PROVISIONED")
        BY <3>1, ProvisionedType
      <3>2. CASE posTx' = [posTx EXCEPT ![p] = @ \cup {"failed"}] /\ UNCHANGED deposit
        BY <3>2, PosTxType DEF TypeOK
      <3>3. CASE UnchangedDb
        BY <3>3 DEF UnchangedDb, TypeOK
      <3> QED
        BY <2>1, <3>1, <3>2, <3>3
    <2> QED
      BY <2>1, <2>2, <2>3, <2>4 DEF TypeOK
  <1>5. CASE Record3ds(h, p)
    <2>1. job' \in [Handlers \cup Workers -> Jobs \cup {Idle}]
      BY <1>5, ReturnEffect DEF Record3ds
    <2>2. status' \in [Payments -> Statuses] /\ ledger' \in [Payments -> Seq(LedgerEvents)]
      BY <1>5, RecordEffect DEF Record3ds, TypeOK
    <2>3. provider' \in [Payments -> ProviderStates]
      BY <1>5 DEF Record3ds, TypeOK, ProviderStates
    <2>4. UNCHANGED <<posTx, deposit, calls, lost, late, faults>>
      BY <1>5 DEF Record3ds
    <2> QED
      BY <2>1, <2>2, <2>3, <2>4 DEF TypeOK
  <1> QED
    BY <1>1, <1>2, <1>3, <1>4, <1>5 DEF Initiate

LEMMA CallbackType ==
    ASSUME TypeOK, NEW h \in Handlers, NEW p \in Payments, Callback(h, p),
           UNCHANGED <<gateway, transfers>>
    PROVE  TypeOK'
  <1> USE DEF Entries, Operations, Points
  <1>1. CASE BeginCallback(h, p)
    <2>1. job' \in [Handlers \cup Workers -> Jobs \cup {Idle}]
      BY <1>1, GoEffect DEF BeginCallback
    <2> QED
      BY <1>1, <2>1 DEF BeginCallback, TypeOK
  <1>2. CASE Complete(h, p)
    <2>1. job' \in [Handlers \cup Workers -> Jobs \cup {Idle}]
      BY <1>2, GoEffect DEF Complete
    <2>2. lost' \subseteq Payments /\ faults' \in Nat
      BY <1>2 DEF Complete, Loses, Fault, TypeOK
    <2>3. UnchangedDb /\ UNCHANGED <<provider, calls, late>>
      BY <1>2 DEF Complete
    <2> QED
      BY <2>1, <2>2, <2>3 DEF UnchangedDb, TypeOK
  <1>3. CASE EndCallback(h, p)
    <2>1. /\ Return(h) /\ UNCHANGED <<provider, calls, lost, late, faults>>
          /\ \/ Provisioned(p, "PAYMENT_PROVISIONED")
             \/ /\ Record(p, "THREE_DS_FAILED")
                /\ posTx' = [posTx EXCEPT ![p] = @ \cup {"failed"}]
                /\ UNCHANGED deposit
      BY <1>3 DEF EndCallback
    <2>2. job' \in [Handlers \cup Workers -> Jobs \cup {Idle}]
      BY <2>1, ReturnEffect
    <2>3. status' \in [Payments -> Statuses] /\ ledger' \in [Payments -> Seq(LedgerEvents)]
      BY <2>1, RecordEffect, ProvisionedEffect DEF UnchangedDb, TypeOK
    <2>4. /\ posTx' \in [Payments -> SUBSET {"provisioned", "failed", "captured"}]
          /\ deposit' \in Payments \cup {None, Earlier}
      <3>1. CASE Provisioned(p, "PAYMENT_PROVISIONED")
        BY <3>1, ProvisionedType
      <3>2. CASE posTx' = [posTx EXCEPT ![p] = @ \cup {"failed"}] /\ UNCHANGED deposit
        BY <3>2, PosTxType DEF TypeOK
      <3> QED
        BY <2>1, <3>1, <3>2
    <2> QED
      BY <2>1, <2>2, <2>3, <2>4 DEF TypeOK
  <1> QED
    BY <1>1, <1>2, <1>3 DEF Callback

LEMMA EndingType ==
    ASSUME TypeOK, NEW h \in Handlers, NEW p \in Payments, Ending(h, p),
           UNCHANGED <<gateway, transfers>>
    PROVE  TypeOK'
  <1> USE DEF Entries, Operations, Points
  <1> PICK op \in Ops : BeginEnding(h, p, op) \/ CallEnding(h, p, op) \/ EndEnding(h, p, op)
    BY DEF Ending, Ops
  <1>0. op \in Operations
    BY DEF Ops
  <1>1. CASE BeginEnding(h, p, op)
    <2>1. job' \in [Handlers \cup Workers -> Jobs \cup {Idle}]
      BY <1>0, <1>1, GoEffect DEF BeginEnding
    <2> QED
      BY <1>1, <2>1 DEF BeginEnding, TypeOK
  <1>2. CASE CallEnding(h, p, op)
    <2>1. job' \in [Handlers \cup Workers -> Jobs \cup {Idle}]
      BY <1>0, <1>2, GoEffect DEF CallEnding
    <2>2. lost' \subseteq Payments /\ faults' \in Nat
      BY <1>2 DEF CallEnding, Loses, Fault, TypeOK
    <2>3. Ended[op] \in ProviderStates
      BY DEF Ended, Ops, ProviderStates
    <2>4. provider' \in [Payments -> ProviderStates]
      BY <1>2, <2>3 DEF CallEnding, TypeOK
    <2>5. UnchangedDb /\ UNCHANGED <<calls, late>>
      BY <1>2 DEF CallEnding
    <2> QED
      BY <2>1, <2>2, <2>4, <2>5 DEF UnchangedDb, TypeOK
  <1>3. CASE EndEnding(h, p, op)
    <2>1. /\ Return(h) /\ UNCHANGED <<provider, calls, lost, late, faults>>
          /\ \/ /\ \E event \in Entries : Record(p, event)
                /\ posTx' \in {posTx, [posTx EXCEPT ![p] = @ \cup {"captured"}]}
                /\ UNCHANGED deposit
             \/ UnchangedDb
      BY <1>3 DEF EndEnding
    <2>2. job' \in [Handlers \cup Workers -> Jobs \cup {Idle}]
      BY <2>1, ReturnEffect
    <2>3. status' \in [Payments -> Statuses] /\ ledger' \in [Payments -> Seq(LedgerEvents)]
      BY <2>1, RecordEffect DEF UnchangedDb, TypeOK
    <2>4. /\ posTx' \in [Payments -> SUBSET {"provisioned", "failed", "captured"}]
          /\ deposit' \in Payments \cup {None, Earlier}
      BY <2>1 DEF UnchangedDb, TypeOK
    <2> QED
      BY <2>1, <2>2, <2>3, <2>4 DEF TypeOK
  <1> QED
    BY <1>1, <1>2, <1>3

LEMMA ReconcileType ==
    ASSUME TypeOK, NEW w \in Workers, NEW p \in Payments, Reconcile(w, p),
           UNCHANGED <<gateway, transfers>>
    PROVE  TypeOK'
  <1> USE DEF Entries, Operations, Points
  <1>1. CASE List(w, p)
    <2>1. job' \in [Handlers \cup Workers -> Jobs \cup {Idle}]
      BY <1>1, GoEffect DEF List
    <2> QED
      BY <1>1, <2>1 DEF List, TypeOK
  <1>2. CASE Query(w, p)
    <2>1. job' \in [Handlers \cup Workers -> Jobs \cup {Idle}]
      <3>1. Found(p) \in Points
        BY DEF Found
      <3>2. Return(w) \/ Go(w, "reconcile", p, "not found") \/ Go(w, "reconcile", p, Found(p))
        BY <1>2 DEF Query
      <3> QED
        BY <3>1, <3>2, GoEffect, ReturnEffect
    <2>2. lost' \subseteq Payments /\ faults' \in Nat
      <3>1. UNCHANGED <<lost, faults>> \/ Loses(p)
        BY <1>2 DEF Query
      <3> QED
        BY <3>1 DEF Loses, Fault, TypeOK
    <2>3. UnchangedDb /\ UNCHANGED <<provider, calls, late>>
      BY <1>2 DEF Query
    <2> QED
      BY <2>1, <2>2, <2>3 DEF UnchangedDb, TypeOK
  <1>3. CASE Resolve(w, p)
    <2>1. job' \in [Handlers \cup Workers -> Jobs \cup {Idle}]
      BY <1>3, ReturnEffect DEF Resolve
    <2>2. status' \in [Payments -> Statuses] /\ ledger' \in [Payments -> Seq(LedgerEvents)]
      BY <1>3, RecordEffect DEF Resolve, TypeOK
    <2>3. UNCHANGED <<posTx, deposit, provider, calls, lost, late, faults>>
      BY <1>3 DEF Resolve
    <2> QED
      BY <2>1, <2>2, <2>3 DEF TypeOK
  <1> QED
    BY <1>1, <1>2, <1>3 DEF Reconcile

LEMMA TypeStep ==
    ASSUME TypeOK, [Next]_vars
    PROVE  TypeOK'
  <1>1. CASE UNCHANGED vars
    BY <1>1 DEF vars, paymentVars, TypeOK
  <1>2. ASSUME NEW h \in Handlers \cup Workers, Interrupt(h), UNCHANGED <<gateway, transfers>> PROVE TypeOK'
    <2>1. job' \in [Handlers \cup Workers -> Jobs \cup {Idle}]
      BY <1>2, ReturnEffect DEF Interrupt
    <2>2. lost' \subseteq Payments /\ faults' \in Nat
      <3>1. job[h] \in Jobs
        BY <1>2 DEF Interrupt, TypeOK
      <3>2. job[h].pay \in Payments
        BY <3>1 DEF Jobs
      <3>3. lost' \in {lost, lost \cup {job[h].pay}} /\ faults' = faults + 1
        BY <1>2 DEF Interrupt, Fault
      <3> QED
        BY <3>2, <3>3 DEF TypeOK
    <2>3. UnchangedDb /\ UNCHANGED <<provider, calls, late>>
      BY <1>2 DEF Interrupt
    <2> QED
      BY <1>2, <2>1, <2>2, <2>3 DEF UnchangedDb, TypeOK
  <1>3. ASSUME NEW p \in Payments, Decide(p), UNCHANGED <<gateway, transfers>> PROVE TypeOK'
    BY <1>3 DEF Decide, ProviderStates, TypeOK
  <1>4. ASSUME NEW p \in Payments, VerifyTransfer(p), UNCHANGED <<gateway, transfers>> PROVE TypeOK'
    BY <1>4 DEF VerifyTransfer, Statuses, TypeOK
  <1> QED
    BY <1>1, <1>2, <1>3, <1>4, InitiateType, CallbackType, EndingType, ReconcileType DEF Next

-----------------------------------------------------------------------------
(* Who changes what. *)

\* A status is set for one payment, with or without its row.
LEMMA OnlyRecorded ==
    ASSUME TypeOK, NEW q \in Payments, NEW p \in Payments, status'[p] # status[p],
           NEW event \in Entries, Record(q, event)
    PROVE  q = p /\ status'[p] = StatusAfter[event]
  BY RecordEffect

\* The steps that give p another status.
StatusSet(p) ==
    \/ \E h \in Handlers :
         \/ Create(h, p) /\ status[p] = "none" /\ status'[p] = "pending"
         \/ /\ RecordResult(h, p) /\ ~Locked(p)
            /\ status[p] = "pending" /\ status'[p] \in {"provisioned", "failed"}
         \/ /\ Record3ds(h, p) /\ ~Locked(p)
            /\ status[p] = "pending" /\ status'[p] = "awaiting_3ds"
         \/ /\ EndCallback(h, p) /\ job[h].op = "callback" /\ job[h].pay = p
            /\ status'[p] \in {"provisioned", "failed"}
         \/ /\ EndEnding(h, p, "capture") /\ IsAt(h, "capture", "yes") /\ job[h].pay = p
            /\ status'[p] = "completed"
         \/ /\ EndEnding(h, p, "cancel") /\ IsAt(h, "cancel", "yes") /\ job[h].pay = p
            /\ status'[p] = "cancelled"
    \/ \E w \in Workers :
         /\ Resolve(w, p) /\ ~Locked(p) /\ StillOpen(p)
         /\ status'[p] \in {"provisioned", "failed"}
    \/ VerifyTransfer(p) /\ ~Locked(p) /\ status[p] = "pending" /\ status'[p] = "completed"

LEMMA StatusStep ==
    ASSUME TypeOK, [Next]_vars, NEW p \in Payments, status'[p] # status[p]
    PROVE  StatusSet(p)
  <1> USE DEF Entries
  <1>1. ASSUME NEW h \in Handlers, NEW q \in Payments, Create(h, q)
        PROVE  q = p /\ status[p] = "none" /\ status'[p] = "pending"
    <2>1. IsNew(q) /\ Record(q, "PAYMENT_INITIATED")
      BY <1>1 DEF Create
    <2> QED
      BY <2>1, OnlyRecorded, StatusAfterValues DEF IsNew
  <1>2. ASSUME NEW h \in Handlers, NEW q \in Payments, RecordResult(h, q)
        PROVE  /\ q = p /\ ~Locked(p) /\ status[p] = "pending"
               /\ status'[p] \in {"provisioned", "failed"}
    <2>1. /\ ~Locked(q) /\ Unrecorded(q)
          /\ Record(q, "PAYMENT_PROVISIONED") \/ Record(q, "PAYMENT_FAILED")
      BY <1>2, ProvisionedEffect DEF RecordResult, UnchangedDb
    <2> QED
      BY <2>1, OnlyRecorded, StatusAfterValues DEF Unrecorded
  <1>3. ASSUME NEW h \in Handlers, NEW q \in Payments, Record3ds(h, q)
        PROVE  /\ q = p /\ ~Locked(p) /\ status[p] = "pending" /\ status'[p] = "awaiting_3ds"
    <2>1. ~Locked(q) /\ status[q] = "pending" /\ Record(q, "THREE_DS_INITIATED")
      BY <1>3 DEF Record3ds
    <2> QED
      BY <2>1, OnlyRecorded, StatusAfterValues
  <1>4. ASSUME NEW h \in Handlers, NEW q \in Payments, EndCallback(h, q)
        PROVE  /\ q = p /\ job[h].op = "callback" /\ job[h].pay = p
               /\ status'[p] \in {"provisioned", "failed"}
    <2>1. /\ job[h].op = "callback" /\ job[h].pay = q
          /\ Record(q, "PAYMENT_PROVISIONED") \/ Record(q, "THREE_DS_FAILED")
      BY <1>4, ProvisionedEffect DEF EndCallback, UnchangedDb, IsAt
    <2> QED
      BY <2>1, OnlyRecorded, StatusAfterValues
  <1>5. ASSUME NEW h \in Handlers, NEW q \in Payments, EndEnding(h, q, "capture")
        PROVE  /\ q = p /\ IsAt(h, "capture", "yes") /\ job[h].pay = p
               /\ status'[p] = "completed"
    <2>1. IsAt(h, "capture", "yes") /\ job[h].pay = q /\ Record(q, "PAYMENT_CAPTURED")
      BY <1>5 DEF EndEnding, UnchangedDb
    <2> QED
      BY <2>1, OnlyRecorded, StatusAfterValues
  <1>6. ASSUME NEW h \in Handlers, NEW q \in Payments, EndEnding(h, q, "cancel")
        PROVE  /\ q = p /\ IsAt(h, "cancel", "yes") /\ job[h].pay = p
               /\ status'[p] = "cancelled"
    <2>1. /\ IsAt(h, "cancel", "yes") /\ job[h].pay = q
          /\ Record(q, "PAYMENT_PROVISION_CANCELLED")
      BY <1>6 DEF EndEnding, UnchangedDb
    <2> QED
      BY <2>1, OnlyRecorded, StatusAfterValues
  <1>7. ASSUME NEW w \in Workers, NEW q \in Payments, Resolve(w, q)
        PROVE  /\ q = p /\ ~Locked(p) /\ StillOpen(p)
               /\ status'[p] \in {"provisioned", "failed"}
    <2>1. /\ ~Locked(q) /\ StillOpen(q)
          /\ Record(q, "MARKED_PROVISIONED") \/ Record(q, "MARKED_FAILED")
      BY <1>7 DEF Resolve
    <2> QED
      BY <2>1, OnlyRecorded, StatusAfterValues
  <1>8. ASSUME NEW q \in Payments, VerifyTransfer(q)
        PROVE  q = p /\ ~Locked(p) /\ status[p] = "pending" /\ status'[p] = "completed"
    BY <1>8 DEF VerifyTransfer, TypeOK
  <1>9. ASSUME NEW h \in Handlers \cup Workers, NEW q \in Payments,
               \/ Check(h, q) \/ Provision(h, q) \/ BeginCallback(h, q) \/ Complete(h, q)
               \/ BeginEnding(h, q, "capture") \/ CallEnding(h, q, "capture")
               \/ BeginEnding(h, q, "cancel") \/ CallEnding(h, q, "cancel")
               \/ List(h, q) \/ Query(h, q)
        PROVE  FALSE
    BY <1>9 DEF Check, Provision, BeginCallback, Complete, BeginEnding, CallEnding, List, Query,
        UnchangedDb
  <1>10. ASSUME NEW h \in Handlers \cup Workers, Interrupt(h) PROVE FALSE
    BY <1>10 DEF Interrupt, UnchangedDb
  <1>11. ASSUME NEW h \in Handlers, NEW q \in Payments, Initiate(h, q) PROVE StatusSet(p)
    BY <1>1, <1>2, <1>3, <1>9, <1>11 DEF Initiate, StatusSet
  <1>12. ASSUME NEW h \in Handlers, NEW q \in Payments, Callback(h, q) PROVE StatusSet(p)
    BY <1>4, <1>9, <1>12 DEF Callback, StatusSet
  <1>13. ASSUME NEW h \in Handlers, NEW q \in Payments, Ending(h, q) PROVE StatusSet(p)
    BY <1>5, <1>6, <1>9, <1>13 DEF Ending, StatusSet
  <1>14. ASSUME NEW w \in Workers, NEW q \in Payments, Reconcile(w, q) PROVE StatusSet(p)
    BY <1>7, <1>9, <1>14 DEF Reconcile, StatusSet
  <1>15. ASSUME NEW q \in Payments, Decide(q) \/ VerifyTransfer(q) PROVE StatusSet(p)
    <2>1. ~Decide(q)
      BY DEF Decide
    <2> QED
      BY <1>8, <1>15, <2>1 DEF StatusSet
  <1> QED
    BY <1>10, <1>11, <1>12, <1>13, <1>14, <1>15 DEF Next, vars, paymentVars

\* Handler h is at a step of an operation on p.
Doing(h, op, p, steps) == job[h].op = op /\ job[h].pay = p /\ job[h].at \in steps

\* The steps that take handler h to another job.
JobSet(h) ==
    \/ job'[h].op = "idle" /\ job'[h].pay = None
    \/ \E p \in Payments :
         \/ Check(h, p) /\ Doing(h, "initiate", p, {"missed"})'
         \/ /\ Create(h, p) /\ status[p] = "none" /\ status'[p] = "pending"
            /\ Doing(h, "initiate", p, {"calling"})'
         \/ /\ Provision(h, p) /\ Doing(h, "initiate", p, {"completed", "requires_3ds", "failed"})'
            /\ job'[h].at = "completed" => gateway = "asked" /\ provider'[p] = "paid"
         \/ /\ BeginCallback(h, p) /\ Doing(h, "callback", p, {"calling"})'
            /\ ~Locked(p) /\ status[p] = "awaiting_3ds"
         \/ /\ Complete(h, p) /\ Doing(h, "callback", p, {"calling"})
            /\ Doing(h, "callback", p, {"yes", "no"})'
            /\ job'[h].at = "yes" => provider[p] = "paid"
         \/ \E op \in Ops :
              /\ BeginEnding(h, p, op) /\ Doing(h, op, p, {"calling"})'
              /\ ~Locked(p) /\ status[p] = "provisioned" /\ "provisioned" \in posTx[p]
         \/ \E op \in Ops :
              /\ CallEnding(h, p, op) /\ Doing(h, op, p, {"calling"})
              /\ Doing(h, op, p, {"yes", "no"})'
              /\ job'[h].at = "yes" =>
                     IF gateway = "PayTR" THEN UNCHANGED provider ELSE provider'[p] = Ended[op]
              /\ job'[h].at = "no" => p \in lost' \/ UNCHANGED provider

LEMMA GoSets ==
    ASSUME TypeOK, NEW g \in Handlers \cup Workers, NEW op, NEW p, NEW at, Go(g, op, p, at)
    PROVE  /\ job'[g] = [op |-> op, pay |-> p, at |-> at]
           /\ job'[g].op = op /\ job'[g].pay = p /\ job'[g].at = at
  <1>1. job' = [job EXCEPT ![g] = [op |-> op, pay |-> p, at |-> at]]
    BY DEF Go
  <1>2. job'[g] = [op |-> op, pay |-> p, at |-> at]
    BY <1>1 DEF TypeOK
  <1> QED
    BY <1>2

LEMMA GoDoes ==
    ASSUME TypeOK, NEW h \in Handlers, job'[h] # job[h],
           NEW g \in Handlers, NEW op, NEW p, NEW at, Go(g, op, p, at)
    PROVE  g = h /\ job'[h].op = op /\ job'[h].pay = p /\ job'[h].at = at
  <1>1. job' = [job EXCEPT ![g] = [op |-> op, pay |-> p, at |-> at]]
    BY DEF Go
  <1>2. g = h /\ job'[h] = [op |-> op, pay |-> p, at |-> at]
    BY <1>1 DEF TypeOK
  <1> QED
    BY <1>2

LEMMA JobStep ==
    ASSUME TypeOK, [Next]_vars, NEW h \in Handlers, job'[h] # job[h]
    PROVE  JobSet(h)
  <1> USE DEF Operations, Points
  <1>1. ASSUME NEW g \in Handlers, NEW p \in Payments, Check(g, p) PROVE JobSet(h)
    <2>1. Go(g, "initiate", p, "missed")
      BY <1>1 DEF Check
    <2>2. g = h /\ Doing(h, "initiate", p, {"missed"})'
      BY <2>1, GoDoes DEF Doing
    <2> QED
      BY <1>1, <2>2 DEF JobSet
  <1>2. ASSUME NEW g \in Handlers, NEW p \in Payments, Create(g, p) PROVE JobSet(h)
    <2>1. \/ Return(g)
          \/ /\ status[p] = "none" /\ Record(p, "PAYMENT_INITIATED")
             /\ Go(g, "initiate", p, "calling")
      BY <1>2 DEF Create, IsNew
    <2>2. CASE Return(g)
      BY <2>2, ReturnEffect DEF JobSet
    <2>3. ASSUME status[p] = "none", Record(p, "PAYMENT_INITIATED"), Go(g, "initiate", p, "calling")
          PROVE  JobSet(h)
      <3>1. g = h /\ Doing(h, "initiate", p, {"calling"})'
        BY <2>3, GoDoes DEF Doing
      <3>2. status'[p] = "pending"
        BY <2>3, StatusAfterValues DEF Record, TypeOK
      <3> QED
        BY <1>2, <2>3, <3>1, <3>2 DEF JobSet
    <2> QED
      BY <2>1, <2>2, <2>3
  <1>3. ASSUME NEW g \in Handlers, NEW p \in Payments, Provision(g, p) PROVE JobSet(h)
    <2>1. PICK o \in Outcomes :
            /\ provider' = [provider EXCEPT ![p] = o.made]
            /\ Go(g, "initiate", p, o.answer) \/ Go(g, "initiate", p, "failed")
      BY <1>3 DEF Provision
    <2>2. /\ o.answer \in {"completed", "requires_3ds", "failed"}
          /\ o.answer = "completed" => gateway = "asked" /\ o.made = "paid"
      BY DEF Outcomes
    <2>3. provider'[p] = o.made
      BY <2>1 DEF TypeOK
    <2>4. ASSUME NEW at \in {"failed", o.answer}, Go(g, "initiate", p, at)
          PROVE  /\ g = h /\ Doing(h, "initiate", p, {"completed", "requires_3ds", "failed"})'
                 /\ job'[h].at = "completed" => gateway = "asked" /\ provider'[p] = "paid"
      <3>1. at \in Points
        BY <2>2
      <3>2. g = h /\ job'[h].op = "initiate" /\ job'[h].pay = p /\ job'[h].at = at
        BY <2>4, <3>1, GoDoes
      <3> QED
        BY <2>2, <2>3, <3>2 DEF Doing
    <2> QED
      BY <1>3, <2>1, <2>4 DEF JobSet
  <1>4. ASSUME NEW g \in Handlers, NEW p \in Payments, BeginCallback(g, p) PROVE JobSet(h)
    <2>1. Go(g, "callback", p, "calling") /\ ~Locked(p) /\ status[p] = "awaiting_3ds"
      BY <1>4 DEF BeginCallback
    <2>2. g = h /\ Doing(h, "callback", p, {"calling"})'
      BY <2>1, GoDoes DEF Doing
    <2> QED
      BY <1>4, <2>1, <2>2 DEF JobSet
  <1>5. ASSUME NEW g \in Handlers, NEW p \in Payments, Complete(g, p) PROVE JobSet(h)
    <2>1. /\ IsAt(g, "callback", "calling") /\ job[g].pay = p
          /\ \/ Go(g, "callback", p, "no")
             \/ Go(g, "callback", p, "yes") /\ provider[p] = "paid"
      BY <1>5 DEF Complete
    <2>2. /\ g = h /\ Doing(h, "callback", p, {"yes", "no"})'
          /\ job'[h].at = "yes" => provider[p] = "paid"
      <3>1. CASE Go(g, "callback", p, "no")
        <4>1. g = h /\ job'[h].op = "callback" /\ job'[h].pay = p /\ job'[h].at = "no"
          BY <3>1, GoDoes
        <4> QED
          BY <4>1 DEF Doing
      <3>2. CASE Go(g, "callback", p, "yes") /\ provider[p] = "paid"
        <4>1. g = h /\ job'[h].op = "callback" /\ job'[h].pay = p /\ job'[h].at = "yes"
          BY <3>2, GoDoes
        <4> QED
          BY <3>2, <4>1 DEF Doing
      <3> QED
        BY <2>1, <3>1, <3>2
    <2>3. Doing(h, "callback", p, {"calling"})
      BY <2>1, <2>2 DEF Doing, IsAt
    <2> QED
      BY <1>5, <2>2, <2>3 DEF JobSet
  <1>6. ASSUME NEW g \in Handlers, NEW p \in Payments, NEW op \in Ops, BeginEnding(g, p, op)
        PROVE  JobSet(h)
    <2>1. g = h /\ Doing(h, op, p, {"calling"})'
      <3>1. op \in Operations /\ Go(g, op, p, "calling")
        BY <1>6 DEF BeginEnding, Ops
      <3>2. g = h /\ job'[h].op = op /\ job'[h].pay = p /\ job'[h].at = "calling"
        BY <3>1, GoDoes
      <3> QED
        BY <3>2 DEF Doing
    <2>2. ~Locked(p) /\ status[p] = "provisioned" /\ "provisioned" \in posTx[p]
      BY <1>6 DEF BeginEnding
    <2> QED
      BY <1>6, <2>1, <2>2 DEF JobSet
  <1>7. ASSUME NEW g \in Handlers, NEW p \in Payments, NEW op \in Ops, CallEnding(g, p, op)
        PROVE  JobSet(h)
    <2>1. /\ IsAt(g, op, "calling") /\ job[g].pay = p
          /\ \/ /\ gateway = "asked" /\ Go(g, op, p, "yes")
                /\ provider' = [provider EXCEPT ![p] = Ended[op]]
             \/ gateway = "PayTR" /\ Go(g, op, p, "yes") /\ UNCHANGED provider
             \/ Go(g, op, p, "no") /\ Loses(p)
             \/ Go(g, op, p, "no") /\ UNCHANGED provider
      BY <1>7 DEF CallEnding
    <2>2. op \in Operations
      BY DEF Ops
    <2>3. ASSUME NEW at \in {"yes", "no"}, Go(g, op, p, at)
          PROVE  g = h /\ Doing(h, op, p, {"yes", "no"})' /\ job'[h].at = at
      <3>1. g = h /\ job'[h].op = op /\ job'[h].pay = p /\ job'[h].at = at
        BY <2>2, <2>3, GoDoes
      <3> QED
        BY <3>1 DEF Doing
    <2>4. Doing(h, op, p, {"calling"})
      BY <2>1, <2>3 DEF Doing, IsAt
    <2>5. job'[h].at = "yes" =>
              IF gateway = "PayTR" THEN UNCHANGED provider ELSE provider'[p] = Ended[op]
      BY <2>1, <2>3 DEF TypeOK
    <2>6. job'[h].at = "no" => p \in lost' \/ UNCHANGED provider
      BY <2>1, <2>3 DEF Loses
    <2>7. g = h /\ Doing(h, op, p, {"yes", "no"})'
      BY <2>1, <2>3
    <2> QED
      BY <1>7, <2>4, <2>5, <2>6, <2>7 DEF JobSet
  <1>8. ASSUME NEW g \in Handlers \cup Workers, Return(g) PROVE JobSet(h)
    BY <1>8, ReturnEffect DEF JobSet
  <1>9. ASSUME NEW w \in Workers, NEW p \in Payments, NEW at, Go(w, "reconcile", p, at) PROVE FALSE
    BY <1>9, PaymentsAssumption DEF Go, TypeOK
  <1>10. ASSUME NEW w \in Workers, NEW p \in Payments, Reconcile(w, p) PROVE JobSet(h)
    BY <1>8, <1>9, <1>10 DEF Reconcile, List, Query, Resolve
  <1>11. ASSUME NEW g \in Handlers, NEW p \in Payments, Initiate(g, p) PROVE JobSet(h)
    BY <1>1, <1>2, <1>3, <1>8, <1>11 DEF Initiate, RecordResult, Record3ds
  <1>12. ASSUME NEW g \in Handlers, NEW p \in Payments, Callback(g, p) PROVE JobSet(h)
    BY <1>4, <1>5, <1>8, <1>12 DEF Callback, EndCallback
  <1>13. ASSUME NEW g \in Handlers, NEW p \in Payments, Ending(g, p) PROVE JobSet(h)
    BY <1>6, <1>7, <1>8, <1>13 DEF Ending, EndEnding, Ops
  <1>14. ASSUME NEW p \in Payments, Decide(p) \/ VerifyTransfer(p) PROVE FALSE
    BY <1>14 DEF Decide, VerifyTransfer
  <1>15. ASSUME NEW g \in Handlers \cup Workers, Interrupt(g) PROVE JobSet(h)
    BY <1>8, <1>15 DEF Interrupt
  <1> QED
    BY <1>10, <1>11, <1>12, <1>13, <1>14, <1>15 DEF Next, vars, paymentVars

\* The steps by which the provider has something else of p.
ProviderSet(p) ==
    \/ \E h \in Handlers :
         \/ /\ Provision(h, p) /\ Asks(h, p) /\ job'[h].at # "calling"
            /\ calls'[p] = calls[p] + 1 /\ provider'[p] \in {"paid", "form", "declined"}
         \/ Record3ds(h, p) /\ provider[p] = "form" /\ provider'[p] = "shown"
         \/ \E op \in Ops :
              /\ CallEnding(h, p, op) /\ Doing(h, op, p, {"calling"})
              /\ Doing(h, op, p, {"yes", "no"})'
              /\ gateway = "asked" /\ provider'[p] = Ended[op]
    \/ Decide(p) /\ provider[p] \in {"form", "shown"} /\ provider'[p] \in {"paid", "declined"}

LEMMA ProviderStep ==
    ASSUME TypeOK, [Next]_vars, NEW p \in Payments, provider'[p] # provider[p] \/ calls'[p] # calls[p]
    PROVE  ProviderSet(p)
  <1>1. ASSUME NEW h \in Handlers, NEW q \in Payments, Provision(h, q) PROVE ProviderSet(p)
    <2>1. /\ IsAt(h, "initiate", "calling") /\ job[h].pay = q
          /\ calls' = [calls EXCEPT ![q] = @ + 1]
          /\ \E o \in Outcomes : provider' = [provider EXCEPT ![q] = o.made]
      BY <1>1 DEF Provision
    <2>2. \A o \in Outcomes : o.made \in {"paid", "form", "declined"}
      BY DEF Outcomes
    <2>3. q = p /\ calls'[p] = calls[p] + 1 /\ provider'[p] \in {"paid", "form", "declined"}
      BY <2>1, <2>2 DEF TypeOK
    <2>4. PICK o \in Outcomes : Go(h, "initiate", q, o.answer) \/ Go(h, "initiate", q, "failed")
      BY <1>1 DEF Provision
    <2>5. o.answer # "calling"
      BY DEF Outcomes
    <2>6. job'[h].at # "calling"
      <3>1. PICK at : Go(h, "initiate", q, at) /\ at # "calling"
        BY <2>4, <2>5
      <3>2. job'[h].at = at
        BY <3>1, GoSets, Zenon
      <3> QED
        BY <3>1, <3>2
    <2> QED
      BY <1>1, <2>1, <2>3, <2>6 DEF ProviderSet, Asks
  <1>2. ASSUME NEW h \in Handlers, NEW q \in Payments, Record3ds(h, q) PROVE ProviderSet(p)
    BY <1>2 DEF Record3ds, ProviderSet, TypeOK
  <1>3. ASSUME NEW h \in Handlers, NEW q \in Payments, NEW op \in Ops, CallEnding(h, q, op)
        PROVE  ProviderSet(p)
    <2>1. /\ IsAt(h, op, "calling") /\ job[h].pay = q /\ calls' = calls
          /\ provider' \in {provider, [provider EXCEPT ![q] = Ended[op]]}
      BY <1>3 DEF CallEnding
    <2>2. q = p /\ provider'[p] = Ended[op] /\ Doing(h, op, p, {"calling"})
      BY <2>1 DEF TypeOK, Doing, IsAt
    <2>5. gateway = "asked"
      BY <1>3, <2>1, <2>2 DEF CallEnding
    <2>3. Go(h, op, p, "yes") \/ Go(h, op, p, "no")
      BY <1>3, <2>2 DEF CallEnding
    <2>4. job'[h].op = op /\ job'[h].pay = p /\ job'[h].at \in {"yes", "no"}
      BY <2>3, GoSets
    <2> QED
      BY <1>3, <2>2, <2>4, <2>5 DEF ProviderSet, Doing
  <1>4. ASSUME NEW q \in Payments, Decide(q) PROVE ProviderSet(p)
    BY <1>4 DEF Decide, ProviderSet, TypeOK
  <1>5. ASSUME UNCHANGED <<provider, calls>> PROVE ProviderSet(p)
    BY <1>5
  <1>6. ASSUME NEW h \in Handlers, NEW q \in Payments, Initiate(h, q) PROVE ProviderSet(p)
    BY <1>1, <1>2, <1>5, <1>6 DEF Initiate, Check, Create, RecordResult
  <1>7. ASSUME NEW h \in Handlers, NEW q \in Payments, Callback(h, q) PROVE ProviderSet(p)
    BY <1>5, <1>7 DEF Callback, BeginCallback, Complete, EndCallback
  <1>8. ASSUME NEW h \in Handlers, NEW q \in Payments, Ending(h, q) PROVE ProviderSet(p)
    BY <1>3, <1>5, <1>8 DEF Ending, BeginEnding, EndEnding, Ops
  <1>9. ASSUME NEW w \in Workers, NEW q \in Payments, Reconcile(w, q) PROVE ProviderSet(p)
    BY <1>5, <1>9 DEF Reconcile, List, Query, Resolve
  <1>10. ASSUME NEW g \in Handlers \cup Workers, Interrupt(g) PROVE ProviderSet(p)
    BY <1>5, <1>10 DEF Interrupt
  <1>11. ASSUME NEW q \in Payments, VerifyTransfer(q) PROVE ProviderSet(p)
    BY <1>5, <1>11 DEF VerifyTransfer
  <1> QED
    BY <1>4, <1>5, <1>6, <1>7, <1>8, <1>9, <1>10, <1>11 DEF Next, vars, paymentVars

\* The provider stays the one that POS_PROVIDER names.
LEMMA GatewayStays ==
    ASSUME [Next]_vars
    PROVE  /\ gateway' = gateway
           /\ Became("captured")' = Became("captured") /\ Became("released")' = Became("released")
  <1>1. gateway' = gateway
    BY DEF Next, vars
  <1> QED
    BY <1>1 DEF Became

LEMMA BecameHeld == Became("captured") \in Held /\ Became("released") \in Held
  BY DEF Became, Held

\* PayTR still captures and releases nothing.
LEMMA NotAskedStep ==
    ASSUME TypeOK, NotAsked, [Next]_vars
    PROVE  NotAsked'
  <1> SUFFICES ASSUME gateway' = "PayTR", NEW p \in Payments
               PROVE  provider'[p] \notin {"captured", "released"}
    BY DEF NotAsked
  <1>1. gateway = "PayTR"
    BY GatewayStays
  <1>2. CASE provider'[p] = provider[p]
    BY <1>1, <1>2 DEF NotAsked
  <1>3. CASE provider'[p] # provider[p]
    BY <1>1, <1>3, ProviderStep DEF ProviderSet
  <1> QED
    BY <1>2, <1>3

\* A step is of one handler or worker.
LEMMA OneJobStep ==
    ASSUME TypeOK, [Next]_vars, NEW g \in Handlers, NEW h \in Handlers,
           job'[g] # job[g], job'[h] # job[h]
    PROVE  g = h
  <1>1. ASSUME NEW k \in Handlers \cup Workers, NEW op, NEW p, NEW at,
               Go(k, op, p, at) \/ Return(k)
        PROVE  g = h
    BY <1>1 DEF Go, Return, TypeOK
  <1>2. ASSUME UNCHANGED job PROVE g = h
    BY <1>2
  <1>3. ASSUME NEW k \in Handlers, NEW p \in Payments, Initiate(k, p) PROVE g = h
    BY <1>1, <1>3 DEF Initiate, Check, Create, Provision, RecordResult, Record3ds
  <1>4. ASSUME NEW k \in Handlers, NEW p \in Payments, Callback(k, p) PROVE g = h
    BY <1>1, <1>4 DEF Callback, BeginCallback, Complete, EndCallback
  <1>5. ASSUME NEW k \in Handlers, NEW p \in Payments, Ending(k, p) PROVE g = h
    BY <1>1, <1>5 DEF Ending, BeginEnding, CallEnding, EndEnding
  <1>6. ASSUME NEW w \in Workers, NEW p \in Payments, Reconcile(w, p) PROVE g = h
    BY <1>1, <1>6 DEF Reconcile, List, Query, Resolve
  <1>7. ASSUME NEW k \in Handlers \cup Workers, Interrupt(k) PROVE g = h
    BY <1>1, <1>7 DEF Interrupt
  <1>8. ASSUME NEW p \in Payments, Decide(p) \/ VerifyTransfer(p) PROVE g = h
    BY <1>2, <1>8 DEF Decide, VerifyTransfer
  <1> QED
    BY <1>2, <1>3, <1>4, <1>5, <1>6, <1>7, <1>8 DEF Next, vars, paymentVars

\* Answers that were lost stay lost.
LEMMA LostStays ==
    ASSUME TypeOK, [Next]_vars
    PROVE  lost \subseteq lost'
  <1>1. ASSUME NEW h \in Handlers, NEW p \in Payments, Initiate(h, p) PROVE lost \subseteq lost'
    BY <1>1 DEF Initiate, Check, Create, Provision, RecordResult, Record3ds, Loses
  <1>2. ASSUME NEW h \in Handlers, NEW p \in Payments, Callback(h, p) PROVE lost \subseteq lost'
    BY <1>2 DEF Callback, BeginCallback, Complete, EndCallback, Loses
  <1>3. ASSUME NEW h \in Handlers, NEW p \in Payments, Ending(h, p) PROVE lost \subseteq lost'
    BY <1>3 DEF Ending, BeginEnding, CallEnding, EndEnding, Loses
  <1>4. ASSUME NEW w \in Workers, NEW p \in Payments, Reconcile(w, p) PROVE lost \subseteq lost'
    BY <1>4 DEF Reconcile, List, Query, Resolve, Loses
  <1>5. ASSUME NEW h \in Handlers \cup Workers, Interrupt(h) PROVE lost \subseteq lost'
    BY <1>5 DEF Interrupt
  <1>6. ASSUME NEW p \in Payments, Decide(p) \/ VerifyTransfer(p) PROVE lost \subseteq lost'
    BY <1>6 DEF Decide, VerifyTransfer
  <1> QED
    BY <1>1, <1>2, <1>3, <1>4, <1>5, <1>6 DEF Next, vars, paymentVars

\* The steps that give p another row in pos_transactions, or take the deposit.
PosTxSet(p) ==
    \/ posTx'[p] = posTx[p] \cup {"failed"}
    \/ /\ posTx'[p] = posTx[p] \cup {"provisioned"}
       /\ \E h \in Handlers : \/ Doing(h, "initiate", p, {"completed"})
                              \/ Doing(h, "callback", p, {"yes"})
    \/ /\ posTx'[p] = posTx[p] \cup {"captured"} /\ status'[p] = "completed"
       /\ \E h \in Handlers : Doing(h, "capture", p, {"yes"})

\* What a transaction that provisions p does, wherever it is.
LEMMA ProvisionedRows ==
    ASSUME TypeOK, NEW q \in Payments, NEW p \in Payments, Provisioned(q, "PAYMENT_PROVISIONED")
    PROVE  /\ posTx'[p] # posTx[p] => q = p /\ posTx'[p] = posTx[p] \cup {"provisioned"}
           /\ deposit' # deposit => deposit = None /\ deposit' = q /\ status'[q] = "provisioned"
  BY ProvisionedEffect, RecordEffect, StatusAfterValues DEF UnchangedDb, Entries, TypeOK

LEMMA PosTxStep ==
    ASSUME TypeOK, [Next]_vars, NEW p \in Payments, posTx'[p] # posTx[p]
    PROVE  PosTxSet(p) /\ UNCHANGED provider
  <1>1. ASSUME NEW h \in Handlers, NEW q \in Payments, RecordResult(h, q)
        PROVE  PosTxSet(p) /\ UNCHANGED provider
    <2>1. CASE Provisioned(q, "PAYMENT_PROVISIONED") /\ job[h].at = "completed"
      <3>1. q = p /\ posTx'[p] = posTx[p] \cup {"provisioned"}
        BY <2>1, ProvisionedRows
      <3>2. Doing(h, "initiate", p, {"completed"}) /\ UNCHANGED provider
        BY <1>1, <2>1, <3>1 DEF RecordResult, Doing
      <3> QED
        BY <3>1, <3>2 DEF PosTxSet
    <2>2. CASE posTx' = [posTx EXCEPT ![q] = @ \cup {"failed"}]
      BY <1>1, <2>2 DEF RecordResult, PosTxSet, TypeOK
    <2> QED
      BY <1>1, <2>1, <2>2 DEF RecordResult, UnchangedDb
  <1>2. ASSUME NEW h \in Handlers, NEW q \in Payments, EndCallback(h, q)
        PROVE  PosTxSet(p) /\ UNCHANGED provider
    <2>1. CASE Provisioned(q, "PAYMENT_PROVISIONED") /\ IsAt(h, "callback", "yes")
      <3>1. q = p /\ posTx'[p] = posTx[p] \cup {"provisioned"}
        BY <2>1, ProvisionedRows
      <3>2. Doing(h, "callback", p, {"yes"}) /\ UNCHANGED provider
        BY <1>2, <2>1, <3>1 DEF EndCallback, Doing, IsAt
      <3> QED
        BY <3>1, <3>2 DEF PosTxSet
    <2>2. CASE posTx' = [posTx EXCEPT ![q] = @ \cup {"failed"}]
      BY <1>2, <2>2 DEF EndCallback, PosTxSet, TypeOK
    <2> QED
      BY <1>2, <2>1, <2>2 DEF EndCallback
  <1>3. ASSUME NEW h \in Handlers, NEW q \in Payments, EndEnding(h, q, "capture")
        PROVE  PosTxSet(p) /\ UNCHANGED provider
    <2>1. /\ IsAt(h, "capture", "yes") /\ job[h].pay = q /\ Record(q, "PAYMENT_CAPTURED")
          /\ posTx' = [posTx EXCEPT ![q] = @ \cup {"captured"}] /\ UNCHANGED provider
      BY <1>3 DEF EndEnding, UnchangedDb
    <2>2. q = p /\ posTx'[p] = posTx[p] \cup {"captured"}
      BY <2>1 DEF TypeOK
    <2>3. status'[p] = "completed"
      BY <2>1, <2>2, StatusAfterValues DEF Record, TypeOK
    <2> QED
      BY <2>1, <2>2, <2>3 DEF PosTxSet, Doing, IsAt
  <1>4. ASSUME NEW h \in Handlers, NEW q \in Payments, EndEnding(h, q, "cancel") PROVE FALSE
    BY <1>4 DEF EndEnding, UnchangedDb
  <1>5. ASSUME NEW h \in Handlers, NEW q \in Payments, Initiate(h, q)
        PROVE  PosTxSet(p) /\ UNCHANGED provider
    BY <1>1, <1>5 DEF Initiate, Check, Create, Provision, Record3ds, UnchangedDb
  <1>6. ASSUME NEW h \in Handlers, NEW q \in Payments, Callback(h, q)
        PROVE  PosTxSet(p) /\ UNCHANGED provider
    BY <1>2, <1>6 DEF Callback, BeginCallback, Complete, UnchangedDb
  <1>7. ASSUME NEW h \in Handlers, NEW q \in Payments, Ending(h, q)
        PROVE  PosTxSet(p) /\ UNCHANGED provider
    BY <1>3, <1>4, <1>7 DEF Ending, BeginEnding, CallEnding, UnchangedDb
  <1>8. ASSUME NEW w \in Workers, NEW q \in Payments, Reconcile(w, q) PROVE FALSE
    BY <1>8 DEF Reconcile, List, Query, Resolve, UnchangedDb
  <1>9. ASSUME NEW h \in Handlers \cup Workers, Interrupt(h) PROVE FALSE
    BY <1>9 DEF Interrupt, UnchangedDb
  <1>10. ASSUME NEW q \in Payments, Decide(q) \/ VerifyTransfer(q) PROVE FALSE
    BY <1>10 DEF Decide, VerifyTransfer
  <1> QED
    BY <1>5, <1>6, <1>7, <1>8, <1>9, <1>10 DEF Next, vars, paymentVars

LEMMA DepositStep ==
    ASSUME TypeOK, [Next]_vars, deposit' # deposit
    PROVE  \E p \in Payments :
             /\ deposit' = p /\ UNCHANGED <<provider, transfers>>
             /\ \/ /\ status'[p] = "provisioned"
                   /\ \E h \in Handlers : \/ Doing(h, "initiate", p, {"completed"})
                                          \/ Doing(h, "callback", p, {"yes"})
                \/ p \in transfers /\ status'[p] = "completed"
  <1> DEFINE Goal == \E p \in Payments :
             /\ deposit' = p /\ UNCHANGED <<provider, transfers>>
             /\ \/ /\ status'[p] = "provisioned"
                   /\ \E h \in Handlers : \/ Doing(h, "initiate", p, {"completed"})
                                          \/ Doing(h, "callback", p, {"yes"})
                \/ p \in transfers /\ status'[p] = "completed"
  <1>0. transfers' = transfers
    BY DEF Next, vars
  <1>1. ASSUME NEW h \in Handlers, NEW q \in Payments, RecordResult(h, q) PROVE Goal
    <2>1. Provisioned(q, "PAYMENT_PROVISIONED") /\ job[h].at = "completed" /\ UNCHANGED provider
          /\ job[h].op = "initiate" /\ job[h].pay = q
      BY <1>1 DEF RecordResult, UnchangedDb
    <2> QED
      BY <1>0, <2>1, ProvisionedRows DEF Doing
  <1>2. ASSUME NEW h \in Handlers, NEW q \in Payments, EndCallback(h, q) PROVE Goal
    <2>1. Provisioned(q, "PAYMENT_PROVISIONED") /\ IsAt(h, "callback", "yes") /\ UNCHANGED provider
          /\ job[h].pay = q
      BY <1>2 DEF EndCallback
    <2> QED
      BY <1>0, <2>1, ProvisionedRows DEF Doing, IsAt
  <1>3. ASSUME NEW q \in Payments, VerifyTransfer(q) PROVE Goal
    BY <1>0, <1>3 DEF VerifyTransfer, TypeOK
  <1>4. ASSUME NEW h \in Handlers, NEW q \in Payments, Initiate(h, q) PROVE Goal
    BY <1>1, <1>4 DEF Initiate, Check, Create, Provision, Record3ds, UnchangedDb
  <1>5. ASSUME NEW h \in Handlers, NEW q \in Payments, Callback(h, q) PROVE Goal
    BY <1>2, <1>5 DEF Callback, BeginCallback, Complete, UnchangedDb
  <1>6. ASSUME NEW h \in Handlers, NEW q \in Payments, Ending(h, q) PROVE FALSE
    BY <1>6 DEF Ending, BeginEnding, CallEnding, EndEnding, UnchangedDb
  <1>7. ASSUME NEW w \in Workers, NEW q \in Payments, Reconcile(w, q) PROVE FALSE
    BY <1>7 DEF Reconcile, List, Query, Resolve, UnchangedDb
  <1>8. ASSUME NEW h \in Handlers \cup Workers, Interrupt(h) PROVE FALSE
    BY <1>8 DEF Interrupt, UnchangedDb
  <1>9. ASSUME NEW q \in Payments, Decide(q) PROVE FALSE
    BY <1>9 DEF Decide
  <1> QED
    BY <1>3, <1>4, <1>5, <1>6, <1>7, <1>8, <1>9 DEF Next, vars, paymentVars

\* How the lock of p is released.
LEMMA ReleaseStep ==
    ASSUME TypeOK, [Next]_vars, NEW h \in Handlers, NEW p \in Payments, Holds(h, p), ~Holds(h, p)'
    PROVE  EndCallback(h, p) \/ (\E op \in Ops : EndEnding(h, p, op)) \/ p \in lost'
  <1> DEFINE Goal == EndCallback(h, p) \/ (\E op \in Ops : EndEnding(h, p, op)) \/ p \in lost'
  <1>1. job'[h] # job[h] /\ job[h].op # "initiate" /\ job[h].op # "reconcile" /\ job[h] # Idle
    BY DEF Holds, Idle
  <1>2. ASSUME NEW g \in Handlers \cup Workers, NEW op, NEW q, NEW at, Go(g, op, q, at) \/ Return(g)
        PROVE  g = h
    BY <1>1, <1>2 DEF Go, Return, TypeOK
  <1>3. ASSUME NEW g \in Handlers, NEW q \in Payments, Initiate(g, q) PROVE FALSE
    BY <1>1, <1>2, <1>3
    DEF Initiate, Check, Create, Provision, RecordResult, Record3ds, IsAt
  <1>4. ASSUME NEW g \in Handlers, NEW q \in Payments, BeginCallback(g, q) PROVE FALSE
    BY <1>1, <1>2, <1>4 DEF BeginCallback
  <1>5. ASSUME NEW g \in Handlers, NEW q \in Payments, Complete(g, q) PROVE FALSE
    <2>1. /\ job[g].pay = q
          /\ Go(g, "callback", q, "yes") \/ Go(g, "callback", q, "no")
      BY <1>5 DEF Complete
    <2>2. g = h /\ q = p
      BY <1>2, <2>1 DEF Holds
    <2>3. ASSUME NEW at, Go(h, "callback", p, at) PROVE job'[h].op = "callback" /\ job'[h].pay = p
      BY <2>3, GoSets
    <2> QED
      BY <2>1, <2>2, <2>3 DEF Holds
  <1>6. ASSUME NEW g \in Handlers, NEW q \in Payments, EndCallback(g, q) PROVE Goal
    BY <1>2, <1>6 DEF EndCallback, Holds
  <1>7. ASSUME NEW g \in Handlers, NEW q \in Payments, NEW op \in Ops, BeginEnding(g, q, op)
        PROVE  FALSE
    BY <1>1, <1>2, <1>7 DEF BeginEnding
  <1>8. ASSUME NEW g \in Handlers, NEW q \in Payments, NEW op \in Ops, CallEnding(g, q, op)
        PROVE  FALSE
    <2>1. /\ job[g].pay = q
          /\ Go(g, op, q, "yes") \/ Go(g, op, q, "no")
      BY <1>8 DEF CallEnding
    <2>2. g = h /\ q = p
      BY <1>2, <2>1 DEF Holds
    <2>3. ASSUME NEW at, Go(h, op, p, at) PROVE job'[h].op = op /\ job'[h].pay = p
      BY <2>3, GoSets
    <2> QED
      BY <2>1, <2>2, <2>3 DEF Holds, Ops
  <1>9. ASSUME NEW g \in Handlers, NEW q \in Payments, NEW op \in Ops, EndEnding(g, q, op)
        PROVE  Goal
    BY <1>2, <1>9 DEF EndEnding, Holds
  <1>10. ASSUME NEW w \in Workers, NEW q \in Payments, Reconcile(w, q) PROVE FALSE
    <2>1. w # h
      BY PaymentsAssumption
    <2> QED
      BY <1>2, <1>10, <2>1 DEF Reconcile, List, Query, Resolve
  <1>11. ASSUME NEW g \in Handlers \cup Workers, Interrupt(g) PROVE Goal
    <2>1. g = h /\ job[h].pay = p
      BY <1>2, <1>11 DEF Interrupt, Holds
    <2> QED
      BY <1>1, <1>11, <2>1 DEF Interrupt
  <1>12. ASSUME NEW q \in Payments, Decide(q) \/ VerifyTransfer(q) PROVE FALSE
    BY <1>1, <1>12 DEF Decide, VerifyTransfer
  <1>13. ASSUME NEW g \in Handlers, NEW q \in Payments, Callback(g, q) PROVE Goal
    BY <1>4, <1>5, <1>6, <1>13 DEF Callback
  <1>14. ASSUME NEW g \in Handlers, NEW q \in Payments, Ending(g, q) PROVE Goal
    BY <1>7, <1>8, <1>9, <1>14 DEF Ending, Ops
  <1> QED
    BY <1>1, <1>3, <1>10, <1>11, <1>12, <1>13, <1>14 DEF Next, vars, paymentVars

-----------------------------------------------------------------------------
(* The provider is asked once, and the lock is of one. *)

LEMMA AskedOnceStep ==
    ASSUME TypeOK, AskedOnce, UnderLock, BooksAreTrue, [Next]_vars
    PROVE  AskedOnce'
  <1> SUFFICES ASSUME NEW p \in Payments
               PROVE  /\ calls'[p] <= 1
                      /\ calls'[p] = 0 <=> provider'[p] = "none"
                      /\ status'[p] = "none" => calls'[p] = 0
                      /\ \A h \in Handlers : Asks(h, p)' => status'[p] # "none" /\ calls'[p] = 0
                      /\ \A g, h \in Handlers : Asks(g, p)' /\ Asks(h, p)' => g = h
    BY DEF AskedOnce
  <1>0. calls[p] \in Nat /\ calls[p] <= 1
    BY DEF TypeOK, AskedOnce
  <1>1. ASSUME calls'[p] # calls[p]
        PROVE  /\ \E h \in Handlers : Asks(h, p) /\ job'[h].at # "calling"
               /\ calls[p] = 0 /\ calls'[p] = 1 /\ provider'[p] # "none" /\ status[p] # "none"
    <2>1. calls[p] = 0 => provider[p] = "none"
      BY DEF AskedOnce
    <2>2. ASSUME NEW h \in Handlers, Provision(h, p), Asks(h, p), job'[h].at # "calling",
                 calls'[p] = calls[p] + 1, provider'[p] \in {"paid", "form", "declined"}
          PROVE  /\ Asks(h, p) /\ job'[h].at # "calling"
                 /\ calls[p] = 0 /\ calls'[p] = 1 /\ provider'[p] # "none" /\ status[p] # "none"
      <3>1. calls[p] = 0 /\ status[p] # "none"
        BY <2>2 DEF AskedOnce
      <3> QED
        BY <2>2, <3>1
    <2>3. ASSUME NEW h \in Handlers, Record3ds(h, p) \/ \E op \in Ops : CallEnding(h, p, op)
          PROVE  FALSE
      BY <1>1, <2>3 DEF Record3ds, CallEnding
    <2>4. ~Decide(p)
      BY <1>1 DEF Decide
    <2> QED
      BY <1>1, <2>2, <2>3, <2>4, ProviderStep DEF ProviderSet
  <1>2. status[p] # "none" => status'[p] # "none"
    BY StatusStep DEF StatusSet
  <1>3. calls'[p] <= 1
    BY <1>0, <1>1
  <1>4. calls'[p] = 0 <=> provider'[p] = "none"
    <2>1. CASE calls'[p] # calls[p]
      BY <1>1, <2>1
    <2>2. CASE calls'[p] = calls[p] /\ provider'[p] = provider[p]
      BY <2>2 DEF AskedOnce
    <2>3. CASE calls'[p] = calls[p] /\ provider'[p] # provider[p]
      <3>1. ASSUME calls'[p] = calls[p] + 1 PROVE FALSE
        BY <1>0, <2>3, <3>1
      <3>2. ASSUME NEW h \in Handlers, NEW op \in Ops, Doing(h, op, p, {"calling"}), provider'[p] = Ended[op]
            PROVE  provider[p] # "none" /\ provider'[p] # "none"
        BY <3>2 DEF UnderLock, BooksAreTrue, Held, Ended, Ops, Doing
      <3>3. provider[p] # "none" /\ provider'[p] # "none"
        BY <2>3, <3>1, <3>2, ProviderStep DEF ProviderSet
      <3> QED
        BY <2>3, <3>3 DEF AskedOnce
    <2> QED
      BY <2>1, <2>2, <2>3
  <1>5. status'[p] = "none" => calls'[p] = 0
    BY <1>1, <1>2 DEF AskedOnce
  <1>6. ASSUME NEW h \in Handlers, Asks(h, p)', job'[h] # job[h]
        PROVE  Create(h, p) /\ status[p] = "none" /\ status'[p] = "pending"
    <2>1. job'[h].op = "initiate" /\ job'[h].at = "calling" /\ job'[h].pay = p
      BY <1>6 DEF Asks, IsAt
    <2> QED
      BY <1>6, <2>1, JobStep, PaymentsAssumption DEF JobSet, Doing, Ops
  <1>7. ASSUME NEW h \in Handlers, Asks(h, p)' PROVE status'[p] # "none" /\ calls'[p] = 0
    <2>1. CASE job'[h] = job[h]
      <3>1. Asks(h, p)
        BY <1>7, <2>1 DEF Asks, IsAt
      <3>2. status[p] # "none" /\ calls[p] = 0
        BY <3>1 DEF AskedOnce
      <3>3. ASSUME calls'[p] # calls[p] PROVE FALSE
        <4>1. PICK g \in Handlers : Asks(g, p) /\ job'[g].at # "calling"
          BY <1>1, <3>3
        <4>2. g = h
          BY <3>1, <4>1 DEF AskedOnce
        <4> QED
          BY <1>7, <4>1, <4>2 DEF Asks, IsAt
      <3> QED
        BY <1>2, <3>2, <3>3
    <2>2. CASE job'[h] # job[h]
      BY <1>1, <1>6, <1>7, <2>2 DEF AskedOnce
    <2> QED
      BY <2>1, <2>2
  <1>8. ASSUME NEW g \in Handlers, NEW h \in Handlers, Asks(g, p)', Asks(h, p)' PROVE g = h
    <2>1. ASSUME NEW k \in Handlers, Asks(k, p)', job'[k] = job[k] PROVE Asks(k, p) /\ status[p] # "none"
      BY <2>1 DEF Asks, IsAt, AskedOnce
    <2>2. CASE job'[g] # job[g] /\ job'[h] # job[h]
      BY <2>2, OneJobStep
    <2>3. CASE job'[g] = job[g] /\ job'[h] = job[h]
      BY <1>8, <2>1, <2>3 DEF AskedOnce
    <2> QED
      BY <1>6, <1>8, <2>1, <2>2, <2>3
  <1> QED
    BY <1>3, <1>4, <1>5, <1>7, <1>8

\* Who takes the lock of p finds it free.
LEMMA AcquireStep ==
    ASSUME TypeOK, [Next]_vars, NEW h \in Handlers, NEW p \in Payments, Holds(h, p)',
           job'[h] # job[h]
    PROVE  \/ Holds(h, p)
           \/ ~Locked(p) /\ UNCHANGED <<status, posTx>>
  <1>1. job'[h].op \in {"capture", "cancel", "callback"} /\ job'[h].pay = p
    BY DEF Holds
  <1>2. ASSUME BeginCallback(h, p) \/ \E op \in Ops : BeginEnding(h, p, op)
        PROVE  ~Locked(p) /\ UNCHANGED <<status, posTx>>
    BY <1>2 DEF BeginCallback, BeginEnding
  <1>3. ASSUME NEW op \in Ops \cup {"callback"}, Doing(h, op, p, {"calling"}) PROVE Holds(h, p)
    BY <1>3 DEF Doing, Holds, Ops
  <1> QED
    BY <1>1, <1>2, <1>3, JobStep, PaymentsAssumption DEF JobSet, Doing

LEMMA LockStep ==
    ASSUME TypeOK, LockIsExclusive, [Next]_vars
    PROVE  LockIsExclusive'
  <1> SUFFICES ASSUME NEW p \in Payments, NEW g \in Handlers, NEW h \in Handlers,
                      Holds(g, p)', Holds(h, p)', g # h
               PROVE  FALSE
    BY DEF LockIsExclusive
  <1>1. ASSUME NEW k \in Handlers, Holds(k, p)', job'[k] = job[k] PROVE Holds(k, p)
    BY <1>1 DEF Holds
  <1>2. ASSUME NEW k \in Handlers, Holds(k, p), ~Locked(p) PROVE FALSE
    BY <1>2 DEF Holds, Locked
  <1>3. Holds(g, p) /\ Holds(h, p)
    BY <1>1, <1>2, AcquireStep, OneJobStep
  <1> QED
    BY <1>3 DEF LockIsExclusive

\* Who changes the status of a payment that is locked is who holds the lock.
LEMMA StatusMoves ==
    ASSUME TypeOK, UnderLock, [Next]_vars, NEW p \in Payments, status'[p] # status[p]
    PROVE  \/ <<status[p], status'[p]>> \in Transitions
           \/ p \in transfers /\ status[p] = "pending" /\ status'[p] = "completed"
  <1>1. ASSUME NEW h \in Handlers, job[h].op = "callback", job[h].pay = p
        PROVE  status[p] = "awaiting_3ds"
    BY <1>1 DEF UnderLock
  <1>2. ASSUME NEW h \in Handlers, NEW op \in Ops, IsAt(h, op, "yes"), job[h].pay = p
        PROVE  status[p] = "provisioned"
    BY <1>2 DEF UnderLock, IsAt, Ops
  <1>3. VerifyTransfer(p) => p \in transfers
    BY DEF VerifyTransfer
  <1> QED
    BY <1>1, <1>2, <1>3, StatusStep DEF StatusSet, Transitions, StillOpen, Ops

\* No step of the payments themselves leaves a status that is set in the end.
LEMMA FinalStatus ==
    ASSUME TypeOK, UnderLock, [Next]_vars, NEW p \in Payments, status[p] \in Paid \cup {"cancelled"}
    PROVE  status'[p] = status[p]
  <1> SUFFICES ASSUME status'[p] # status[p] PROVE FALSE
    OBVIOUS
  <1>1. status[p] \notin {"none", "pending", "awaiting_3ds", "provisioned"}
    BY DEF Paid
  <1> QED
    BY <1>1, StatusStep DEF StatusSet, StillOpen, UnderLock, IsAt, Ops

\* While h holds the lock of p and goes on, p keeps its status.
LEMMA LockedStatus ==
    ASSUME TypeOK, LockIsExclusive, UnderLock, [Next]_vars, NEW p \in Payments, NEW h \in Handlers,
           Holds(h, p), Holds(h, p)'
    PROVE  status'[p] = status[p]
  <1> SUFFICES ASSUME status'[p] # status[p] PROVE FALSE
    OBVIOUS
  <1>1. Locked(p)
    BY DEF Locked, Holds
  <1>2. ASSUME NEW g \in Handlers, EndCallback(g, p) \/ \E op \in Ops : EndEnding(g, p, op),
               Holds(g, p)
        PROVE  FALSE
    <2>1. g = h
      BY <1>2 DEF LockIsExclusive
    <2>2. Return(h)
      BY <1>2, <2>1 DEF EndCallback, EndEnding
    <2>3. job'[h].op = "idle"
      BY <2>2, ReturnEffect
    <2> QED
      BY <2>3 DEF Holds
  <1>3. status[p] \in {"awaiting_3ds", "provisioned"}
    BY DEF UnderLock, Holds, Ops
  <1> QED
    BY <1>1, <1>2, <1>3, StatusStep DEF StatusSet, Holds, IsAt, Ops

\* Rows of pos_transactions stay.
LEMMA PosTxStays ==
    ASSUME TypeOK, [Next]_vars, NEW p \in Payments
    PROVE  posTx[p] \subseteq posTx'[p]
  BY PosTxStep DEF PosTxSet

LEMMA UnderLockStep ==
    ASSUME TypeOK, LockIsExclusive, UnderLock, [Next]_vars
    PROVE  UnderLock'
  <1> SUFFICES ASSUME NEW h \in Handlers, NEW p \in Payments, job'[h].pay = p
               PROVE  /\ job'[h].op = "callback" => status'[p] = "awaiting_3ds"
                      /\ job'[h].op \in Ops => status'[p] = "provisioned" /\ "provisioned" \in posTx'[p]
    BY DEF UnderLock
  <1>1. CASE Holds(h, p) /\ job'[h].op = job[h].op
    BY <1>1, LockedStatus, PosTxStays DEF UnderLock, Holds, Ops
  <1>2. CASE job'[h] = job[h]
    BY <1>1, <1>2 DEF Holds, Ops
  <1>3. ASSUME NEW op \in Ops \cup {"callback"}, Doing(h, op, p, {"calling"}), job'[h].op = op
        PROVE  Holds(h, p) /\ job'[h].op = job[h].op
    BY <1>3 DEF Doing, Holds, Ops
  <1>4. ASSUME BeginCallback(h, p), job'[h].op = "callback"
        PROVE  status'[p] = "awaiting_3ds"
    BY <1>4 DEF BeginCallback
  <1>5. ASSUME NEW op \in Ops, BeginEnding(h, p, op)
        PROVE  status'[p] = "provisioned" /\ "provisioned" \in posTx'[p]
    BY <1>5 DEF BeginEnding
  <1>6. CASE job'[h] # job[h] /\ job'[h].op = "callback"
    BY <1>1, <1>3, <1>4, <1>6, JobStep, PaymentsAssumption DEF JobSet, Doing, Ops
  <1>7. CASE job'[h] # job[h] /\ job'[h].op \in Ops
    BY <1>1, <1>3, <1>5, <1>7, JobStep, PaymentsAssumption DEF JobSet, Doing, Ops
  <1> QED
    BY <1>2, <1>6, <1>7

\* What the provider holds of a payment it holds or gives back.
LEMMA HeldStays ==
    ASSUME TypeOK, AskedOnce, [Next]_vars, NEW p \in Payments, provider[p] \in Held
    PROVE  \/ provider'[p] = provider[p]
           \/ \E h \in Handlers, op \in Ops :
                /\ Doing(h, op, p, {"calling"}) /\ Doing(h, op, p, {"yes", "no"})'
                /\ CallEnding(h, p, op) /\ provider'[p] = Ended[op] /\ provider'[p] \in Held
  <1>1. ASSUME NEW h \in Handlers, Asks(h, p) PROVE FALSE
    BY <1>1 DEF AskedOnce, Held
  <1>2. \A op \in Ops : Ended[op] \in Held
    BY DEF Ended, Ops, Held
  <1>3. provider[p] \notin {"form", "shown"}
    BY DEF Held
  <1> QED
    BY <1>1, <1>2, <1>3, ProviderStep DEF ProviderSet

LEMMA AnswersStep ==
    ASSUME TypeOK, NotAsked, AskedOnce, LockIsExclusive, UnderLock, AnswersAreTrue, BooksAreTrue,
           EndedAsRecorded, [Next]_vars
    PROVE  AnswersAreTrue'
  <1> SUFFICES ASSUME NEW h \in Handlers, NEW p \in Payments, job'[h].pay = p
               PROVE  /\ IsAt(h, "initiate", "completed")' => gateway = "asked" /\ provider'[p] \in Held
                      /\ IsAt(h, "callback", "yes")' => provider'[p] = "paid"
                      /\ IsAt(h, "capture", "yes")' => provider'[p] = Became("captured")
                      /\ IsAt(h, "cancel", "yes")' => provider'[p] = Became("released")
                      /\ job'[h].op \in Ops /\ job'[h].at # "yes" /\ p \notin lost' =>
                             provider'[p] \notin {"captured", "released"}
    BY GatewayStays DEF AnswersAreTrue
  <1>1. CASE job'[h] = job[h]
    <2>1. ASSUME NEW g \in Handlers, NEW op \in Ops, Doing(g, op, p, {"calling"}), Holds(h, p),
                 Doing(g, op, p, {"yes", "no"})'
          PROVE  FALSE
      BY <1>1, <2>1 DEF LockIsExclusive, Holds, Doing, Ops
    <2>2. Holds(h, p) /\ provider[p] \in Held => provider'[p] = provider[p]
      BY <2>1, HeldStays
    <2>3. provider[p] \in Held => provider'[p] \in Held
      BY HeldStays
    <2>4. /\ IsAt(h, "callback", "yes") => Holds(h, p)
          /\ IsAt(h, "capture", "yes") => Holds(h, p)
          /\ IsAt(h, "cancel", "yes") => Holds(h, p)
          /\ job[h].op \in Ops => Holds(h, p)
      BY <1>1 DEF IsAt, Holds, Ops
    <2>5. /\ {"paid", "captured", "released"} \subseteq Held
          /\ Became("captured") \in Held /\ Became("released") \in Held
      BY BecameHeld DEF Held
    <2>6. ASSUME job[h].op \in Ops, job[h].at # "yes", p \notin lost'
          PROVE  provider'[p] \notin {"captured", "released"}
      <3>1. provider[p] \in Held /\ provider[p] \notin {"captured", "released"}
        BY <1>1, <2>6, LostStays DEF AnswersAreTrue, UnderLock, BooksAreTrue
      <3> QED
        BY <2>2, <2>4, <2>6, <3>1
    <2> QED
      BY <1>1, <2>2, <2>3, <2>4, <2>5, <2>6 DEF AnswersAreTrue, IsAt
  <1>2. CASE job'[h] # job[h]
    <2>1. CASE job'[h].op = "initiate"
      <3>1. job'[h].at = "completed" => gateway = "asked" /\ provider'[p] = "paid"
        BY <1>2, <2>1, JobStep, PaymentsAssumption DEF JobSet, Doing, Ops
      <3> QED
        BY <2>1, <3>1 DEF IsAt, Held, Ops
    <2>2. CASE job'[h].op = "callback"
      <3>1. ASSUME Complete(h, p), provider[p] = "paid" PROVE provider'[p] = "paid"
        BY <3>1 DEF Complete
      <3>2. job'[h].at = "yes" => provider'[p] = "paid"
        BY <1>2, <2>2, <3>1, JobStep, PaymentsAssumption DEF JobSet, Doing, Ops
      <3> QED
        BY <2>2, <3>2 DEF IsAt, Ops
    <2>3. ASSUME NEW op \in Ops, job'[h].op = op
          PROVE  /\ job'[h].at = "yes" => provider'[p] = Became(Ended[op])
                 /\ job'[h].at # "yes" /\ p \notin lost' => provider'[p] \notin {"captured", "released"}
      <3>1. ASSUME BeginEnding(h, p, op), ~Locked(p), status[p] = "provisioned", p \notin lost'
            PROVE  provider'[p] \notin {"captured", "released"}
        BY <3>1 DEF BeginEnding, EndedAsRecorded, Paid
      <3>2. ASSUME CallEnding(h, p, op), Doing(h, op, p, {"calling"}), UNCHANGED provider, p \notin lost'
            PROVE  provider'[p] \notin {"captured", "released"}
        BY <3>2, LostStays DEF AnswersAreTrue, Doing
      <3>3. \/ /\ BeginEnding(h, p, op) /\ ~Locked(p) /\ status[p] = "provisioned"
               /\ job'[h].at = "calling"
            \/ /\ CallEnding(h, p, op) /\ Doing(h, op, p, {"calling"})
               /\ job'[h].at \in {"yes", "no"}
               /\ job'[h].at = "yes" =>
                      IF gateway = "PayTR" THEN UNCHANGED provider ELSE provider'[p] = Ended[op]
               /\ job'[h].at = "no" => p \in lost' \/ UNCHANGED provider
        BY <1>2, <2>3, JobStep, PaymentsAssumption DEF JobSet, Doing, Ops
      <3>4. ASSUME gateway = "PayTR", UNCHANGED provider, Doing(h, op, p, {"calling"})
            PROVE  provider'[p] = "paid"
        <4>1. "provisioned" \in posTx[p]
          BY <3>4 DEF UnderLock, Doing
        <4> QED
          BY <3>4, <4>1 DEF BooksAreTrue, NotAsked, Held
      <3>5. job'[h].at = "yes" => provider'[p] = Became(Ended[op])
        BY <3>3, <3>4 DEF Became
      <3> QED
        BY <3>1, <3>2, <3>3, <3>5
    <2>4. CASE job'[h].op \notin {"initiate", "callback", "capture", "cancel"}
      BY <2>4 DEF IsAt, Ops
    <2> QED
      BY <2>1, <2>2, <2>3, <2>4 DEF IsAt, Ops, Ended
  <1> QED
    BY <1>1, <1>2

LEMMA BooksStep ==
    ASSUME TypeOK, AskedOnce, UnderLock, AnswersAreTrue, BooksAreTrue, [Next]_vars
    PROVE  BooksAreTrue'
  <1> SUFFICES ASSUME NEW p \in Payments
               PROVE  /\ "provisioned" \in posTx'[p] => provider'[p] \in Held
                      /\ "captured" \in posTx'[p] => status'[p] \in Paid
                      /\ provider'[p] \in {"captured", "released"} =>
                             status'[p] \in Paid \cup {"provisioned", "cancelled"}
    BY DEF BooksAreTrue
  <1>1. provider[p] \in Held => provider'[p] \in Held
    BY HeldStays
  <1>2. ASSUME "provisioned" \in posTx'[p] PROVE provider'[p] \in Held
    <2>1. CASE "provisioned" \in posTx[p]
      BY <1>1, <2>1 DEF BooksAreTrue
    <2>2. CASE "provisioned" \notin posTx[p]
      <3>1. PICK h \in Handlers : Doing(h, "initiate", p, {"completed"}) \/ Doing(h, "callback", p, {"yes"})
        BY <1>2, <2>2, PosTxStep DEF PosTxSet
      <3> QED
        BY <1>1, <3>1 DEF AnswersAreTrue, Doing, IsAt, Held
    <2> QED
      BY <2>1, <2>2
  <1>3. ASSUME "captured" \in posTx'[p] PROVE status'[p] \in Paid
    <2>1. CASE "captured" \in posTx[p]
      BY <2>1, FinalStatus DEF BooksAreTrue, Paid
    <2>2. CASE "captured" \notin posTx[p]
      BY <1>3, <2>2, PosTxStep DEF PosTxSet, Paid
    <2> QED
      BY <2>1, <2>2
  <1>4. ASSUME provider'[p] \in {"captured", "released"}
        PROVE  status'[p] \in Paid \cup {"provisioned", "cancelled"}
    <2>1. status[p] \in Paid \cup {"provisioned", "cancelled"}
      <3>1. CASE provider[p] \in {"captured", "released"}
        BY <3>1 DEF BooksAreTrue
      <3>2. CASE provider[p] \notin {"captured", "released"}
        <4>1. PICK h \in Handlers, op \in Ops : Doing(h, op, p, {"calling"})
          BY <1>4, <3>2, ProviderStep DEF ProviderSet
        <4> QED
          BY <4>1 DEF UnderLock, Doing, Ops
      <3> QED
        BY <3>1, <3>2
    <2> QED
      BY <2>1, StatusMoves DEF Paid, Transitions
  <1> QED
    BY <1>2, <1>3, <1>4

LEMMA EndedStep ==
    ASSUME TypeOK, NotAsked, AskedOnce, LockIsExclusive, UnderLock, AnswersAreTrue, BooksAreTrue,
           EndedAsRecorded, [Next]_vars
    PROVE  EndedAsRecorded'
  <1> SUFFICES ASSUME NEW p \in Payments
               PROVE  /\ "captured" \in posTx'[p] => provider'[p] = Became("captured")
                      /\ status'[p] = "cancelled" => provider'[p] = Became("released")
                      /\ provider'[p] = "captured" => status'[p] \in Paid \/ p \in lost' \/ Locked(p)'
                      /\ provider'[p] = "released" =>
                             status'[p] = "cancelled" \/ p \in lost' \/ Locked(p)'
    BY GatewayStays DEF EndedAsRecorded
  <1>1. ASSUME NEW h \in Handlers, NEW op \in Ops, Doing(h, op, p, {"calling"}) PROVE status[p] = "provisioned"
    BY <1>1 DEF UnderLock, Doing
  <1>2. ASSUME provider[p] \in Held, status[p] # "provisioned" PROVE provider'[p] = provider[p]
    BY <1>1, <1>2, HeldStays
  <1>3. ASSUME "captured" \in posTx'[p] PROVE provider'[p] = Became("captured")
    <2>1. CASE "captured" \in posTx[p]
      BY <1>2, <2>1, BecameHeld DEF BooksAreTrue, EndedAsRecorded, Paid
    <2>2. CASE "captured" \notin posTx[p]
      BY <1>3, <2>2, PosTxStep DEF PosTxSet, AnswersAreTrue, Doing, IsAt
    <2> QED
      BY <2>1, <2>2
  <1>4. ASSUME status'[p] = "cancelled" PROVE provider'[p] = Became("released")
    <2>1. CASE status[p] = "cancelled"
      BY <1>2, <2>1, BecameHeld DEF EndedAsRecorded
    <2>2. CASE status[p] # "cancelled"
      <3>1. PICK h \in Handlers : EndEnding(h, p, "cancel") /\ IsAt(h, "cancel", "yes") /\ job[h].pay = p
        BY <1>4, <2>2, StatusStep DEF StatusSet
      <3>2. provider'[p] = provider[p]
        BY <3>1 DEF EndEnding
      <3> QED
        BY <3>1, <3>2 DEF AnswersAreTrue
    <2> QED
      BY <2>1, <2>2
  <1>5. ASSUME provider'[p] \in {"captured", "released"}
        PROVE  \/ p \in lost' \/ Locked(p)'
               \/ provider'[p] = "captured" /\ status'[p] \in Paid
               \/ provider'[p] = "released" /\ status'[p] = "cancelled"
    <2>1. ASSUME NEW h \in Handlers, Holds(h, p)' PROVE Locked(p)'
      BY <2>1 DEF Holds, Locked
    <2>2. CASE provider[p] # provider'[p]
      <3>1. PICK h \in Handlers, op \in Ops : Doing(h, op, p, {"yes", "no"})'
        BY <1>5, <2>2, ProviderStep DEF ProviderSet
      <3> QED
        BY <2>1, <3>1 DEF Holds, Doing, Ops
    <2>3. CASE provider[p] = provider'[p] /\ p \in lost
      BY <2>3, LostStays
    <2>4. CASE provider[p] = provider'[p] /\ provider[p] = "captured" /\ status[p] \in Paid
      BY <2>4, StatusMoves DEF Paid, Transitions
    <2>5. CASE provider[p] = provider'[p] /\ provider[p] = "released" /\ status[p] = "cancelled"
      BY <2>5, FinalStatus
    <2>6. ASSUME provider[p] = provider'[p], NEW h \in Handlers, Holds(h, p)
          PROVE  \/ p \in lost' \/ Locked(p)'
                 \/ provider'[p] = "captured" /\ status'[p] \in Paid
                 \/ provider'[p] = "released" /\ status'[p] = "cancelled"
      <3>1. status[p] # "awaiting_3ds"
        BY <1>5, <2>6 DEF BooksAreTrue, Paid
      <3>2. ~EndCallback(h, p)
        BY <3>1 DEF UnderLock, EndCallback, IsAt
      <3>3. ASSUME EndEnding(h, p, "capture"), p \notin lost
            PROVE  provider'[p] = "captured" /\ status'[p] \in Paid
        <4>1. job[h].pay = p /\ IsAt(h, "capture", "yes") /\ Record(p, "PAYMENT_CAPTURED")
          BY <1>5, <2>6, <3>3 DEF EndEnding, AnswersAreTrue, IsAt, Ops
        <4> QED
          BY <1>5, <2>6, <4>1, StatusAfterValues DEF AnswersAreTrue, Became, Record, TypeOK, Paid
      <3>4. ASSUME EndEnding(h, p, "cancel"), p \notin lost
            PROVE  provider'[p] = "released" /\ status'[p] = "cancelled"
        <4>1. job[h].pay = p /\ IsAt(h, "cancel", "yes") /\ Record(p, "PAYMENT_PROVISION_CANCELLED")
          BY <1>5, <2>6, <3>4 DEF EndEnding, AnswersAreTrue, IsAt, Ops
        <4> QED
          BY <1>5, <2>6, <4>1, StatusAfterValues DEF AnswersAreTrue, Became, Record, TypeOK
      <3> QED
        BY <2>1, <2>6, <3>2, <3>3, <3>4, ReleaseStep, LostStays DEF Ops
    <2>7. Locked(p) => \E h \in Handlers : Holds(h, p)
      BY DEF Locked, Holds
    <2> QED
      BY <1>5, <2>2, <2>3, <2>4, <2>5, <2>6, <2>7 DEF EndedAsRecorded
  <1> QED
    BY <1>3, <1>4, <1>5

-----------------------------------------------------------------------------
(* The deposit and the ledger. *)

LEMMA DepositIsPaidStep ==
    ASSUME TypeOK, AskedOnce, UnderLock, AnswersAreTrue, BooksAreTrue, DepositIsPaid, [Next]_vars
    PROVE  DepositIsPaid'
  <1> DEFINE Closed == Paid \cup {"provisioned", "cancelled"}
  <1> SUFFICES ASSUME NEW p \in Payments, deposit' = p
               PROVE  /\ status'[p] \in Closed
                      /\ p \in transfers' \/ provider'[p] \in {"paid", "captured", "released"}
    BY DEF DepositIsPaid
  <1>1. transfers' = transfers
    BY DEF Next, vars
  <1>2. provider[p] \in Held => provider'[p] \in Held
    BY HeldStays
  <1>3. CASE deposit = p
    <2>1. status[p] \in Closed /\ (p \in transfers \/ provider[p] \in Held)
      BY <1>3 DEF DepositIsPaid, Held
    <2>2. status'[p] \in Closed
      BY <2>1, StatusMoves DEF Paid, Transitions
    <2> QED
      BY <1>1, <1>2, <2>1, <2>2 DEF Held
  <1>4. CASE deposit # p
    <2>1. /\ UNCHANGED <<provider, transfers>>
          /\ \/ /\ status'[p] = "provisioned"
                /\ \E h \in Handlers : \/ Doing(h, "initiate", p, {"completed"})
                                       \/ Doing(h, "callback", p, {"yes"})
             \/ p \in transfers /\ status'[p] = "completed"
      BY <1>4, DepositStep
    <2> QED
      BY <2>1 DEF AnswersAreTrue, Doing, IsAt, Held, Paid
  <1> QED
    BY <1>3, <1>4

\* A ledger changes with the status, and then tells it.
LEMMA LedgerStep ==
    ASSUME TypeOK, [Next]_vars, NEW p \in Payments
    PROVE  \/ status'[p] = status[p] /\ ledger'[p] = ledger[p]
           \/ ledger'[p] # <<>> /\ Told(p)' = status'[p]
           \/ VerifyTransfer(p) /\ ledger'[p] = ledger[p]
  <1> DEFINE Goal == \/ status'[p] = status[p] /\ ledger'[p] = ledger[p]
                     \/ ledger'[p] # <<>> /\ Told(p)' = status'[p]
                     \/ VerifyTransfer(p) /\ ledger'[p] = ledger[p]
  <1>1. ASSUME NEW q \in Payments, NEW event \in Entries, Record(q, event) PROVE Goal
    BY <1>1, RecordEffect
  <1>2. ASSUME UNCHANGED <<status, ledger>> PROVE Goal
    BY <1>2
  <1>3. {"PAYMENT_INITIATED", "THREE_DS_INITIATED", "THREE_DS_FAILED", "PAYMENT_PROVISIONED",
         "PAYMENT_FAILED", "PAYMENT_CAPTURED", "PAYMENT_PROVISION_CANCELLED",
         "MARKED_PROVISIONED", "MARKED_FAILED"} \subseteq Entries
    BY DEF Entries
  <1>4. ASSUME NEW q \in Payments, Provisioned(q, "PAYMENT_PROVISIONED") PROVE Goal
    BY <1>1, <1>2, <1>3, <1>4, ProvisionedEffect DEF UnchangedDb
  <1>5. ASSUME NEW h \in Handlers, NEW q \in Payments, Initiate(h, q) PROVE Goal
    BY <1>1, <1>2, <1>3, <1>4, <1>5
    DEF Initiate, Check, Create, Provision, RecordResult, Record3ds, UnchangedDb
  <1>6. ASSUME NEW h \in Handlers, NEW q \in Payments, Callback(h, q) PROVE Goal
    BY <1>1, <1>2, <1>3, <1>4, <1>6 DEF Callback, BeginCallback, Complete, EndCallback, UnchangedDb
  <1>7. ASSUME NEW h \in Handlers, NEW q \in Payments, Ending(h, q) PROVE Goal
    BY <1>1, <1>2, <1>3, <1>7 DEF Ending, BeginEnding, CallEnding, EndEnding, UnchangedDb
  <1>8. ASSUME NEW w \in Workers, NEW q \in Payments, Reconcile(w, q) PROVE Goal
    BY <1>1, <1>2, <1>3, <1>8 DEF Reconcile, List, Query, Resolve, UnchangedDb
  <1>9. ASSUME NEW h \in Handlers \cup Workers, Interrupt(h) PROVE Goal
    BY <1>2, <1>9 DEF Interrupt, UnchangedDb
  <1>10. ASSUME NEW q \in Payments, Decide(q) PROVE Goal
    BY <1>2, <1>10 DEF Decide
  <1>11. ASSUME NEW q \in Payments, VerifyTransfer(q) PROVE Goal
    BY <1>11 DEF VerifyTransfer, TypeOK
  <1> QED
    BY <1>2, <1>5, <1>6, <1>7, <1>8, <1>9, <1>10, <1>11 DEF Next, vars, paymentVars

LEMMA LedgerTellsStep ==
    ASSUME TypeOK, UnderLock, LedgerTellsStatus, [Next]_vars
    PROVE  LedgerTellsStatus'
  <1> SUFFICES ASSUME NEW p \in Payments
               PROVE  IF ledger'[p] = <<>> THEN status'[p] = "none"
                      ELSE \/ Told(p)' = status'[p]
                           \/ Told(p)' = "completed" /\ status'[p] \in Paid
                           \/ p \in transfers' /\ status'[p] \in Paid
    BY DEF LedgerTellsStatus
  <1>0. transfers' = transfers
    BY DEF Next, vars
  <1>1. ledger'[p] = ledger[p] => Told(p)' = Told(p)
    BY DEF Told
  <1>2. CASE status'[p] = status[p] /\ ledger'[p] = ledger[p]
    BY <1>0, <1>1, <1>2 DEF LedgerTellsStatus
  <1>3. CASE ledger'[p] # <<>> /\ Told(p)' = status'[p]
    BY <1>3
  <1>4. CASE VerifyTransfer(p) /\ ledger'[p] = ledger[p]
    <2>1. p \in transfers /\ status[p] = "pending" /\ status'[p] = "completed"
      BY <1>4 DEF VerifyTransfer, TypeOK
    <2>2. ledger[p] # <<>>
      BY <2>1 DEF LedgerTellsStatus
    <2> QED
      BY <1>0, <1>4, <2>1, <2>2 DEF Paid
  <1> QED
    BY <1>2, <1>3, <1>4, LedgerStep

-----------------------------------------------------------------------------
(* The theorems. *)

LEMMA InitIInv == Init => IInv
  <1> SUFFICES ASSUME Init PROVE IInv
    OBVIOUS
  <1>1. TypeOK
    <2>1. /\ gateway \in Gateways /\ transfers \subseteq Payments
          /\ deposit \in Payments \cup {None, Earlier}
          /\ lost \subseteq Payments /\ late \subseteq Payments /\ faults \in Nat
      BY DEF Init
    <2>2. /\ status \in [Payments -> Statuses] /\ provider \in [Payments -> ProviderStates]
          /\ calls \in [Payments -> Nat]
      BY DEF Init, Statuses, ProviderStates
    <2>3. /\ ledger \in [Payments -> Seq(LedgerEvents)]
          /\ posTx \in [Payments -> SUBSET {"provisioned", "failed", "captured"}]
      BY DEF Init
    <2>4. job \in [Handlers \cup Workers -> Jobs \cup {Idle}]
      BY DEF Init
    <2> QED
      BY <2>1, <2>2, <2>3, <2>4 DEF TypeOK
  <1>2. \A h \in Handlers : job[h].op = "idle" /\ job[h].pay = None
    BY DEF Init, Idle
  <1>3. AskedOnce /\ LockIsExclusive
    BY <1>2, PaymentsAssumption DEF Init, AskedOnce, Asks, IsAt, LockIsExclusive, Holds
  <1>4. UnderLock /\ AnswersAreTrue
    BY <1>2, PaymentsAssumption DEF UnderLock, AnswersAreTrue, IsAt, Ops
  <1>5. NotAsked /\ BooksAreTrue /\ EndedAsRecorded
    BY DEF Init, NotAsked, BooksAreTrue, EndedAsRecorded
  <1>6. DepositIsPaid /\ LedgerTellsStatus
    BY PaymentsAssumption DEF Init, DepositIsPaid, LedgerTellsStatus
  <1> QED
    BY <1>1, <1>3, <1>4, <1>5, <1>6 DEF IInv

LEMMA IInvStep ==
    ASSUME IInv, [Next]_vars
    PROVE  IInv'
  <1>1. TypeOK' /\ NotAsked' /\ AskedOnce' /\ LockIsExclusive' /\ UnderLock'
    BY TypeStep, NotAskedStep, AskedOnceStep, LockStep, UnderLockStep DEF IInv
  <1>2. AnswersAreTrue' /\ BooksAreTrue' /\ EndedAsRecorded'
    BY AnswersStep, BooksStep, EndedStep DEF IInv
  <1>3. DepositIsPaid' /\ LedgerTellsStatus'
    BY DepositIsPaidStep, LedgerTellsStep DEF IInv
  <1> QED
    BY <1>1, <1>2, <1>3 DEF IInv

\* The inductive invariant of the payments: what Payments reaches, whatever
\* answers are lost, whoever dies, and in whatever order calls, callbacks and the
\* reconciliation worker come.
THEOREM IInvHolds == Spec => []IInv
  BY InitIInv, IInvStep, PTL DEF Spec

\* The state of the services, the tables and the provider has its types.
THEOREM PaymentsTypeOK == Spec => []TypeOK
  BY IInvHolds, PTL DEF IInv

\* initiate asks the provider once for an idempotency key, for any number of
\* calls at a time.
THEOREM OneProvision == Spec => []OneProvisionPerKey
  <1>1. IInv => OneProvisionPerKey
    BY DEF IInv, AskedOnce, OneProvisionPerKey
  <1> QED
    BY <1>1, IInvHolds, PTL

\* What capture and cancel record is what the provider did; of PayTR, which is
\* not asked, that it still has the money.
THEOREM EndedIsRecorded == Spec => []EndedAsRecorded
  BY IInvHolds, PTL DEF IInv

\* No deposit is left behind by a payment that failed or was rolled back.
THEOREM DepositsArePaid == Spec => []DepositIsPaid
  BY IInvHolds, PTL DEF IInv

\* The last row of payment_ledger tells the status of its payment.
THEOREM LedgerIsTrue == Spec => []LedgerTellsStatus
  BY IInvHolds, PTL DEF IInv

\* No service asks for a transition that enforce_payment_status_transition
\* refuses, however its steps are interleaved with the others'.
THEOREM TriggerIsSilent == Spec => TriggerNeverRaises
  <1>1. ASSUME IInv, [Next]_vars
        PROVE  [\A p \in Payments :
                   \/ status'[p] = status[p]
                   \/ <<status[p], status'[p]>> \in Transitions
                   \/ p \in transfers /\ status[p] = "pending" /\ status'[p] = "completed"]_vars
    BY <1>1, StatusMoves DEF IInv
  <1> QED
    BY <1>1, IInvHolds, PTL DEF Spec, TriggerNeverRaises

-----------------------------------------------------------------------------
(* The money the provider holds. *)

\* The provider will not hold money of p any more.
Decided == {"declined", "captured", "released"}

\* Handler h created p and is not done with it.
Serving(h, p) == Doing(h, "initiate", p, {"calling", "completed", "requires_3ds", "failed"})

\* A payment is served by the handler that created it.
ServedOnce ==
    \A p \in Payments :
        /\ \A h \in Handlers : Serving(h, p) => status[p] # "none"
        /\ \A g, h \in Handlers : Serving(g, p) /\ Serving(h, p) => g = h

\* A bank transfer that was verified.
Verified(p) == p \in transfers /\ status[p] \in Paid

\* What the status of a payment says of the provider, and the reverse.
StatusIsTrue ==
    \A p \in Payments :
        /\ provider[p] = "none" => status[p] \in {"none", "pending"} \/ Verified(p)
        /\ status[p] = "awaiting_3ds" => provider[p] \notin {"none", "form"}
        /\ provider[p] = "shown" => status[p] \notin {"none", "pending"}
        /\ status[p] \in Paid => p \in transfers \/ provider[p] = Became("captured")

\* A refusal is one, unless its answer was lost, and nobody records a result of
\* p while its handler has a better one.
RefusalsAreTrue ==
    \A h \in Handlers, p \in Payments : job[h].pay = p =>
        /\ job[h].op = "initiate" /\ job[h].at \in {"completed", "requires_3ds", "failed"} =>
               provider[p] # "none"
        /\ IsAt(h, "initiate", "failed") => provider[p] \in Decided \/ p \in lost
        /\ IsAt(h, "initiate", "completed") /\ provider[p] = "paid" =>
               status[p] \in {"pending", "provisioned"} \/ Verified(p)
        /\ job[h].op = "callback" => provider[p] \in Held \cup Decided
        /\ IsAt(h, "callback", "no") => provider[p] \in Decided \/ p \in lost

\* What a worker found out is so, or was when it asked.
FindingsAreTrue ==
    \A w \in Workers :
        /\ job[w].op \in {"idle", "reconcile"}
        /\ \A p \in Payments : job[w].op = "reconcile" /\ job[w].pay = p =>
               /\ job[w].at = "yes" => provider[p] \in Held
               /\ job[w].at = "no" => provider[p] \in Decided
               /\ job[w].at \in {"awaiting_3ds", "not found"} =>
                      provider[p] \notin {"none", "form"} /\ status[p] \notin {"none", "pending"}
               /\ job[w].at = "not found" /\ provider[p] = "paid" => p \in late \cup lost

MoneyInv ==
    /\ ServedOnce /\ StatusIsTrue /\ RefusalsAreTrue /\ FindingsAreTrue /\ HeldMoneyIsKnown

\* What a worker's turn does to its job.
WorkerSet(w) ==
    \/ job'[w] = Idle
    \/ \E p \in Payments :
         /\ UNCHANGED <<status, provider>>
         /\ job'[w].op = "reconcile" /\ job'[w].pay = p
         /\ \/ job'[w].at = status[p] /\ status[p] \in {"pending", "awaiting_3ds"}
            \/ job'[w].at = "yes" /\ provider[p] \in Held
            \/ job'[w].at = "no" /\ provider[p] = "declined"
            \/ /\ job'[w].at = "not found" /\ Doing(w, "reconcile", p, {"awaiting_3ds"})
               /\ provider[p] # "paid" \/ p \in lost'

LEMMA WorkerJobStep ==
    ASSUME TypeOK, [Next]_vars, NEW w \in Workers, job'[w] # job[w]
    PROVE  WorkerSet(w)
  <1>1. ASSUME NEW g \in Handlers, NEW op, NEW q, NEW at, Go(g, op, q, at) \/ Return(g)
        PROVE  FALSE
    BY <1>1, PaymentsAssumption DEF Go, Return, TypeOK
  <1>2. ASSUME NEW g \in Handlers, NEW q \in Payments, Initiate(g, q) PROVE FALSE
    BY <1>1, <1>2 DEF Initiate, Check, Create, Provision, RecordResult, Record3ds
  <1>3. ASSUME NEW g \in Handlers, NEW q \in Payments, Callback(g, q) PROVE FALSE
    BY <1>1, <1>3 DEF Callback, BeginCallback, Complete, EndCallback
  <1>4. ASSUME NEW g \in Handlers, NEW q \in Payments, Ending(g, q) PROVE FALSE
    BY <1>1, <1>4 DEF Ending, BeginEnding, CallEnding, EndEnding
  <1>5. ASSUME NEW q \in Payments, Decide(q) \/ VerifyTransfer(q) PROVE FALSE
    BY <1>5 DEF Decide, VerifyTransfer
  <1>6. ASSUME NEW g \in Handlers \cup Workers, Return(g) PROVE WorkerSet(w)
    BY <1>6 DEF Return, TypeOK, WorkerSet
  <1>7. ASSUME NEW v \in Workers, NEW q, NEW at, Go(v, "reconcile", q, at)
        PROVE  v = w /\ job'[w].op = "reconcile" /\ job'[w].pay = q /\ job'[w].at = at
    <2>1. v = w
      BY <1>7 DEF Go, TypeOK
    <2> QED
      BY <1>7, <2>1, GoSets
  <1>8. ASSUME NEW v \in Workers, NEW q \in Payments, List(v, q) PROVE WorkerSet(w)
    BY <1>7, <1>8 DEF List, WorkerSet
  <1>9. ASSUME NEW v \in Workers, NEW q \in Payments, Query(v, q) PROVE WorkerSet(w)
    <2>1. /\ job[v].op = "reconcile" /\ job[v].pay = q /\ UNCHANGED <<status, provider>>
          /\ \/ Return(v)
             \/ /\ Go(v, "reconcile", q, Found(q))
                /\ provider[q] \in {"paid", "declined", "captured", "released"}
             \/ /\ Go(v, "reconcile", q, "not found") /\ job[v].at = "awaiting_3ds"
                /\ provider[q] # "paid" \/ q \in lost'
      BY <1>9 DEF Query, UnchangedDb, Loses
    <2>2. CASE Return(v)
      BY <1>6, <2>2
    <2>3. CASE /\ Go(v, "reconcile", q, Found(q))
               /\ provider[q] \in {"paid", "declined", "captured", "released"}
      BY <1>7, <2>1, <2>3 DEF Found, WorkerSet, Held
    <2>4. CASE /\ Go(v, "reconcile", q, "not found") /\ job[v].at = "awaiting_3ds"
               /\ provider[q] # "paid" \/ q \in lost'
      BY <1>7, <2>1, <2>4 DEF WorkerSet, Doing
    <2> QED
      BY <2>1, <2>2, <2>3, <2>4
  <1>10. ASSUME NEW v \in Workers, NEW q \in Payments, Reconcile(v, q) PROVE WorkerSet(w)
    BY <1>6, <1>8, <1>9, <1>10 DEF Reconcile, Resolve
  <1>11. ASSUME NEW g \in Handlers \cup Workers, Interrupt(g) PROVE WorkerSet(w)
    BY <1>6, <1>11 DEF Interrupt
  <1> QED
    BY <1>2, <1>3, <1>4, <1>5, <1>10, <1>11 DEF Next, vars, paymentVars

\* Payments that were paid too late stay so.
LEMMA LateStays ==
    ASSUME TypeOK, [Next]_vars
    PROVE  late \subseteq late'
  <1>1. ASSUME NEW h \in Handlers, NEW p \in Payments, Initiate(h, p) PROVE late' = late
    BY <1>1 DEF Initiate, Check, Create, Provision, RecordResult, Record3ds
  <1>2. ASSUME NEW h \in Handlers, NEW p \in Payments, Callback(h, p) PROVE late' = late
    BY <1>2 DEF Callback, BeginCallback, Complete, EndCallback
  <1>3. ASSUME NEW h \in Handlers, NEW p \in Payments, Ending(h, p) PROVE late' = late
    BY <1>3 DEF Ending, BeginEnding, CallEnding, EndEnding
  <1>4. ASSUME NEW w \in Workers, NEW p \in Payments, Reconcile(w, p) PROVE late' = late
    BY <1>4 DEF Reconcile, List, Query, Resolve
  <1>5. ASSUME NEW h \in Handlers \cup Workers, Interrupt(h) PROVE late' = late
    BY <1>5 DEF Interrupt
  <1>6. ASSUME NEW p \in Payments, Decide(p) \/ VerifyTransfer(p) PROVE late \subseteq late'
    BY <1>6 DEF Decide, VerifyTransfer
  <1> QED
    BY <1>1, <1>2, <1>3, <1>4, <1>5, <1>6 DEF Next, vars, paymentVars

\* The ways of what the provider has of p.
ProviderMoves(p) ==
    \/ /\ provider[p] = "none" /\ provider'[p] \in {"paid", "form", "declined"}
       /\ \E h \in Handlers : Provision(h, p) /\ Asks(h, p)
    \/ /\ provider[p] = "form" /\ provider'[p] = "shown"
       /\ \E h \in Handlers : Record3ds(h, p)
    \/ Decide(p) /\ provider[p] \in {"form", "shown"} /\ provider'[p] = "declined"
    \/ Decide(p) /\ provider[p] = "shown" /\ provider'[p] = "paid"
    \/ /\ provider[p] \in Held /\ provider'[p] \in {"captured", "released"}
       /\ status[p] = "provisioned"
       /\ \E h \in Handlers, op \in Ops : CallEnding(h, p, op)

LEMMA ProviderMovesStep ==
    ASSUME TypeOK, AskedOnce, UnderLock, BooksAreTrue, [Next]_vars, NEW p \in Payments,
           provider'[p] # provider[p]
    PROVE  ProviderMoves(p)
  <1>1. ASSUME NEW h \in Handlers, Provision(h, p), Asks(h, p),
               provider'[p] \in {"paid", "form", "declined"}
        PROVE  ProviderMoves(p)
    BY <1>1 DEF AskedOnce, ProviderMoves
  <1>2. ASSUME NEW h \in Handlers, Record3ds(h, p), provider[p] = "form", provider'[p] = "shown"
        PROVE  ProviderMoves(p)
    BY <1>2 DEF ProviderMoves
  <1>3. ASSUME NEW h \in Handlers, NEW op \in Ops, CallEnding(h, p, op),
               Doing(h, op, p, {"calling"}), provider'[p] = Ended[op]
        PROVE  ProviderMoves(p)
    <2>1. provider[p] \in Held /\ status[p] = "provisioned"
      BY <1>3 DEF UnderLock, BooksAreTrue, Doing
    <2>2. provider'[p] \in {"captured", "released"}
      BY <1>3 DEF Ended, Ops
    <2> QED
      BY <1>3, <2>1, <2>2 DEF ProviderMoves
  <1>4. ASSUME Decide(p) PROVE ProviderMoves(p)
    <2>1. \/ provider[p] = "shown" /\ provider'[p] = "paid"
          \/ provider[p] \in {"form", "shown"} /\ provider'[p] = "declined"
      BY <1>4 DEF Decide, TypeOK
    <2> QED
      BY <1>4, <2>1 DEF ProviderMoves
  <1> QED
    BY <1>1, <1>2, <1>3, <1>4, ProviderStep DEF ProviderSet

\* How h ends its service of a payment that the provider has paid.
LEMMA ServiceEnds ==
    ASSUME TypeOK, [Next]_vars, NEW h \in Handlers, NEW p \in Payments,
           Doing(h, "initiate", p, {"completed"}), job'[h] # job[h]
    PROVE  RecordResult(h, p) \/ p \in lost'
  <1>1. ASSUME NEW g \in Handlers \cup Workers, NEW op, NEW q, NEW at, Go(g, op, q, at) \/ Return(g)
        PROVE  g = h
    BY <1>1 DEF Go, Return, TypeOK
  <1>2. job[h].op = "initiate" /\ job[h].at = "completed" /\ job[h].pay = p /\ job[h] # Idle
    BY DEF Doing, Idle
  <1>3. ASSUME NEW g \in Handlers, NEW q \in Payments, Initiate(g, q) PROVE RecordResult(h, p)
    <2>1. ASSUME Check(g, q) \/ Create(g, q) \/ Provision(g, q) \/ Record3ds(g, q) PROVE FALSE
      BY <1>1, <1>2, <2>1 DEF Check, Create, Provision, Record3ds, IsAt
    <2>2. ASSUME RecordResult(g, q) PROVE g = h /\ q = p
      BY <1>1, <1>2, <2>2 DEF RecordResult
    <2> QED
      BY <1>3, <2>1, <2>2 DEF Initiate
  <1>4. ASSUME NEW g \in Handlers, NEW q \in Payments, Callback(g, q) PROVE FALSE
    BY <1>1, <1>2, <1>4 DEF Callback, BeginCallback, Complete, EndCallback, IsAt
  <1>5. ASSUME NEW g \in Handlers, NEW q \in Payments, NEW op \in Ops,
               BeginEnding(g, q, op) \/ CallEnding(g, q, op) \/ EndEnding(g, q, op)
        PROVE  FALSE
    BY <1>1, <1>2, <1>5 DEF BeginEnding, CallEnding, EndEnding, IsAt, Ops
  <1>6. ASSUME NEW w \in Workers, NEW q \in Payments, Reconcile(w, q) PROVE FALSE
    <2>1. w # h
      BY PaymentsAssumption
    <2> QED
      BY <1>1, <1>6, <2>1 DEF Reconcile, List, Query, Resolve
  <1>7. ASSUME NEW q \in Payments, Decide(q) \/ VerifyTransfer(q) PROVE FALSE
    BY <1>7 DEF Decide, VerifyTransfer
  <1>8. ASSUME NEW g \in Handlers \cup Workers, Interrupt(g) PROVE p \in lost'
    <2>1. g = h
      BY <1>1, <1>8 DEF Interrupt
    <2> QED
      BY <1>2, <1>8, <2>1 DEF Interrupt
  <1> QED
    BY <1>3, <1>4, <1>5, <1>6, <1>7, <1>8 DEF Next, Ending, Ops, vars, paymentVars

LEMMA ServedOnceStep ==
    ASSUME TypeOK, ServedOnce, [Next]_vars
    PROVE  ServedOnce'
  <1> SUFFICES ASSUME NEW p \in Payments
               PROVE  /\ \A h \in Handlers : Serving(h, p)' => status'[p] # "none"
                      /\ \A g, h \in Handlers : Serving(g, p)' /\ Serving(h, p)' => g = h
    BY DEF ServedOnce
  <1>1. status[p] # "none" => status'[p] # "none"
    BY StatusStep DEF StatusSet
  <1>2. ASSUME NEW h \in Handlers, Serving(h, p)'
        PROVE  Serving(h, p) \/ (job'[h] # job[h] /\ status[p] = "none" /\ status'[p] = "pending")
    <2>1. CASE job'[h] = job[h]
      BY <1>2, <2>1 DEF Serving, Doing
    <2>2. CASE job'[h] # job[h]
      <3>1. /\ job'[h].op = "initiate" /\ job'[h].pay = p
            /\ job'[h].at \in {"calling", "completed", "requires_3ds", "failed"}
        BY <1>2 DEF Serving, Doing
      <3>2. Provision(h, p) => Serving(h, p)
        BY DEF Provision, Serving, Doing, IsAt
      <3> QED
        BY <2>2, <3>1, <3>2, JobStep, PaymentsAssumption DEF JobSet, Doing, Ops
    <2> QED
      BY <2>1, <2>2
  <1>3. ASSUME NEW h \in Handlers, Serving(h, p)' PROVE status'[p] # "none"
    BY <1>1, <1>2, <1>3 DEF ServedOnce
  <1>4. ASSUME NEW g \in Handlers, NEW h \in Handlers, Serving(g, p)', Serving(h, p)' PROVE g = h
    <2>1. CASE Serving(g, p) /\ Serving(h, p)
      BY <2>1 DEF ServedOnce
    <2>2. CASE job'[g] # job[g] /\ job'[h] # job[h]
      BY <2>2, OneJobStep
    <2>3. ASSUME NEW k \in Handlers, Serving(k, p) PROVE status[p] # "none"
      BY <2>3 DEF ServedOnce
    <2> QED
      BY <1>2, <1>4, <2>1, <2>2, <2>3
  <1> QED
    BY <1>3, <1>4

\* A bank transfer stays verified.
LEMMA VerifiedStays ==
    ASSUME TypeOK, UnderLock, [Next]_vars, NEW p \in Payments, Verified(p)
    PROVE  Verified(p)'
  <1>1. transfers' = transfers
    BY DEF Next, vars
  <1>2. status'[p] \in Paid
    BY StatusMoves DEF Verified, Paid, Transitions
  <1> QED
    BY <1>1, <1>2 DEF Verified

\* What is recorded as a result while the provider has the money of p.
LEMMA ResultStep ==
    ASSUME TypeOK, DepositIsPaid, RefusalsAreTrue, NEW p \in Payments, NEW h \in Handlers,
           RecordResult(h, p), provider[p] = "paid"
    PROVE  \/ p \in lost
           \/ status[p] = "pending" /\ status'[p] = "provisioned"
           \/ status[p] = "pending" /\ UnchangedDb /\ deposit \notin {None, p}
           \/ status[p] # "pending" /\ UnchangedDb
  <1>1. CASE job[h].at = "failed"
    BY <1>1 DEF RecordResult, RefusalsAreTrue, IsAt, Decided
  <1>2. CASE job[h].at # "failed" /\ status[p] = "pending"
    <2>1. Provisioned(p, "PAYMENT_PROVISIONED")
      BY <1>2 DEF RecordResult, Unrecorded
    <2>2. CASE DepositAccepted
      BY <1>2, <2>1, <2>2, StatusAfterValues DEF Provisioned, Record, TypeOK
    <2>3. CASE ~DepositAccepted
      <3>1. deposit # p
        BY <1>2 DEF DepositIsPaid, Paid
      <3> QED
        BY <1>2, <2>1, <2>3, <3>1 DEF Provisioned, DepositAccepted
    <2> QED
      BY <2>2, <2>3
  <1>3. CASE job[h].at # "failed" /\ status[p] # "pending"
    BY <1>3 DEF RecordResult, Unrecorded
  <1> QED
    BY <1>1, <1>2, <1>3

\* A payment fails although the provider has its money only if somebody has
\* missed an answer, or asked too early.
LEMMA FailedStep ==
    ASSUME TypeOK, DepositIsPaid, RefusalsAreTrue, FindingsAreTrue, [Next]_vars,
           NEW p \in Payments, provider[p] = "paid", status[p] # "failed", status'[p] = "failed"
    PROVE  \/ p \in lost
           \/ status[p] = "awaiting_3ds" /\ p \in late
  <1>1. ASSUME NEW h \in Handlers, RecordResult(h, p) PROVE p \in lost
    BY <1>1, ResultStep DEF UnchangedDb
  <1>2. ASSUME NEW h \in Handlers, EndCallback(h, p) PROVE p \in lost
    <2>1. job[h].pay = p
      BY <1>2 DEF EndCallback
    <2>2. CASE IsAt(h, "callback", "yes")
      <3>1. Provisioned(p, "PAYMENT_PROVISIONED")
        BY <1>2, <2>2 DEF EndCallback, IsAt
      <3> QED
        BY <3>1, ProvisionedEffect, StatusAfterValues DEF UnchangedDb, Record, TypeOK
    <2>3. CASE IsAt(h, "callback", "no")
      BY <2>1, <2>3 DEF RefusalsAreTrue, Decided
    <2> QED
      BY <1>2, <2>2, <2>3 DEF EndCallback
  <1>3. ASSUME NEW w \in Workers, Resolve(w, p), StillOpen(p)
        PROVE  p \in lost \/ (status[p] = "awaiting_3ds" /\ p \in late)
    <2>1. job[w].op = "reconcile" /\ job[w].pay = p /\ job[w].at \in {"yes", "no", "not found"}
      BY <1>3 DEF Resolve
    <2>2. CASE job[w].at = "yes"
      <3>1. Record(p, "MARKED_PROVISIONED")
        BY <1>3, <2>2 DEF Resolve
      <3> QED
        BY <3>1, StatusAfterValues DEF Record, TypeOK
    <2>3. CASE job[w].at = "no"
      BY <2>1, <2>3 DEF FindingsAreTrue, Decided
    <2>4. CASE job[w].at = "not found"
      BY <1>3, <2>1, <2>4 DEF FindingsAreTrue, StillOpen
    <2> QED
      BY <2>1, <2>2, <2>3, <2>4
  <1> QED
    BY <1>1, <1>2, <1>3, StatusStep DEF StatusSet

LEMMA StatusIsTrueStep ==
    ASSUME IInv, MoneyInv, [Next]_vars
    PROVE  StatusIsTrue'
  <1> USE DEF IInv, MoneyInv
  <1> SUFFICES ASSUME NEW p \in Payments
               PROVE  /\ provider'[p] = "none" => status'[p] \in {"none", "pending"} \/ Verified(p)'
                      /\ status'[p] = "awaiting_3ds" => provider'[p] \notin {"none", "form"}
                      /\ provider'[p] = "shown" => status'[p] \notin {"none", "pending"}
                      /\ status'[p] \in Paid => p \in transfers' \/ provider'[p] = Became("captured")
    BY GatewayStays DEF StatusIsTrue
  <1>0. transfers' = transfers
    BY DEF Next, vars
  <1>1. provider'[p] # provider[p] => ProviderMoves(p)
    BY ProviderMovesStep
  <1>2. ASSUME provider'[p] = "none" PROVE status'[p] \in {"none", "pending"} \/ Verified(p)'
    <2>1. provider[p] = "none"
      BY <1>1, <1>2 DEF ProviderMoves
    <2>2. CASE Verified(p)
      BY <2>2, VerifiedStays
    <2>3. CASE status[p] \in {"none", "pending"} /\ status'[p] # status[p]
      <3>1. ASSUME NEW h \in Handlers, RecordResult(h, p) \/ Record3ds(h, p) PROVE FALSE
        BY <2>1, <3>1 DEF RefusalsAreTrue, RecordResult, Record3ds, IsAt
      <3>2. ASSUME NEW h \in Handlers, EndCallback(h, p), job[h].op = "callback", job[h].pay = p
            PROVE  FALSE
        BY <2>1, <3>2 DEF RefusalsAreTrue, Held, Decided
      <3>3. ASSUME NEW h \in Handlers, NEW op \in Ops, IsAt(h, op, "yes"), job[h].pay = p PROVE FALSE
        BY <2>3, <3>3 DEF UnderLock, IsAt
      <3>4. ASSUME NEW w \in Workers, Resolve(w, p) PROVE FALSE
        BY <2>1, <3>4 DEF FindingsAreTrue, Resolve, Held, Decided
      <3>5. ASSUME VerifyTransfer(p), status'[p] = "completed" PROVE Verified(p)'
        BY <1>0, <3>5 DEF VerifyTransfer, Verified, Paid
      <3> QED
        BY <2>3, <3>1, <3>2, <3>3, <3>4, <3>5, StatusStep DEF StatusSet, Ops
    <2> QED
      BY <2>1, <2>2, <2>3 DEF StatusIsTrue
  <1>3. ASSUME status'[p] = "awaiting_3ds" PROVE provider'[p] \notin {"none", "form"}
    <2>1. CASE status[p] = "awaiting_3ds"
      BY <1>1, <2>1 DEF StatusIsTrue, ProviderMoves
    <2>2. CASE status[p] # "awaiting_3ds"
      <3>1. PICK h \in Handlers : Record3ds(h, p)
        BY <1>3, <2>2, StatusStep DEF StatusSet
      <3>2. provider[p] # "none"
        BY <3>1 DEF RefusalsAreTrue, Record3ds, IsAt
      <3> QED
        BY <3>1, <3>2 DEF Record3ds, TypeOK
    <2> QED
      BY <2>1, <2>2
  <1>4. ASSUME provider'[p] = "shown" PROVE status'[p] \notin {"none", "pending"}
    <2>1. status[p] \notin {"none", "pending"} => status'[p] \notin {"none", "pending"}
      BY StatusMoves DEF Transitions
    <2>2. CASE provider[p] = "shown"
      BY <2>1, <2>2 DEF StatusIsTrue
    <2>3. CASE provider[p] # "shown"
      <3>1. PICK h \in Handlers : Record3ds(h, p)
        BY <1>1, <1>4, <2>3 DEF ProviderMoves
      <3>2. status[p] # "none"
        BY <3>1 DEF ServedOnce, Serving, Doing, Record3ds, IsAt
      <3>3. status[p] = "pending" => status'[p] = "awaiting_3ds"
        BY <3>1, StatusAfterValues DEF Record3ds, Record, TypeOK
      <3> QED
        BY <2>1, <3>2, <3>3
    <2> QED
      BY <2>2, <2>3
  <1>5. ASSUME status'[p] \in Paid PROVE p \in transfers' \/ provider'[p] = Became("captured")
    <2>1. CASE status[p] \in Paid
      <3>1. status[p] # "provisioned"
        BY <2>1 DEF Paid
      <3> QED
        BY <1>0, <1>1, <2>1, <3>1, BecameHeld DEF StatusIsTrue, ProviderMoves, Held
    <2>2. CASE status[p] \notin Paid
      <3>1. \/ VerifyTransfer(p)
            \/ \E h \in Handlers : /\ EndEnding(h, p, "capture") /\ IsAt(h, "capture", "yes")
                                   /\ job[h].pay = p
        BY <1>5, <2>2, StatusStep DEF StatusSet, Paid
      <3> QED
        BY <1>0, <3>1 DEF VerifyTransfer, EndEnding, AnswersAreTrue
    <2> QED
      BY <2>1, <2>2
  <1> QED
    BY <1>2, <1>3, <1>4, <1>5

\* What the handler of a payment has been told keeps the others from recording
\* anything worse.
LEMMA CompletedKeeps ==
    ASSUME IInv, MoneyInv, [Next]_vars, NEW p \in Payments, NEW h \in Handlers,
           job[h].pay = p, IsAt(h, "initiate", "completed"), job'[h] = job[h],
           provider'[p] = "paid"
    PROVE  status'[p] \in {"pending", "provisioned"} \/ Verified(p)'
  <1> USE DEF IInv, MoneyInv
  <1>0. gateway' = "asked"
    BY GatewayStays DEF AnswersAreTrue
  <1>1. provider[p] = "paid"
    <2>1. provider[p] \in Held
      BY DEF AnswersAreTrue
    <2> QED
      BY <2>1, ProviderMovesStep DEF ProviderMoves, Held
  <1>2. Serving(h, p)
    BY DEF Serving, Doing, IsAt
  <1>3. CASE Verified(p)
    BY <1>3, VerifiedStays
  <1>4. CASE status[p] \in {"pending", "provisioned"} /\ status'[p] # status[p]
    <2>1. ASSUME NEW g \in Handlers, RecordResult(g, p) \/ Record3ds(g, p) PROVE FALSE
      <3>1. Serving(g, p)
        BY <2>1 DEF RecordResult, Record3ds, Serving, Doing, IsAt
      <3>2. g = h
        BY <1>2, <3>1 DEF ServedOnce
      <3>3. Return(h)
        BY <2>1, <3>2 DEF RecordResult, Record3ds
      <3> QED
        BY <3>3, ReturnEffect DEF IsAt
    <2>2. status'[p] # "awaiting_3ds"
      BY <1>4, <2>1, StatusStep DEF StatusSet
    <2>3. ASSUME status'[p] = "failed" PROVE FALSE
      <3>1. ASSUME NEW g \in Handlers, EndCallback(g, p), job[g].op = "callback", job[g].pay = p
            PROVE  FALSE
        BY <1>4, <3>1 DEF UnderLock
      <3>2. ASSUME NEW w \in Workers, Resolve(w, p), StillOpen(p) PROVE FALSE
        <4>1. status[p] = "pending"
          BY <1>4, <3>2 DEF StillOpen
        <4>2. job[w].at = "yes"
          BY <1>1, <3>2, <4>1 DEF FindingsAreTrue, Resolve, Decided
        <4>3. Record(p, "MARKED_PROVISIONED")
          BY <3>2, <4>2 DEF Resolve
        <4> QED
          BY <2>3, <4>3, StatusAfterValues DEF Record, TypeOK
      <3> QED
        BY <1>4, <2>1, <2>3, <3>1, <3>2, StatusStep DEF StatusSet
    <2>4. status'[p] # "cancelled"
      <3>1. EndedAsRecorded'
        BY EndedStep
      <3> QED
        BY <1>0, <3>1 DEF EndedAsRecorded, Became
    <2>5. ASSUME status'[p] = "completed" PROVE Verified(p)'
      <3>1. StatusIsTrue'
        BY StatusIsTrueStep
      <3> QED
        BY <1>0, <2>5, <3>1 DEF StatusIsTrue, Became, Verified, Paid
    <2> QED
      BY <1>4, <2>2, <2>3, <2>4, <2>5, StatusMoves DEF Transitions
  <1> QED
    BY <1>1, <1>3, <1>4 DEF RefusalsAreTrue

LEMMA RefusalsStep ==
    ASSUME IInv, MoneyInv, [Next]_vars
    PROVE  RefusalsAreTrue'
  <1> USE DEF IInv, MoneyInv
  <1> SUFFICES ASSUME NEW h \in Handlers, NEW p \in Payments, job'[h].pay = p
               PROVE  /\ job'[h].op = "initiate"
                             /\ job'[h].at \in {"completed", "requires_3ds", "failed"} =>
                             provider'[p] # "none"
                      /\ IsAt(h, "initiate", "failed")' => provider'[p] \in Decided \/ p \in lost'
                      /\ IsAt(h, "initiate", "completed")' /\ provider'[p] = "paid" =>
                             status'[p] \in {"pending", "provisioned"} \/ Verified(p)'
                      /\ job'[h].op = "callback" => provider'[p] \in Held \cup Decided
                      /\ IsAt(h, "callback", "no")' => provider'[p] \in Decided \/ p \in lost'
    BY DEF RefusalsAreTrue
  <1>1. provider'[p] # provider[p] => ProviderMoves(p)
    BY ProviderMovesStep
  <1>2. CASE job'[h] = job[h]
    <2>1. /\ provider[p] # "none" => provider'[p] # "none"
          /\ provider[p] \in Decided => provider'[p] \in Decided
          /\ provider[p] \in Held \cup Decided => provider'[p] \in Held \cup Decided
      BY <1>1 DEF ProviderMoves, Decided, Held
    <2>2. lost \subseteq lost'
      BY LostStays
    <2>3. ASSUME IsAt(h, "initiate", "completed")', provider'[p] = "paid"
          PROVE  status'[p] \in {"pending", "provisioned"} \/ Verified(p)'
      BY <1>2, <2>3, CompletedKeeps DEF IsAt
    <2> QED
      BY <1>2, <2>1, <2>2, <2>3 DEF RefusalsAreTrue, IsAt
  <1>3. ASSUME job'[h] # job[h], job'[h].op = "initiate",
               job'[h].at \in {"completed", "requires_3ds", "failed"}
        PROVE  /\ provider'[p] # "none"
               /\ job'[h].at = "failed" => provider'[p] \in Decided \/ p \in lost'
               /\ job'[h].at = "completed" => status'[p] \in {"pending", "provisioned"} \/ Verified(p)'
    <2>1. Provision(h, p)
      BY <1>3, JobStep, PaymentsAssumption DEF JobSet, Doing, Ops
    <2>2. Asks(h, p)
      BY <2>1 DEF Provision, Asks
    <2>3. provider[p] = "none" /\ status[p] # "none"
      BY <2>2 DEF AskedOnce
    <2>4. status'[p] \in {"pending", "provisioned"} \/ Verified(p)'
      BY <2>1, <2>3, VerifiedStays DEF StatusIsTrue, Provision, UnchangedDb
    <2>5. PICK o \in Outcomes :
            /\ provider' = [provider EXCEPT ![p] = o.made]
            /\ Go(h, "initiate", p, o.answer) \/ p \in lost'
      BY <2>1 DEF Provision, Loses
    <2>6. provider'[p] = o.made /\ o.made # "none"
      BY <2>5 DEF TypeOK, Outcomes
    <2>7. ASSUME job'[h].at = "failed", p \notin lost' PROVE o.made = "declined"
      <3>1. Go(h, "initiate", p, o.answer)
        BY <2>5, <2>7
      <3>2. ASSUME NEW at, Go(h, "initiate", p, at) PROVE job'[h].at = at
        BY <3>2, GoSets
      <3> QED
        BY <2>7, <3>1, <3>2 DEF Outcomes
    <2> QED
      BY <2>4, <2>6, <2>7 DEF Decided
  <1>4. ASSUME job'[h] # job[h], job'[h].op = "callback"
        PROVE  /\ provider'[p] \in Held \cup Decided
               /\ job'[h].at = "no" => provider'[p] \in Decided \/ p \in lost'
    <2>1. \/ BeginCallback(h, p) /\ job'[h].at = "calling"
          \/ Complete(h, p) /\ Doing(h, "callback", p, {"calling"})
      BY <1>4, JobStep, PaymentsAssumption DEF JobSet, Doing, Ops
    <2>2. CASE BeginCallback(h, p) /\ job'[h].at = "calling"
      BY <2>2 DEF BeginCallback, Held, Decided
    <2>3. CASE Complete(h, p) /\ Doing(h, "callback", p, {"calling"})
      <3>1. provider[p] \in Held \cup Decided /\ provider' = provider
        BY <2>3 DEF RefusalsAreTrue, Doing, Complete
      <3>2. \/ Go(h, "callback", p, "yes") \/ p \in lost'
            \/ provider[p] # "paid"
        BY <2>3 DEF Complete, Loses
      <3>3. Go(h, "callback", p, "yes") => job'[h].at = "yes"
        BY GoSets
      <3> QED
        BY <3>1, <3>2, <3>3 DEF Held, Decided
    <2> QED
      BY <2>1, <2>2, <2>3
  <1>5. CASE job'[h] # job[h]
    BY <1>3, <1>4, <1>5 DEF IsAt
  <1> QED
    BY <1>2, <1>5

LEMMA FindingsStep ==
    ASSUME IInv, MoneyInv, [Next]_vars
    PROVE  FindingsAreTrue'
  <1> USE DEF IInv, MoneyInv
  <1> SUFFICES ASSUME NEW w \in Workers
               PROVE  /\ job'[w].op \in {"idle", "reconcile"}
                      /\ \A p \in Payments : job'[w].op = "reconcile" /\ job'[w].pay = p =>
                           /\ job'[w].at = "yes" => provider'[p] \in Held
                           /\ job'[w].at = "no" => provider'[p] \in Decided
                           /\ job'[w].at \in {"awaiting_3ds", "not found"} =>
                                  /\ provider'[p] \notin {"none", "form"}
                                  /\ status'[p] \notin {"none", "pending"}
                           /\ job'[w].at = "not found" /\ provider'[p] = "paid" =>
                                  p \in late' \cup lost'
    BY DEF FindingsAreTrue
  <1>1. ASSUME NEW p \in Payments, job'[w] = job[w], job[w].op = "reconcile", job[w].pay = p
        PROVE  /\ job'[w].at = "yes" => provider'[p] \in Held
               /\ job'[w].at = "no" => provider'[p] \in Decided
               /\ job'[w].at \in {"awaiting_3ds", "not found"} =>
                      provider'[p] \notin {"none", "form"} /\ status'[p] \notin {"none", "pending"}
               /\ job'[w].at = "not found" /\ provider'[p] = "paid" => p \in late' \cup lost'
    <2>1. provider'[p] # provider[p] => ProviderMoves(p)
      BY ProviderMovesStep
    <2>2. /\ provider[p] \in Held => provider'[p] \in Held
          /\ provider[p] \in Decided => provider'[p] \in Decided
          /\ provider[p] \notin {"none", "form"} => provider'[p] \notin {"none", "form"}
      BY <2>1 DEF ProviderMoves, Held, Decided
    <2>3. status[p] \notin {"none", "pending"} => status'[p] \notin {"none", "pending"}
      BY StatusMoves DEF Transitions
    <2>4. ASSUME job[w].at = "not found", provider'[p] = "paid" PROVE p \in late' \cup lost'
      <3>1. CASE provider[p] = "paid"
        BY <1>1, <2>4, <3>1, LateStays, LostStays DEF FindingsAreTrue
      <3>2. CASE provider[p] # "paid"
        <4>1. provider[p] \notin {"none", "form"}
          BY <1>1, <2>4 DEF FindingsAreTrue
        <4>2. Decide(p)
          BY <2>1, <2>4, <3>2, <4>1 DEF ProviderMoves
        <4>3. Working(p, "reconcile", {"not found"})
          BY <1>1, <2>4 DEF Working
        <4>4. provider'[p] # "declined"
          BY <2>4
        <4>5. late' = late \cup {p}
          BY <4>2, <4>3, <4>4 DEF Decide, TypeOK
        <4> QED
          BY <4>5
      <3> QED
        BY <3>1, <3>2
    <2> QED
      BY <1>1, <2>2, <2>3, <2>4 DEF FindingsAreTrue
  <1>2. CASE job'[w] = job[w]
    BY <1>1, <1>2 DEF FindingsAreTrue
  <1>3. CASE job'[w] = Idle
    BY <1>3 DEF Idle
  <1>4. ASSUME NEW p \in Payments, UNCHANGED <<status, provider>>,
               job'[w].op = "reconcile", job'[w].pay = p,
               \/ job'[w].at = status[p] /\ status[p] \in {"pending", "awaiting_3ds"}
               \/ job'[w].at = "yes" /\ provider[p] \in Held
               \/ job'[w].at = "no" /\ provider[p] = "declined"
               \/ /\ job'[w].at = "not found" /\ Doing(w, "reconcile", p, {"awaiting_3ds"})
                  /\ provider[p] # "paid" \/ p \in lost'
        PROVE  /\ job'[w].at = "yes" => provider'[p] \in Held
               /\ job'[w].at = "no" => provider'[p] \in Decided
               /\ job'[w].at \in {"awaiting_3ds", "not found"} =>
                      provider'[p] \notin {"none", "form"} /\ status'[p] \notin {"none", "pending"}
               /\ job'[w].at = "not found" /\ provider'[p] = "paid" => p \in late' \cup lost'
    <2>1. CASE job'[w].at = status[p] /\ status[p] \in {"pending", "awaiting_3ds"}
      BY <1>4, <2>1 DEF StatusIsTrue
    <2>2. CASE /\ job'[w].at = "not found" /\ Doing(w, "reconcile", p, {"awaiting_3ds"})
               /\ provider[p] # "paid" \/ p \in lost'
      BY <1>4, <2>2 DEF FindingsAreTrue, Doing
    <2>3. CASE \/ job'[w].at = "yes" /\ provider[p] \in Held
               \/ job'[w].at = "no" /\ provider[p] = "declined"
      BY <1>4, <2>3 DEF Decided
    <2> QED
      BY <1>4, <2>1, <2>2, <2>3
  <1> QED
    BY <1>2, <1>3, <1>4, WorkerJobStep DEF WorkerSet

LEMMA HeldMoneyStep ==
    ASSUME IInv, MoneyInv, [Next]_vars
    PROVE  HeldMoneyIsKnown'
  <1> USE DEF IInv, MoneyInv
  <1> DEFINE Known(p) ==
        \/ status[p] \in {"provisioned", "awaiting_3ds"}
        \/ Working(p, "initiate", {"completed"})
        \/ p \in lost
        \/ status[p] = "failed" /\ p \in late
        \/ status[p] = "pending" /\ deposit \notin {None, p}
        \/ p \in transfers /\ status[p] \in Paid
        \/ gateway = "PayTR" /\ status[p] \in Paid \cup {"cancelled"}
  <1> SUFFICES ASSUME NEW p \in Payments, provider'[p] = "paid"
               PROVE  Known(p)'
    BY DEF HeldMoneyIsKnown
  <1>1. EndedAsRecorded' /\ StatusIsTrue' /\ UNCHANGED <<gateway, transfers>>
    BY EndedStep, StatusIsTrueStep DEF Next, vars
  <1>2. status'[p] \in Paid \cup {"cancelled"} => Known(p)'
    BY <1>1 DEF EndedAsRecorded, StatusIsTrue, Became
  <1>3. lost \subseteq lost' /\ late \subseteq late'
    BY LostStays, LateStays
  <1>4. CASE provider[p] # "paid"
    <2>1. \/ \E h \in Handlers : Provision(h, p)
          \/ Decide(p) /\ provider[p] = "shown"
      BY <1>4, ProviderMovesStep DEF ProviderMoves
    <2>2. ASSUME NEW h \in Handlers, Provision(h, p) PROVE Known(p)'
      <3>1. PICK o \in Outcomes :
              /\ provider' = [provider EXCEPT ![p] = o.made]
              /\ Go(h, "initiate", p, o.answer) \/ p \in lost'
        BY <2>2 DEF Provision, Loses
      <3>2. o.answer = "completed"
        BY <3>1 DEF TypeOK, Outcomes
      <3>3. ASSUME Go(h, "initiate", p, "completed") PROVE Working(p, "initiate", {"completed"})'
        <4>1. job'[h].op = "initiate" /\ job'[h].pay = p /\ job'[h].at = "completed"
          BY <3>3, GoSets
        <4> QED
          BY <4>1 DEF Working
      <3> QED
        BY <3>1, <3>2, <3>3
    <2>3. ASSUME Decide(p), provider[p] = "shown" PROVE Known(p)'
      <3>1. status'[p] = status[p] /\ status[p] \notin {"none", "pending"}
        BY <2>3 DEF Decide, StatusIsTrue
      <3>2. status[p] = "failed" => p \in late'
        BY <2>3 DEF Decide, TypeOK
      <3>3. status[p] \in Statuses
        BY DEF TypeOK
      <3> QED
        BY <1>2, <3>1, <3>2, <3>3 DEF Statuses, Paid
    <2> QED
      BY <2>1, <2>2, <2>3
  <1>5. ASSUME provider[p] = "paid", status'[p] # status[p] PROVE Known(p)'
    <2>1. status[p] # "none"
      BY <1>5 DEF AskedOnce
    <2>2. status'[p] = "failed" => Known(p)'
      BY <1>3, <1>5, FailedStep
    <2>3. status'[p] \in {"provisioned", "awaiting_3ds", "failed", "cancelled"} \cup Paid
      BY <1>2, <1>5, <2>1, StatusMoves DEF Transitions, Paid
    <2> QED
      BY <1>2, <2>2, <2>3
  <1>6. ASSUME provider[p] = "paid", status'[p] = status[p] PROVE Known(p)'
    <2>1. Known(p)
      BY <1>6 DEF HeldMoneyIsKnown
    <2>2. CASE status[p] \in {"provisioned", "awaiting_3ds", "cancelled"} \cup Paid \/ p \in lost
      BY <1>2, <1>3, <1>6, <2>2
    <2>3. CASE status[p] = "failed" /\ p \in late
      BY <1>3, <1>6, <2>3
    <2>4. ASSUME status[p] = "pending", deposit \notin {None, p} PROVE Known(p)'
      <3>1. CASE deposit' = deposit
        BY <1>6, <2>4, <3>1
      <3>2. CASE deposit' # deposit
        <4>1. PICK q \in Payments : /\ deposit' = q
                                    /\ status'[q] = "provisioned" \/ status'[q] = "completed"
          BY <3>2, DepositStep
        <4>2. q # None /\ q # p
          BY <1>6, <2>4, <4>1, PaymentsAssumption
        <4> QED
          BY <1>6, <2>4, <4>1, <4>2
      <3> QED
        BY <3>1, <3>2
    <2>5. ASSUME Working(p, "initiate", {"completed"}) PROVE Known(p)'
      <3>1. PICK h \in Handlers : Doing(h, "initiate", p, {"completed"})
        BY <2>5 DEF Working, FindingsAreTrue, Doing
      <3>2. CASE job'[h] = job[h]
        BY <3>1, <3>2 DEF Doing, Working
      <3>3. CASE RecordResult(h, p)
        <4>1. \/ status'[p] # status[p] \/ p \in lost
              \/ status[p] = "pending" /\ deposit \notin {None, p}
              \/ status[p] # "pending"
          BY <1>6, <3>3, ResultStep
        <4>2. status[p] \in {"pending", "provisioned"} \cup Paid
          BY <1>6, <3>1 DEF RefusalsAreTrue, Doing, IsAt, Verified
        <4> QED
          BY <1>6, <2>2, <2>4, <4>1, <4>2
      <3> QED
        BY <1>3, <3>1, <3>2, <3>3, ServiceEnds
    <2> QED
      BY <2>1, <2>2, <2>3, <2>4, <2>5
  <1> QED
    BY <1>4, <1>5, <1>6

LEMMA InitMoneyInv == Init => MoneyInv
  <1> SUFFICES ASSUME Init PROVE MoneyInv
    OBVIOUS
  <1>1. \A h \in Handlers \cup Workers : job[h].op = "idle" /\ job[h].pay = None
    BY DEF Init, Idle
  <1>2. \A p \in Payments : status[p] = "none" /\ provider[p] = "none"
    BY DEF Init
  <1>3. ServedOnce /\ RefusalsAreTrue /\ FindingsAreTrue
    BY <1>1, PaymentsAssumption
    DEF ServedOnce, Serving, Doing, RefusalsAreTrue, FindingsAreTrue, IsAt
  <1>4. StatusIsTrue /\ HeldMoneyIsKnown
    BY <1>2 DEF StatusIsTrue, HeldMoneyIsKnown, Paid
  <1> QED
    BY <1>3, <1>4 DEF MoneyInv

LEMMA MoneyInvStep ==
    ASSUME IInv, MoneyInv, [Next]_vars
    PROVE  MoneyInv'
  <1>1. ServedOnce'
    BY ServedOnceStep DEF IInv, MoneyInv
  <1>2. StatusIsTrue' /\ RefusalsAreTrue' /\ FindingsAreTrue' /\ HeldMoneyIsKnown'
    BY StatusIsTrueStep, RefusalsStep, FindingsStep, HeldMoneyStep
  <1> QED
    BY <1>1, <1>2 DEF MoneyInv

\* The money the provider holds is provisioned or on its way there, and if it is
\* not, an answer was lost, the worker had given the payment up before it was
\* paid, the deposit was refused, or the provider is PayTR and was not asked to
\* release it: for any number of requests, callbacks and workers there is no
\* other way to forget it.
THEOREM HeldIsKnown == Spec => []HeldMoneyIsKnown
  <1>1. MoneyInv => HeldMoneyIsKnown
    BY DEF MoneyInv
  <1> QED
    BY <1>1, InitMoneyInv, MoneyInvStep, IInvHolds, PTL DEF Spec

=============================================================================
