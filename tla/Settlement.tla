------------------------------ MODULE Settlement ------------------------------
(***************************************************************************)
(* The settlement of one ended auction: the SettlementWorker of every      *)
(* replica draws up a manifest, has the payment provider capture the       *)
(* winner's deposit and refund the others', and closes the auction.  A     *)
(* worker works on the copy of the manifest it listed, which it saves      *)
(* after every item; it listed it before it took the Redis lock.           *)
(***************************************************************************)
EXTENDS Integers, FiniteSets, AuctionStatus

CONSTANTS
    Deposits,        \* the deposits of the eligible participants
    WinnerDeposit,   \* the winner's, or None
    InitialDeposits, \* the statuses the payments service leaves deposits in
    Workers,         \* SettlementWorker instances, one per replica
    None,            \* no manifest, no lock holder, no current item
    MaxRetries,      \* MAX_RETRIES
    ItemsPerTick,    \* ITEMS_PER_TICK
    ItemsLimit       \* MEMORY_SAFETY_ITEMS_LIMIT

DepositStatuses ==
    {"collected", "held", "captured", "refund_pending", "refunded", "expired"}

ASSUME BoundsAssumption ==
    /\ IsFiniteSet(Deposits)
    /\ InitialDeposits \subseteq {"collected", "held"}
    /\ MaxRetries \in Nat \ {0}
    /\ ItemsPerTick \in Nat \ {0}
    /\ ItemsLimit \in Nat

\* "absent" stands for a deposit the manifest has no item for.  "sent" is left
\* out: an item is sent only in the worker's memory, never in a saved manifest.
Item == [status : {"absent", "pending", "acknowledged", "failed"},
         retries : 0..MaxRetries]

Manifest == [status : {"active", "completed", "expired", "escalated"},
             items : [Deposits -> Item]]

ASSUME NoneAssumption ==
    /\ None \notin Deposits \cup Workers
    /\ None \notin Manifest
    /\ WinnerDeposit \in Deposits \cup {None}

VARIABLES
    auction,    \* the status of the auction row
    manifest,   \* the manifest row, as committed
    deposit,    \* the status of each deposit row
    ledger,     \* the payment_ledger entries of each deposit, counted by event
    moved,      \* the deposits whose money the provider has moved
    overdue,    \* expires_at has passed
    lock,       \* holder of the Redis key auction:settlement:lock:auction
    pc,         \* where each worker is
    copy,       \* the manifest entity each worker works on
    todo,       \* the items each worker has not processed in this tick
    current,    \* the item each worker is at
    dirty,      \* the manifest columns a worker's save decided to write
    retry       \* the answer to the last administrative retry

dbVars     == <<auction, manifest, deposit, ledger>>
workerVars == <<pc, copy, todo, current, dirty>>
vars == <<auction, manifest, deposit, ledger, moved, overdue, lock,
          pc, copy, todo, current, dirty, retry>>

Init ==
    /\ auction = "ended"
    /\ manifest = None
    /\ deposit \in [Deposits -> InitialDeposits]
    /\ ledger = [d \in Deposits |-> [initiated |-> 0, settled |-> 0]]
    /\ moved = {}
    /\ overdue = FALSE
    /\ lock = None
    /\ pc = [w \in Workers |-> "idle"]
    /\ copy = [w \in Workers |-> None]
    /\ todo = [w \in Workers |-> {}]
    /\ current = [w \in Workers |-> None]
    /\ dirty = [w \in Workers |-> {}]
    /\ retry = "none"

\* The status in which the settlement finds a deposit it has still to record,
\* and the one it leaves it in: losers are refunded, the winner's is captured.
Unsettled(d) == IF d = WinnerDeposit THEN "held" ELSE "refund_pending"
Settled(d) == IF d = WinnerDeposit THEN "captured" ELSE "refunded"

Go(w, from, to) ==
    /\ pc[w] = from
    /\ pc' = [pc EXCEPT ![w] = to]

-----------------------------------------------------------------------------
(***************************************************************************)
(* Finding work, under a Redis lock.                                       *)
(***************************************************************************)

\* Query 1 of the tick, and query 2: the entity read here is the one that is
\* worked on, however long the lock takes.
ListEnded(w) ==
    /\ Go(w, "idle", "sawEnded")
    /\ auction = "ended"
    /\ UNCHANGED <<dbVars, moved, overdue, lock, copy, todo, current, dirty, retry>>

ListActive(w) ==
    /\ Go(w, "idle", "listed")
    /\ manifest # None
    /\ manifest.status = "active"
    /\ copy' = [copy EXCEPT ![w] = manifest]
    /\ UNCHANGED <<dbVars, moved, overdue, lock, todo, current, dirty, retry>>

AcquireLock(w) ==
    /\ lock = None
    /\ lock' = w
    /\ Go(w, "sawEnded", "initiating") \/ Go(w, "listed", "holding")
    /\ UNCHANGED <<dbVars, moved, overdue, copy, todo, current, dirty, retry>>

\* Another worker holds the lock, or Redis does not answer.
Skip(w) ==
    /\ Go(w, "sawEnded", "idle") \/ Go(w, "listed", "idle")
    /\ copy' = [copy EXCEPT ![w] = None]
    /\ UNCHANGED <<dbVars, moved, overdue, lock, todo, current, dirty, retry>>

\* initiateSettlement, one transaction.  Only deposits that are held get an item.
NewManifest ==
    [status |-> "active",
     items |-> [d \in Deposits |->
                   [status |-> IF deposit[d] = "held" THEN "pending" ELSE "absent",
                    retries |-> 0]]]

\* A manifest without items is finalized at once.
Initiate(w) ==
    /\ pc[w] = "initiating"
    /\ IF auction = "ended" /\ manifest = None
       THEN /\ auction' = "settling"
            /\ manifest' = NewManifest
            /\ IF \A d \in Deposits : deposit[d] # "held"
               THEN /\ Go(w, "initiating", "items")
                    /\ copy' = [copy EXCEPT ![w] = NewManifest]
               ELSE Go(w, "initiating", "releasing") /\ UNCHANGED copy
       ELSE Go(w, "initiating", "releasing") /\ UNCHANGED <<auction, manifest, copy>>
    /\ UNCHANGED <<deposit, ledger, moved, overdue, lock, todo, current, dirty,
                   retry>>

ItemsOf(m) == {d \in Deposits : m.items[d].status # "absent"}

\* handleManifestExpiry and escalateOversizedManifest: the auction fails if it is
\* settling, and the manifest is closed in any case.
Abandon(w) ==
    /\ Go(w, "holding", "releasing")
    /\ overdue \/ Cardinality(ItemsOf(copy[w])) > ItemsLimit
    /\ auction' = IF auction = "settling" THEN "settlement_failed" ELSE auction
    /\ manifest' = [copy[w] EXCEPT !.status = IF overdue THEN "expired"
                                              ELSE "escalated"]
    /\ UNCHANGED <<deposit, ledger, moved, overdue, lock, copy, todo, current,
                   dirty, retry>>

Begin(w) ==
    /\ Go(w, "holding", "items")
    /\ ~overdue /\ Cardinality(ItemsOf(copy[w])) <= ItemsLimit
    /\ todo' = [todo EXCEPT ![w] = Deposits]
    /\ UNCHANGED <<dbVars, moved, overdue, lock, copy, current, dirty, retry>>

-----------------------------------------------------------------------------
(***************************************************************************)
(* One item: processCaptureItem and processRefundItem.                     *)
(***************************************************************************)

Retryable(item) ==
    \/ item.status = "pending"
    \/ item.status = "failed" /\ item.retries < MaxRetries

\* Mutant: the limit is passed over.
ExhaustedLater(item) == item.status = "failed" /\ item.retries > MaxRetries

Exhausted(item) == item.status = "failed" /\ item.retries >= MaxRetries

Acknowledged(item) == [item EXCEPT !.status = "acknowledged"]

Failed(item) == [item EXCEPT !.status = "failed", !.retries = @ + 1]

\* The item is answered with its outcome and the worker goes on to save it.
Answer(w, d, item) ==
    /\ copy' = [copy EXCEPT ![w].items[d] = item]
    /\ pc' = [pc EXCEPT ![w] = "saving"]

\* Mutant: the early return for a deposit that is settled already is missing.
ReadItemUnchecked(w, d) ==
    LET item == copy[w].items[d]
    IN  /\ pc[w] = "items"
        /\ d \in todo[w]
        /\ Cardinality(Deposits \ todo[w]) < ItemsPerTick
        /\ Retryable(item)
        /\ todo' = [todo EXCEPT ![w] = @ \ {d}]
        /\ current' = [current EXCEPT ![w] = d]
        /\ IF deposit[d] = "held" /\ d # WinnerDeposit
           THEN Go(w, "items", "refunding") /\ UNCHANGED copy
           ELSE Go(w, "items", "calling") /\ UNCHANGED copy
        /\ UNCHANGED <<dbVars, moved, overdue, lock, dirty, retry>>

\* The loop takes its next item and reads the deposit afresh.
ReadItem(w, d) ==
    LET item == copy[w].items[d]
    IN  /\ pc[w] = "items"
        /\ d \in todo[w]
        /\ Cardinality(Deposits \ todo[w]) < ItemsPerTick
        /\ Retryable(item)
        /\ todo' = [todo EXCEPT ![w] = @ \ {d}]
        /\ current' = [current EXCEPT ![w] = d]
        /\ CASE deposit[d] = Settled(d) -> Answer(w, d, Acknowledged(item))
             [] deposit[d] = Unsettled(d) ->
                   Go(w, "items", "calling") /\ UNCHANGED copy
             [] deposit[d] = "held" /\ d # WinnerDeposit ->
                   Go(w, "items", "refunding") /\ UNCHANGED copy
             [] OTHER -> Answer(w, d, Failed(item))
        /\ UNCHANGED <<dbVars, moved, overdue, lock, dirty, retry>>

\* recordRefundInitiationInDb, one transaction that locks the deposit.
InitiateRefund(w) ==
    LET d == current[w]
    IN  /\ pc[w] = "refunding"
        /\ IF deposit[d] = "held"
           THEN /\ deposit' = [deposit EXCEPT ![d] = "refund_pending"]
                /\ ledger' = [ledger EXCEPT ![d].initiated = @ + 1]
                /\ Go(w, "refunding", "calling")
           ELSE Go(w, "refunding", "rereading") /\ UNCHANGED <<deposit, ledger>>
        /\ UNCHANGED <<auction, manifest, moved, overdue, lock, copy, todo,
                       current, dirty, retry>>

\* Somebody else initiated the refund: read how far it has come.
Reread(w) ==
    LET d == current[w]
        item == copy[w].items[d]
    IN  /\ pc[w] = "rereading"
        /\ CASE deposit[d] = "refunded" -> Answer(w, d, Acknowledged(item))
             [] deposit[d] = "refund_pending" ->
                   Go(w, "rereading", "calling") /\ UNCHANGED copy
             [] OTHER -> Answer(w, d, Failed(item))
        /\ UNCHANGED <<dbVars, moved, overdue, lock, todo, current, dirty, retry>>

\* The provider moves the money and says so.
ProviderAccepts(w) ==
    /\ Go(w, "calling", "recording")
    /\ moved' = moved \cup {current[w]}
    /\ UNCHANGED <<dbVars, overdue, lock, copy, todo, current, dirty, retry>>

\* The circuit is open, the provider declines, or its answer is lost and the
\* adapter reports a failure although the money has moved.
ProviderFails(w) ==
    LET d == current[w]
    IN  /\ pc[w] = "calling"
        /\ moved' \in {moved, moved \cup {d}}
        /\ Answer(w, d, Failed(copy[w].items[d]))
        /\ UNCHANGED <<dbVars, overdue, lock, todo, current, dirty, retry>>

\* PosTimeoutError: the money may have moved.
ProviderTimesOut(w) ==
    /\ Go(w, "calling", "rechecking")
    /\ moved' \in {moved, moved \cup {current[w]}}
    /\ UNCHANGED <<dbVars, overdue, lock, copy, todo, current, dirty, retry>>

\* Mutant: the status is not checked again under the lock.
RecordedAgain(d) ==
    /\ deposit' = [deposit EXCEPT ![d] = Settled(d)]
    /\ ledger' = [ledger EXCEPT ![d].settled = @ + 1]

\* The transaction of recordCaptureInDb or recordRefundCompletionInDb: the status
\* is checked again under the lock of the deposit row.
Recorded(d) ==
    IF deposit[d] = Unsettled(d)
    THEN /\ deposit' = [deposit EXCEPT ![d] = Settled(d)]
         /\ ledger' = [ledger EXCEPT ![d].settled = @ + 1]
    ELSE UNCHANGED <<deposit, ledger>>

Record(w) ==
    LET d == current[w]
    IN  /\ pc[w] = "recording"
        /\ Recorded(d)
        /\ Answer(w, d, Acknowledged(copy[w].items[d]))
        /\ UNCHANGED <<auction, manifest, moved, overdue, lock, todo, current,
                       dirty, retry>>

\* executeWithRetry gives up.  The transaction may have committed all the same.
RecordFails(w) ==
    /\ Go(w, "recording", "rechecking")
    /\ Recorded(current[w]) \/ UNCHANGED <<deposit, ledger>>
    /\ UNCHANGED <<auction, manifest, moved, overdue, lock, copy, todo, current,
                   dirty, retry>>

\* Mutant: a refund that was only initiated passes for completed.
RecheckAnyProgress(w) ==
    LET d == current[w]
        item == copy[w].items[d]
    IN  /\ pc[w] = "rechecking"
        /\ Answer(w, d, IF deposit[d] # "held" THEN Acknowledged(item)
                        ELSE Failed(item))
        /\ UNCHANGED <<dbVars, moved, overdue, lock, todo, current, dirty, retry>>

Recheck(w) ==
    LET d == current[w]
        item == copy[w].items[d]
    IN  /\ pc[w] = "rechecking"
        /\ Answer(w, d, IF deposit[d] = Settled(d) THEN Acknowledged(item)
                        ELSE Failed(item))
        /\ UNCHANGED <<dbVars, moved, overdue, lock, todo, current, dirty, retry>>

-----------------------------------------------------------------------------
(***************************************************************************)
(* Saving the copy, after an item and at the end of a tick that closes     *)
(* nothing (current is then None).  save() reads the row again and writes  *)
(* the columns in which the copy differs from what it read.                *)
(***************************************************************************)

Compare(w) ==
    /\ Go(w, "saving", "writing")
    /\ dirty' = [dirty EXCEPT ![w] =
                    {c \in {"status", "items"} : copy[w][c] # manifest[c]}]
    /\ UNCHANGED <<dbVars, moved, overdue, lock, copy, todo, current, retry>>

Write(w) ==
    /\ Go(w, "writing", IF current[w] = None THEN "releasing" ELSE "items")
    /\ manifest' =
          [status |-> IF "status" \in dirty[w] THEN copy[w].status
                      ELSE manifest.status,
           items |-> IF "items" \in dirty[w] THEN copy[w].items
                     ELSE manifest.items]
    /\ dirty' = [dirty EXCEPT ![w] = {}]
    /\ current' = [current EXCEPT ![w] = None]
    /\ UNCHANGED <<auction, deposit, ledger, moved, overdue, lock, copy, todo,
                   retry>>

-----------------------------------------------------------------------------
(***************************************************************************)
(* finalizeManifest, on the copy.                                          *)
(***************************************************************************)

TickDone(w) ==
    /\ pc[w] = "items"
    /\ \/ Cardinality(Deposits \ todo[w]) >= ItemsPerTick
       \/ \A d \in todo[w] : ~Retryable(copy[w].items[d])

\* Mutant: an item that failed counts as done.
AllProcessed(w) ==
    \A d \in ItemsOf(copy[w]) : copy[w].items[d].status # "pending"

AllAcknowledged(w) ==
    \A d \in ItemsOf(copy[w]) : copy[w].items[d].status = "acknowledged"

SomeExhausted(w) == \E d \in Deposits : Exhausted(copy[w].items[d])

\* A transaction that locks the auction: nothing happens unless it is settling.
Close(w, auctionStatus, manifestStatus) ==
    /\ Go(w, "items", "releasing")
    /\ IF auction = "settling"
       THEN /\ auction' = auctionStatus
            /\ manifest' = [copy[w] EXCEPT !.status = manifestStatus]
       ELSE UNCHANGED <<auction, manifest>>
    /\ UNCHANGED <<deposit, ledger, moved, overdue, lock, copy, todo, current,
                   dirty, retry>>

Complete(w) ==
    /\ TickDone(w)
    /\ AllAcknowledged(w)
    /\ Close(w, "settled", "completed")

Escalate(w) ==
    /\ TickDone(w)
    /\ ~AllAcknowledged(w)
    /\ SomeExhausted(w)
    /\ Close(w, "settlement_failed", "escalated")

Continue(w) ==
    /\ TickDone(w)
    /\ ~AllAcknowledged(w)
    /\ ~SomeExhausted(w)
    /\ Go(w, "items", "saving")
    /\ UNCHANGED <<dbVars, moved, overdue, lock, copy, todo, current, dirty, retry>>

-----------------------------------------------------------------------------
(***************************************************************************)
(* The end of a worker's turn, failures, and the administrator.            *)
(***************************************************************************)

Forget(w) ==
    /\ copy' = [copy EXCEPT ![w] = None]
    /\ todo' = [todo EXCEPT ![w] = {}]
    /\ current' = [current EXCEPT ![w] = None]
    /\ dirty' = [dirty EXCEPT ![w] = {}]

\* A query or a transaction outside the try blocks fails: nothing is saved.
WorkerFails(w) ==
    /\ pc[w] \in {"initiating", "holding", "items", "refunding", "rereading",
                  "rechecking", "saving", "writing"}
    /\ pc' = [pc EXCEPT ![w] = "releasing"]
    /\ Forget(w)
    /\ UNCHANGED <<dbVars, moved, overdue, lock, retry>>

\* Compare-and-delete.
Release(w) ==
    /\ Go(w, "releasing", "idle")
    /\ lock' = IF lock = w THEN None ELSE lock
    /\ Forget(w)
    /\ UNCHANGED <<dbVars, moved, overdue, retry>>

Crash(w) ==
    /\ pc[w] # "idle"
    /\ pc' = [pc EXCEPT ![w] = "idle"]
    /\ Forget(w)
    /\ UNCHANGED <<dbVars, moved, overdue, lock, retry>>

LockExpires ==
    /\ lock # None
    /\ lock' = None
    /\ UNCHANGED <<dbVars, moved, overdue, workerVars, retry>>

\* MANIFEST_EXPIRY_HOURS have passed since the manifest was drawn up.
BecomeOverdue ==
    /\ manifest # None
    /\ ~overdue
    /\ overdue' = TRUE
    /\ UNCHANGED <<dbVars, moved, lock, workerVars, retry>>

\* AuctionService.updateStatus, for the statuses of a settlement.
SetStatus(to) ==
    /\ <<auction, to>> \in AdminTransitions
    /\ auction' = to
    /\ UNCHANGED <<manifest, deposit, ledger, moved, overdue, lock, workerVars,
                   retry>>

\* AdminSettlementController.retry: failed items become pending and the auction
\* settling again, unless the trigger of the auction row refuses.
RetrySettlement ==
    /\ manifest # None
    /\ manifest.status = "escalated"
    /\ auction = "settlement_failed"
    /\ \E d \in Deposits : manifest.items[d].status = "failed"
    /\ IF <<auction, "settling">> \in DbTransitions
       THEN /\ auction' = "settling"
            /\ manifest' =
                  [status |-> "active",
                   items |-> [d \in Deposits |->
                       LET item == manifest.items[d]
                       IN  IF item.status # "failed" THEN item
                           ELSE [status |-> "pending",
                                 retries |-> item.retries % MaxRetries]]]
            /\ retry' = "done"
       ELSE /\ UNCHANGED <<auction, manifest>>
            /\ retry' = "refused"
    /\ UNCHANGED <<deposit, ledger, moved, overdue, lock, workerVars>>

-----------------------------------------------------------------------------
(***************************************************************************)
(* The specifications.  Spec is everything.  In UnattendedSpec nobody sets *)
(* the status by hand, and in TimelySpec, besides, a worker ends its turn  *)
(* within WORKER_LOCK_TTL_MS: only a dead worker's lock expires.           *)
(***************************************************************************)

\* The steps of a turn that need nothing but time.
Work(w) ==
    \/ Initiate(w) \/ Abandon(w) \/ Begin(w)
    \/ \E d \in Deposits : ReadItem(w, d)
    \/ InitiateRefund(w) \/ Reread(w)
    \/ ProviderAccepts(w) \/ ProviderFails(w) \/ ProviderTimesOut(w)
    \/ Record(w) \/ RecordFails(w) \/ Recheck(w)
    \/ Compare(w) \/ Write(w)
    \/ Complete(w) \/ Escalate(w) \/ Continue(w) \/ Release(w)

Worker(w) ==
    \/ ListEnded(w) \/ ListActive(w) \/ AcquireLock(w) \/ Skip(w)
    \/ Work(w) \/ WorkerFails(w) \/ Crash(w)

Turns == (\E w \in Workers : Worker(w)) \/ BecomeOverdue \/ RetrySettlement

\* A worker that crashed in its turn still owns the key until its TTL, even if
\* it is back and looks for work.
DeadLockExpires ==
    /\ LockExpires
    /\ pc[lock] \in {"idle", "sawEnded", "listed"}

Next == Turns \/ LockExpires \/ \E to \in AuctionStatuses : SetStatus(to)

UnattendedNext == Turns \/ LockExpires

TimelyNext == Turns \/ DeadLockExpires

Spec == Init /\ [][Next]_vars

UnattendedSpec == Init /\ [][UnattendedNext]_vars

TimelySpec == Init /\ [][TimelyNext]_vars

\* A replica polls every five seconds, its calls end (the provider's in a
\* timeout), Redis drops the key of a dead worker, and the workers, which ask
\* again in every tick, get the key some day.  Some day, too, they stop
\* crashing and their queries stop failing.
Fairness ==
    /\ WF_vars(DeadLockExpires)
    /\ \A w \in Workers :
          /\ WF_vars(ListEnded(w)) /\ WF_vars(ListActive(w))
          /\ SF_vars(AcquireLock(w)) /\ WF_vars(Work(w))
          /\ <>[][~WorkerFails(w) /\ ~Crash(w)]_vars

FairTimelySpec == TimelySpec /\ Fairness

-----------------------------------------------------------------------------
(***************************************************************************)
(* Properties.                                                             *)
(***************************************************************************)

\* Every variable has its type.
TypeOK ==
    /\ auction \in AuctionStatuses
    /\ manifest \in Manifest \cup {None}
    /\ deposit \in [Deposits -> DepositStatuses]
    /\ ledger \in [Deposits -> [initiated : Nat, settled : Nat]]
    /\ moved \subseteq Deposits
    /\ overdue \in BOOLEAN
    /\ lock \in Workers \cup {None}
    /\ pc \in [Workers -> {"idle", "sawEnded", "initiating", "listed", "holding",
                           "items", "refunding", "rereading", "calling",
                           "recording", "rechecking", "saving", "writing",
                           "releasing"}]
    /\ copy \in [Workers -> Manifest \cup {None}]
    /\ todo \in [Workers -> SUBSET Deposits]
    /\ current \in [Workers -> Deposits \cup {None}]
    /\ dirty \in [Workers -> SUBSET {"status", "items"}]
    /\ retry \in {"none", "done", "refused"}

\* The check manifest_deposit_consistency of the finance endpoint: an item that
\* the manifest says is acknowledged belongs to a deposit that is captured or
\* refunded, even if the manifest was saved from a copy that was long stale.
ManifestMatchesDeposits ==
    manifest # None =>
        \A d \in Deposits :
            manifest.items[d].status = "acknowledged" => deposit[d] = Settled(d)

\* The checks captured_ledger_entries and refunded_ledger_entries: the ledger,
\* which is append-only, has one entry for every step of a deposit and no more,
\* although several workers may answer the same item.
LedgerMatchesDeposits ==
    \A d \in Deposits :
        /\ ledger[d].settled = IF deposit[d] = Settled(d) THEN 1 ELSE 0
        /\ ledger[d].initiated =
              IF deposit[d] \in {"refund_pending", "refunded"} THEN 1 ELSE 0

\* The provider is not asked to move money that is already recorded as moved: a
\* worker whose copy is stale reads the deposit again before it calls.
NoSecondCall ==
    \A w \in Workers :
        pc[w] = "calling" => deposit[current[w]] # Settled(current[w])

\* The checks no_stuck_held_deposits, winner_deposit_captured and
\* all_losers_refunded: a settled auction has captured or refunded every deposit.
EveryDepositSettled ==
    auction = "settled" => \A d \in Deposits : deposit[d] = Settled(d)

\* An ended auction gets settled, or is handed to an administrator.
SettlementFinishes == auction = "ended" ~> auction \in {"settled", "settlement_failed"}

\* Left to its workers, a settlement keeps the promise of Escrow, whichever of
\* them works on a stale copy or has lost its lock.
Promise == INSTANCE Escrow
ImplementsEscrow == Promise!Spec

=============================================================================
