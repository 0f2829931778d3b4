-------------------------- MODULE Settlement_proofs --------------------------
(***************************************************************************)
(* Proofs about Settlement, for every set of deposits and workers and any  *)
(* limits.  They are about Spec: workers lose their locks, work on stale   *)
(* copies and die, and an administrator sets the status at will.           *)
(***************************************************************************)
EXTENDS Settlement, TLAPS

\* Where a worker has a copy of the manifest, and where it is at an item.
Holding == {"listed", "holding", "items", "refunding", "rereading", "calling",
            "recording", "rechecking", "saving", "writing"}

AtItem == {"refunding", "rereading", "calling", "recording", "rechecking"}

\* No pending item has used up its retries, so that one more fits its type.
RetriesLeft(m) ==
    \A d \in Deposits :
        m.items[d].status = "pending" => m.items[d].retries < MaxRetries

\* What TypeOK rests on.
Shape ==
    /\ manifest # None => RetriesLeft(manifest)
    /\ \A w \in Workers :
          /\ copy[w] # None => manifest # None /\ RetriesLeft(copy[w])
          /\ pc[w] \in Holding => copy[w] # None
          /\ pc[w] \in AtItem =>
                /\ current[w] # None
                /\ Retryable(copy[w].items[current[w]])

LEMMA GoType ==
    ASSUME TypeOK, NEW w \in Workers, NEW from, NEW to, Go(w, from, to)
    PROVE  /\ pc[w] = from
           /\ pc'[w] = to
           /\ \A v \in Workers \ {w} : pc'[v] = pc[v]
  BY DEF TypeOK, Go

LEMMA ManifestFields ==
    ASSUME NEW m \in Manifest
    PROVE  /\ m.status \in {"active", "completed", "expired", "escalated"}
           /\ m.items \in [Deposits -> Item]
           /\ m # None
           /\ \A status \in {"active", "completed", "expired", "escalated"} :
                 /\ [m EXCEPT !.status = status] \in Manifest
                 /\ [m EXCEPT !.status = status].items = m.items
  BY NoneAssumption DEF Manifest

LEMMA FailedItem ==
    ASSUME NEW item \in Item, Retryable(item),
           item.status = "pending" => item.retries < MaxRetries
    PROVE  Failed(item) \in Item /\ Failed(item).status = "failed"
  <1>1. item.retries \in 0..MaxRetries /\ item.retries < MaxRetries
    BY DEF Item, Retryable
  <1>2. item.retries + 1 \in 0..MaxRetries
    BY <1>1, BoundsAssumption
  <1> QED
    BY <1>2 DEF Item, Failed

LEMMA AcknowledgedItem ==
    ASSUME NEW item \in Item
    PROVE  /\ Acknowledged(item) \in Item
           /\ Acknowledged(item).status = "acknowledged"
  BY DEF Item, Acknowledged

\* An answer changes one item of one copy.
LEMMA AnswerChanges ==
    ASSUME TypeOK, NEW w \in Workers, NEW d \in Deposits, NEW item \in Item,
           copy[w] \in Manifest, Answer(w, d, item)
    PROVE  /\ copy' \in [Workers -> Manifest \cup {None}]
           /\ copy'[w] \in Manifest
           /\ copy'[w].items = [copy[w].items EXCEPT ![d] = item]
           /\ \A v \in Workers \ {w} : copy'[v] = copy[v] /\ pc'[v] = pc[v]
           /\ pc'[w] = "saving"
           /\ pc' = [pc EXCEPT ![w] = "saving"]
  <1>1. /\ copy'[w] = [copy[w] EXCEPT !.items = [copy[w].items EXCEPT ![d] = item]]
        /\ copy' = [copy EXCEPT ![w] = copy'[w]]
    BY DEF TypeOK, Answer
  <1>2. [copy[w].items EXCEPT ![d] = item] \in [Deposits -> Item]
    BY DEF Manifest
  <1>3. /\ copy'[w] \in Manifest
        /\ copy'[w].items = [copy[w].items EXCEPT ![d] = item]
    BY <1>1, <1>2 DEF Manifest
  <1> QED
    BY <1>1, <1>3 DEF TypeOK, Answer

LEMMA NewManifestType == NewManifest \in Manifest /\ RetriesLeft(NewManifest)
  BY BoundsAssumption DEF NewManifest, Manifest, Item, RetriesLeft

-----------------------------------------------------------------------------
(***************************************************************************)
(* Types.                                                                  *)
(***************************************************************************)

\* Only the places of workers, their copies and the lock change.
LEMMA TypeFinding ==
    ASSUME TypeOK, Shape, NEW w \in Workers,
           ListEnded(w) \/ ListActive(w) \/ AcquireLock(w) \/ Skip(w) \/ Begin(w)
    PROVE  TypeOK' /\ Shape'
  <1>1. CASE ListEnded(w)
    BY <1>1 DEF TypeOK, Shape, ListEnded, Go, dbVars, Holding, AtItem
  <1>2. CASE ListActive(w)
    <2>1. manifest \in Manifest
      BY <1>2 DEF TypeOK, ListActive
    <2> QED
      BY <1>2, <2>1 DEF TypeOK, Shape, ListActive, Go, dbVars, Holding, AtItem
  <1>3. CASE AcquireLock(w)
    BY <1>3 DEF TypeOK, Shape, AcquireLock, Go, dbVars, Holding, AtItem
  <1>4. CASE Skip(w)
    BY <1>4 DEF TypeOK, Shape, Skip, Go, dbVars, Holding, AtItem
  <1>5. CASE Begin(w)
    BY <1>5 DEF TypeOK, Shape, Begin, Go, dbVars, Holding, AtItem
  <1> QED
    BY <1>1, <1>2, <1>3, <1>4, <1>5

LEMMA TypeInitiate ==
    ASSUME TypeOK, Shape, NEW w \in Workers, Initiate(w)
    PROVE  TypeOK' /\ Shape'
  <1>1. CASE auction = "ended" /\ manifest = None
    <2>1. /\ auction' = "settling"
          /\ manifest' = NewManifest
          /\ \/ Go(w, "initiating", "items")
                /\ copy' = [copy EXCEPT ![w] = NewManifest]
             \/ Go(w, "initiating", "releasing") /\ UNCHANGED copy
          /\ UNCHANGED <<deposit, ledger, moved, overdue, lock, todo, current,
                         dirty, retry>>
      BY <1>1 DEF Initiate
    <2>2. NewManifest # None
      BY NewManifestType, NoneAssumption
    <2> QED
      BY <2>1, <2>2, NewManifestType
         DEF TypeOK, Shape, Go, Holding, AtItem, AuctionStatuses
  <1>2. CASE ~(auction = "ended" /\ manifest = None)
    <2>1. /\ Go(w, "initiating", "releasing")
          /\ UNCHANGED <<auction, manifest, copy, deposit, ledger, moved,
                         overdue, lock, todo, current, dirty, retry>>
      BY <1>2 DEF Initiate
    <2> QED
      BY <2>1 DEF TypeOK, Shape, Go, Holding, AtItem
  <1> QED
    BY <1>1, <1>2

\* A manifest that is closed or saved comes from a copy.
LEMMA TypeClosing ==
    ASSUME TypeOK, Shape, NEW w \in Workers,
           Abandon(w) \/ Complete(w) \/ Escalate(w)
    PROVE  TypeOK' /\ Shape'
  <1>1. /\ pc[w] \in {"holding", "items"}
        /\ pc' = [pc EXCEPT ![w] = "releasing"]
        /\ auction' \in AuctionStatuses
        /\ \/ manifest' = manifest
           \/ \E status \in {"completed", "expired", "escalated"} :
                 manifest' = [copy[w] EXCEPT !.status = status]
        /\ UNCHANGED <<deposit, ledger, moved, overdue, lock, copy, todo,
                       current, dirty, retry>>
    BY DEF TypeOK, Abandon, Complete, Escalate, Close, Go, AuctionStatuses
  <1>2. copy[w] \in Manifest /\ RetriesLeft(copy[w])
    BY <1>1 DEF TypeOK, Shape, Holding
  <1>3. ASSUME NEW status \in {"completed", "expired", "escalated"},
               manifest' = [copy[w] EXCEPT !.status = status]
        PROVE  manifest' \in Manifest /\ RetriesLeft(manifest') /\ manifest' # None
    BY <1>2, <1>3, ManifestFields DEF RetriesLeft
  <1>4. /\ manifest' \in Manifest \cup {None}
        /\ manifest' # None => RetriesLeft(manifest')
        /\ manifest # None => manifest' # None
    BY <1>1, <1>3 DEF TypeOK, Shape
  <1> QED
    BY <1>1, <1>4 DEF TypeOK, Shape, Holding, AtItem

\* A step that answers an item and leaves the manifest alone.
LEMMA TypeAnswer ==
    ASSUME TypeOK, Shape, NEW w \in Workers, NEW d \in Deposits,
           NEW item \in {Acknowledged(copy[w].items[d]),
                         Failed(copy[w].items[d])},
           pc[w] \in Holding, Retryable(copy[w].items[d]),
           Answer(w, d, item), UNCHANGED manifest,
           \A v \in Workers \ {w} : current'[v] = current[v]
    PROVE  /\ copy' \in [Workers -> Manifest \cup {None}]
           /\ pc' = [pc EXCEPT ![w] = "saving"]
           /\ Shape'
  <1>1. copy[w] \in Manifest /\ RetriesLeft(copy[w]) /\ manifest # None
    BY DEF TypeOK, Shape
  <1>2. copy[w].items \in [Deposits -> Item]
    BY <1>1 DEF Manifest
  <1>3. item \in Item /\ item.status # "pending"
    BY <1>1, <1>2, FailedItem, AcknowledgedItem DEF RetriesLeft
  <1>4. /\ copy' \in [Workers -> Manifest \cup {None}]
        /\ copy'[w] \in Manifest
        /\ copy'[w].items = [copy[w].items EXCEPT ![d] = item]
        /\ \A v \in Workers \ {w} : copy'[v] = copy[v] /\ pc'[v] = pc[v]
        /\ pc'[w] = "saving"
        /\ pc' = [pc EXCEPT ![w] = "saving"]
    BY <1>1, <1>3, AnswerChanges
  <1>5. RetriesLeft(copy'[w])
    BY <1>1, <1>2, <1>3, <1>4 DEF RetriesLeft
  <1>6. copy'[w] # None
    BY <1>4, NoneAssumption
  <1> QED
    BY <1>1, <1>4, <1>5, <1>6 DEF Shape, AtItem, Holding

LEMMA TypeReadItem ==
    ASSUME TypeOK, Shape, NEW w \in Workers, NEW d \in Deposits, ReadItem(w, d)
    PROVE  TypeOK' /\ Shape'
  <1>1. /\ pc[w] = "items"
        /\ Retryable(copy[w].items[d])
        /\ todo' = [todo EXCEPT ![w] = @ \ {d}]
        /\ current' = [current EXCEPT ![w] = d]
        /\ UNCHANGED <<auction, manifest, deposit, ledger, moved, overdue, lock,
                       dirty, retry>>
    BY DEF ReadItem, dbVars
  <1>2. /\ current' \in [Workers -> Deposits \cup {None}]
        /\ current'[w] = d
        /\ d # None
        /\ \A v \in Workers \ {w} : current'[v] = current[v]
    BY <1>1, NoneAssumption DEF TypeOK
  <1>3. CASE \E item \in {Acknowledged(copy[w].items[d]),
                          Failed(copy[w].items[d])} : Answer(w, d, item)
    <2>1. /\ copy' \in [Workers -> Manifest \cup {None}]
          /\ pc' = [pc EXCEPT ![w] = "saving"]
          /\ Shape'
      BY <1>1, <1>2, <1>3, TypeAnswer DEF Holding
    <2> QED
      BY <1>1, <1>2, <2>1 DEF TypeOK
  <1>4. CASE \E to \in {"calling", "refunding"} :
                Go(w, "items", to) /\ UNCHANGED copy
    BY <1>1, <1>2, <1>4 DEF TypeOK, Shape, Go, Holding, AtItem
  <1> QED
    BY <1>3, <1>4 DEF ReadItem

LEMMA TypeItem ==
    ASSUME TypeOK, Shape, NEW w \in Workers,
           \/ InitiateRefund(w) \/ Reread(w)
           \/ ProviderAccepts(w) \/ ProviderFails(w) \/ ProviderTimesOut(w)
           \/ Record(w) \/ RecordFails(w) \/ Recheck(w)
    PROVE  TypeOK' /\ Shape'
  <1> DEFINE d == current[w]
             answers == {Acknowledged(copy[w].items[d]),
                         Failed(copy[w].items[d])}
  <1>1. /\ pc[w] \in AtItem
        /\ UNCHANGED <<auction, manifest, overdue, lock, todo, current, dirty,
                       retry>>
    BY DEF InitiateRefund, Reread, ProviderAccepts, ProviderFails,
           ProviderTimesOut, Record, RecordFails, Recheck, Go, AtItem, dbVars
  <1>2. d \in Deposits /\ pc[w] \in Holding /\ Retryable(copy[w].items[d])
    BY <1>1 DEF TypeOK, Shape, AtItem, Holding
  <1>3. deposit' \in [Deposits -> DepositStatuses]
    BY <1>2 DEF TypeOK, InitiateRefund, Reread, ProviderAccepts, ProviderFails,
                ProviderTimesOut, Record, RecordFails, Recheck, Recorded,
                Settled, DepositStatuses, dbVars
  <1>4. ledger' \in [Deposits -> [initiated : Nat, settled : Nat]]
    <2>1. CASE UNCHANGED ledger
      BY <2>1 DEF TypeOK
    <2>2. CASE ledger' = [ledger EXCEPT ![d].initiated = @ + 1]
      BY <1>2, <2>2 DEF TypeOK
    <2>3. CASE ledger' = [ledger EXCEPT ![d].settled = @ + 1]
      BY <1>2, <2>3 DEF TypeOK
    <2> QED
      BY <2>1, <2>2, <2>3
         DEF InitiateRefund, Reread, ProviderAccepts, ProviderFails,
             ProviderTimesOut, Record, RecordFails, Recheck, Recorded, dbVars
  <1>5. moved' \subseteq Deposits
    BY <1>2 DEF TypeOK, InitiateRefund, Reread, ProviderAccepts, ProviderFails,
                ProviderTimesOut, Record, RecordFails, Recheck, dbVars
  <1>6. CASE \E item \in answers : Answer(w, d, item)
    <2>1. /\ copy' \in [Workers -> Manifest \cup {None}]
          /\ pc' = [pc EXCEPT ![w] = "saving"]
          /\ Shape'
      BY <1>1, <1>2, <1>6, TypeAnswer
    <2> QED
      BY <1>1, <1>3, <1>4, <1>5, <2>1 DEF TypeOK
  <1>7. CASE \E to \in AtItem : pc' = [pc EXCEPT ![w] = to] /\ UNCHANGED copy
    BY <1>1, <1>2, <1>3, <1>4, <1>5, <1>7 DEF TypeOK, Shape, Holding, AtItem
  <1>8. \/ \E item \in answers : Answer(w, d, item)
        \/ \E to \in AtItem : pc' = [pc EXCEPT ![w] = to] /\ UNCHANGED copy
    BY DEF InitiateRefund, Reread, ProviderAccepts, ProviderFails,
           ProviderTimesOut, Record, RecordFails, Recheck, Go, AtItem, dbVars
  <1> QED
    BY <1>6, <1>7, <1>8

LEMMA TypeSaving ==
    ASSUME TypeOK, Shape, NEW w \in Workers,
           Compare(w) \/ Write(w) \/ Continue(w)
    PROVE  TypeOK' /\ Shape'
  <1>1. CASE Compare(w)
    BY <1>1 DEF TypeOK, Shape, Compare, Go, dbVars, Holding, AtItem
  <1>2. CASE Write(w)
    <2>1. /\ copy[w] \in Manifest /\ RetriesLeft(copy[w])
          /\ manifest \in Manifest /\ RetriesLeft(manifest)
      BY <1>2 DEF TypeOK, Shape, Write, Go, Holding
    <2>2. /\ manifest'.items \in {copy[w].items, manifest.items}
          /\ manifest' \in Manifest
      BY <1>2, <2>1 DEF Write, Manifest
    <2>3. manifest' # None /\ RetriesLeft(manifest')
      BY <2>1, <2>2, NoneAssumption DEF RetriesLeft
    <2> QED
      BY <1>2, <2>2, <2>3 DEF TypeOK, Shape, Write, Go, Holding, AtItem
  <1>3. CASE Continue(w)
    BY <1>3 DEF TypeOK, Shape, Continue, Go, dbVars, Holding, AtItem
  <1> QED
    BY <1>1, <1>2, <1>3

LEMMA TypeTurnEnds ==
    ASSUME TypeOK, Shape, NEW w \in Workers,
           WorkerFails(w) \/ Release(w) \/ Crash(w)
    PROVE  TypeOK' /\ Shape'
  <1>1. CASE WorkerFails(w)
    BY <1>1 DEF TypeOK, Shape, WorkerFails, Forget, dbVars, Holding, AtItem
  <1>2. CASE Release(w)
    BY <1>2 DEF TypeOK, Shape, Release, Forget, Go, dbVars, Holding, AtItem
  <1>3. CASE Crash(w)
    BY <1>3 DEF TypeOK, Shape, Crash, Forget, dbVars, Holding, AtItem
  <1> QED
    BY <1>1, <1>2, <1>3

LEMMA TypeWorker ==
    ASSUME TypeOK, Shape, NEW w \in Workers, Worker(w)
    PROVE  TypeOK' /\ Shape'
  BY TypeFinding, TypeInitiate, TypeClosing, TypeReadItem, TypeItem,
     TypeSaving, TypeTurnEnds DEF Worker, Work

LEMMA RetriedItem ==
    ASSUME NEW item \in Item
    PROVE  /\ [status |-> "pending", retries |-> item.retries % MaxRetries] \in Item
           /\ item.retries % MaxRetries < MaxRetries
  <1>1. item.retries \in Nat /\ MaxRetries \in Nat \ {0}
    BY BoundsAssumption DEF Item
  <1>2. item.retries % MaxRetries \in 0..(MaxRetries - 1)
    BY <1>1
  <1> QED
    BY <1>1, <1>2 DEF Item

LEMMA TypeRetry ==
    ASSUME TypeOK, Shape, RetrySettlement
    PROVE  TypeOK' /\ Shape' /\ manifest' # None
  <1> DEFINE retried == [d \in Deposits |->
                 IF manifest.items[d].status # "failed" THEN manifest.items[d]
                 ELSE [status |-> "pending",
                       retries |-> manifest.items[d].retries % MaxRetries]]
  <1>1. manifest \in Manifest /\ manifest # None /\ RetriesLeft(manifest)
    BY DEF TypeOK, Shape, RetrySettlement
  <1>2. \A d \in Deposits :
           /\ retried[d] \in Item
           /\ retried[d].status = "pending" => retried[d].retries < MaxRetries
    BY <1>1, RetriedItem DEF Manifest, RetriesLeft
  <1>3. /\ UNCHANGED <<deposit, ledger, moved, overdue, lock, workerVars>>
        /\ \/ UNCHANGED <<auction, manifest>> /\ retry' = "refused"
           \/ /\ auction' = "settling" /\ retry' = "done"
              /\ manifest' = [status |-> "active", items |-> retried]
    BY DEF RetrySettlement
  <1>4. /\ manifest' \in Manifest
        /\ manifest' # None
        /\ RetriesLeft(manifest')
    <2>1. CASE UNCHANGED manifest
      BY <1>1, <2>1 DEF RetriesLeft
    <2>2. CASE manifest' = [status |-> "active", items |-> retried]
      <3>1. manifest' \in Manifest
        BY <1>2, <2>2 DEF Manifest
      <3> QED
        BY <1>2, <2>2, <3>1, NoneAssumption DEF RetriesLeft
    <2> QED
      BY <1>3, <2>1, <2>2
  <1> HIDE DEF retried
  <1> QED
    BY <1>3, <1>4 DEF TypeOK, Shape, workerVars, AuctionStatuses

LEMMA TypeRest ==
    ASSUME TypeOK, Shape,
           LockExpires \/ BecomeOverdue \/ \E to \in AuctionStatuses : SetStatus(to)
    PROVE  TypeOK' /\ Shape'
  BY DEF TypeOK, Shape, LockExpires, BecomeOverdue, SetStatus, dbVars, workerVars

LEMMA InitTyped == Init => TypeOK /\ Shape
  <1> SUFFICES ASSUME Init PROVE TypeOK /\ Shape
    OBVIOUS
  <1>1. deposit \in [Deposits -> DepositStatuses]
    BY BoundsAssumption DEF Init, DepositStatuses
  <1>2. TypeOK
    BY <1>1 DEF Init, TypeOK, AuctionStatuses
  <1>3. Shape
    BY DEF Init, Shape, Holding, AtItem
  <1> QED
    BY <1>2, <1>3

LEMMA NextTyped == TypeOK /\ Shape /\ [Next]_vars => TypeOK' /\ Shape'
  <1> SUFFICES ASSUME TypeOK, Shape, [Next]_vars PROVE TypeOK' /\ Shape'
    OBVIOUS
  <1>1. CASE UNCHANGED vars
    BY <1>1 DEF TypeOK, Shape, vars
  <1> QED
    BY <1>1, TypeWorker, TypeRetry, TypeRest DEF Next, Turns

LEMMA ShapeKept == Spec => [](TypeOK /\ Shape)
  BY InitTyped, NextTyped, PTL DEF Spec

\* Type correctness.  That a worker has a copy while it needs one, and that an
\* item it is about to fail has a retry left, is part of the invariant.
THEOREM TypeCorrect == Spec => []TypeOK
  BY ShapeKept, PTL

-----------------------------------------------------------------------------
(***************************************************************************)
(* Deposits.  A deposit moves only when a refund is initiated or its       *)
(* settlement is recorded, each in a transaction that checks the status it *)
(* moves from; Progress is what a worker knows of the deposit it is at.    *)
(***************************************************************************)

Found(w) ==
    /\ pc[w] \in {"refunding", "rereading"} => current[w] # WinnerDeposit
    /\ pc[w] \in {"calling", "recording"} =>
          deposit[current[w]] \in {Unsettled(current[w]), Settled(current[w])}

Progress == \A w \in Workers : Found(w)

Initiated(d) ==
    /\ deposit[d] = "held"
    /\ deposit' = [deposit EXCEPT ![d] = "refund_pending"]
    /\ ledger' = [ledger EXCEPT ![d].initiated = @ + 1]

LEMMA DepositSteps ==
    ASSUME TypeOK, Shape, Progress, [Next]_vars
    PROVE  \/ UNCHANGED <<deposit, ledger>>
           \/ \E d \in Deposits : d # WinnerDeposit /\ Initiated(d)
           \/ \E d \in Deposits : Recorded(d)
  <1>1. ASSUME NEW w \in Workers, InitiateRefund(w)
        PROVE  \/ UNCHANGED <<deposit, ledger>>
               \/ \E d \in Deposits : d # WinnerDeposit /\ Initiated(d)
    <2>1. current[w] \in Deposits /\ current[w] # WinnerDeposit
      BY <1>1 DEF InitiateRefund, TypeOK, Shape, AtItem, Progress, Found
    <2> QED
      BY <1>1, <2>1 DEF InitiateRefund, Initiated
  <1>2. ASSUME NEW w \in Workers, Record(w) \/ RecordFails(w)
        PROVE  \/ UNCHANGED <<deposit, ledger>>
               \/ \E d \in Deposits : Recorded(d)
    <2>1. current[w] \in Deposits
      BY <1>2 DEF Record, RecordFails, Go, TypeOK, Shape, AtItem
    <2> QED
      BY <1>2, <2>1 DEF Record, RecordFails
  <1>3. ASSUME NEW w \in Workers, Worker(w),
               ~InitiateRefund(w), ~Record(w), ~RecordFails(w)
        PROVE  UNCHANGED <<deposit, ledger>>
    BY <1>3 DEF Worker, Work, ListEnded, ListActive, AcquireLock, Skip,
                Initiate, Abandon, Begin, ReadItem, Reread, ProviderAccepts,
                ProviderFails, ProviderTimesOut, Recheck, Compare, Write,
                Complete, Escalate, Close, Continue, WorkerFails, Release,
                Crash, dbVars
  <1>4. ASSUME \/ RetrySettlement \/ LockExpires \/ BecomeOverdue
               \/ \E to \in AuctionStatuses : SetStatus(to)
               \/ UNCHANGED vars
        PROVE  UNCHANGED <<deposit, ledger>>
    BY <1>4 DEF RetrySettlement, LockExpires, BecomeOverdue, SetStatus, vars,
                dbVars
  <1> QED
    BY <1>1, <1>2, <1>3, <1>4 DEF Next, Turns

\* What is settled stays settled, and what a worker has found stays found.
LEMMA DepositsAdvance ==
    ASSUME TypeOK, Shape, Progress, [Next]_vars, NEW d \in Deposits
    PROVE  /\ deposit[d] = "collected" => deposit'[d] = "collected"
           /\ deposit[d] = Settled(d) => deposit'[d] = Settled(d)
           /\ deposit[d] \in {Unsettled(d), Settled(d)} =>
                 deposit'[d] \in {Unsettled(d), Settled(d)}
  <1>1. CASE UNCHANGED deposit
    BY <1>1
  <1>2. ASSUME NEW e \in Deposits, e # WinnerDeposit, Initiated(e)
        PROVE  /\ deposit[d] = "collected" => deposit'[d] = "collected"
               /\ deposit[d] = Settled(d) => deposit'[d] = Settled(d)
               /\ deposit[d] \in {Unsettled(d), Settled(d)} =>
                     deposit'[d] \in {Unsettled(d), Settled(d)}
    BY <1>2 DEF Initiated, TypeOK, Settled, Unsettled
  <1>3. ASSUME NEW e \in Deposits, Recorded(e)
        PROVE  /\ deposit[d] = "collected" => deposit'[d] = "collected"
               /\ deposit[d] = Settled(d) => deposit'[d] = Settled(d)
               /\ deposit[d] \in {Unsettled(d), Settled(d)} =>
                     deposit'[d] \in {Unsettled(d), Settled(d)}
    BY <1>3 DEF Recorded, TypeOK, Settled, Unsettled
  <1> QED
    BY <1>1, <1>2, <1>3, DepositSteps

LEMMA ProgressItem ==
    ASSUME TypeOK, Shape, Progress, NEW w \in Workers, Work(w),
           \A d \in Deposits :
              deposit[d] \in {Unsettled(d), Settled(d)} =>
                 deposit'[d] \in {Unsettled(d), Settled(d)}
    PROVE  Progress'
  <1>1. ASSUME NEW v \in Workers \ {w}
        PROVE  /\ pc'[v] = pc[v]
               /\ current'[v] = current[v]
               /\ pc[v] \in {"calling", "recording"} => current[v] \in Deposits
    <2>1. pc[v] \in {"calling", "recording"} => current[v] \in Deposits
      BY DEF TypeOK, Shape, AtItem
    <2>2. pc'[v] = pc[v]
      BY DEF TypeOK, Work, Initiate, Abandon, Begin, ReadItem, InitiateRefund,
             Reread, ProviderAccepts, ProviderFails, ProviderTimesOut, Record,
             RecordFails, Recheck, Compare, Write, Complete, Escalate, Close,
             Continue, Release, Answer, Go
    <2>3. current'[v] = current[v]
      BY DEF TypeOK, Work, Initiate, Abandon, Begin, ReadItem, InitiateRefund,
             Reread, ProviderAccepts, ProviderFails, ProviderTimesOut, Record,
             RecordFails, Recheck, Compare, Write, Complete, Escalate, Close,
             Continue, Release, Forget
    <2> QED
      BY <2>1, <2>2, <2>3
  <1>2. Found(w)'
    <2>1. ASSUME NEW d \in Deposits, ReadItem(w, d)
          PROVE  Found(w)'
      BY <2>1 DEF ReadItem, Answer, Go, TypeOK, Found, dbVars
    <2>2. CASE InitiateRefund(w)
      BY <2>2 DEF InitiateRefund, Go, TypeOK, Shape, AtItem, Progress, Found, Unsettled
    <2>3. CASE Reread(w)
      BY <2>3 DEF Reread, Answer, Go, TypeOK, Progress, Found, Unsettled, dbVars
    <2>4. CASE ProviderAccepts(w)
      BY <2>4 DEF ProviderAccepts, Go, TypeOK, Progress, Found, dbVars
    <2>5. CASE pc'[w] \notin {"refunding", "rereading", "calling", "recording"}
      BY <2>5 DEF Found
    <2>6. \/ \E d \in Deposits : ReadItem(w, d)
          \/ InitiateRefund(w) \/ Reread(w) \/ ProviderAccepts(w)
          \/ pc'[w] \notin {"refunding", "rereading", "calling", "recording"}
      BY DEF TypeOK, Work, Initiate, Abandon, Begin, ProviderFails,
             ProviderTimesOut, Record, RecordFails, Recheck, Compare, Write,
             Complete, Escalate, Close, Continue, Release, Answer, Go
    <2> QED
      BY <2>1, <2>2, <2>3, <2>4, <2>5, <2>6
  <1> QED
    BY <1>1, <1>2 DEF Progress, Found, Unsettled, Settled

LEMMA ProgressKept ==
    ASSUME TypeOK, Shape, Progress, [Next]_vars
    PROVE  Progress'
  <1>1. \A d \in Deposits :
           deposit[d] \in {Unsettled(d), Settled(d)} =>
              deposit'[d] \in {Unsettled(d), Settled(d)}
    BY DepositsAdvance
  <1>2. ASSUME NEW w \in Workers,
               ListEnded(w) \/ ListActive(w) \/ AcquireLock(w) \/ Skip(w)
        PROVE  Progress'
    BY <1>2 DEF TypeOK, Progress, Found, Unsettled, Settled, ListEnded,
                ListActive, AcquireLock, Skip, Go, dbVars
  <1>3. ASSUME NEW w \in Workers, WorkerFails(w) \/ Crash(w)
        PROVE  Progress'
    BY <1>3 DEF TypeOK, Progress, Found, Unsettled, Settled, WorkerFails, Crash,
                Forget, dbVars
  <1>4. ASSUME \/ RetrySettlement \/ LockExpires \/ BecomeOverdue
               \/ \E to \in AuctionStatuses : SetStatus(to)
               \/ UNCHANGED vars
        PROVE  Progress'
    BY <1>4 DEF Progress, Found, Unsettled, Settled, RetrySettlement,
                LockExpires, BecomeOverdue, SetStatus, vars, dbVars, workerVars
  <1> QED
    BY <1>1, <1>2, <1>3, <1>4, ProgressItem DEF Next, Turns, Worker

LEMMA ProgressInvariant == Spec => [](TypeOK /\ Shape /\ Progress)
  <1>1. Init => Progress
    BY DEF Init, Progress, Found
  <1>2. TypeOK /\ Shape /\ Progress /\ [Next]_vars => Progress'
    BY ProgressKept
  <1> QED
    BY <1>1, <1>2, ShapeKept, PTL DEF Spec

\* The ledger has one entry for every step of a deposit and no more, whatever
\* workers, locks and administrators do: each entry is written with the status
\* it stands for, and no status is reached twice.
THEOREM LedgerCorrect == Spec => []LedgerMatchesDeposits
  <1>1. Init => LedgerMatchesDeposits
    BY BoundsAssumption DEF Init, LedgerMatchesDeposits, Settled
  <1>2. TypeOK /\ Shape /\ Progress /\ LedgerMatchesDeposits /\ [Next]_vars
           => LedgerMatchesDeposits'
    <2> SUFFICES ASSUME TypeOK, Shape, Progress, LedgerMatchesDeposits,
                        [Next]_vars
                 PROVE  LedgerMatchesDeposits'
      OBVIOUS
    <2>1. CASE UNCHANGED <<deposit, ledger>>
      BY <2>1 DEF LedgerMatchesDeposits, Settled
    <2>2. ASSUME NEW d \in Deposits, Initiated(d)
          PROVE  LedgerMatchesDeposits'
      BY <2>2 DEF TypeOK, LedgerMatchesDeposits, Initiated, Settled
    <2>3. ASSUME NEW d \in Deposits, Recorded(d)
          PROVE  LedgerMatchesDeposits'
      BY <2>3 DEF TypeOK, LedgerMatchesDeposits, Recorded, Settled, Unsettled
    <2> QED
      BY <2>1, <2>2, <2>3, DepositSteps
  <1> QED
    BY <1>1, <1>2, ProgressInvariant, PTL DEF Spec

-----------------------------------------------------------------------------
(***************************************************************************)
(* The manifest.  A worker saves copies that are long stale, so it is not  *)
(* enough that the manifest is right: every copy is right as well.  A      *)
(* stale copy knows less than the deposits do, and what it knows is still  *)
(* true, because what is settled stays settled.                            *)
(***************************************************************************)

\* What m says is acknowledged is settled in dep, and what has no item in m is
\* none of the settlement's business.
Truthful(m, dep) ==
    \A d \in Deposits :
        /\ m.items[d].status = "acknowledged" => dep[d] = Settled(d)
        /\ m.items[d].status = "absent" => dep[d] = "collected"

\* No deposit moves before there is a manifest.
Untouched ==
    manifest = None => \A d \in Deposits : deposit[d] \in {"collected", "held"}

Truth ==
    /\ manifest # None => Truthful(manifest, deposit)
    /\ \A w \in Workers : copy[w] # None => Truthful(copy[w], deposit)

\* w answers an item, with "acknowledged" only if the deposit is settled.
AnswersHonestly(w) ==
    \E d \in Deposits :
        \/ Answer(w, d, Failed(copy[w].items[d]))
        \/ /\ Answer(w, d, Acknowledged(copy[w].items[d]))
           /\ deposit'[d] = Settled(d)

LEMMA HonestAnswer ==
    ASSUME TypeOK, Shape, NEW w \in Workers, pc[w] \in Holding,
           AnswersHonestly(w), Truthful(copy[w], deposit')
    PROVE  Truthful(copy'[w], deposit')
  <1>1. PICK d \in Deposits :
           \E item \in {Failed(copy[w].items[d]),
                        Acknowledged(copy[w].items[d])} :
              /\ Answer(w, d, item)
              /\ item # Failed(copy[w].items[d]) => deposit'[d] = Settled(d)
    BY DEF AnswersHonestly
  <1>2. PICK item \in {Failed(copy[w].items[d]),
                       Acknowledged(copy[w].items[d])} :
           /\ Answer(w, d, item)
           /\ item # Failed(copy[w].items[d]) => deposit'[d] = Settled(d)
    BY <1>1
  <1>3. copy[w] \in Manifest /\ copy[w].items[d] \in Item
    BY DEF TypeOK, Shape, Manifest
  <1>4. copy'[w].items = [copy[w].items EXCEPT ![d] = item]
    BY <1>2, <1>3 DEF Answer, TypeOK, Manifest
  <1>5. Failed(copy[w].items[d]).status = "failed"
    BY <1>3 DEF Failed, Item
  <1>6. /\ item.status = "acknowledged" => deposit'[d] = Settled(d)
        /\ item.status # "absent"
    BY <1>2, <1>3, <1>5, AcknowledgedItem
  <1> QED
    BY <1>3, <1>4, <1>6 DEF Truthful, Manifest

LEMMA ItemSteps ==
    ASSUME TypeOK, Shape, Progress, NEW w \in Workers,
           \/ \E d \in Deposits : ReadItem(w, d)
           \/ InitiateRefund(w) \/ Reread(w)
           \/ ProviderAccepts(w) \/ ProviderFails(w) \/ ProviderTimesOut(w)
           \/ Record(w) \/ RecordFails(w) \/ Recheck(w)
    PROVE  /\ pc[w] \in Holding
           /\ UNCHANGED manifest
           /\ AnswersHonestly(w) \/ UNCHANGED copy
  <1>1. pc[w] \in Holding /\ UNCHANGED manifest
    BY DEF ReadItem, InitiateRefund, Reread, ProviderAccepts, ProviderFails,
           ProviderTimesOut, Record, RecordFails, Recheck, Go, Holding, dbVars
  <1> SUFFICES AnswersHonestly(w) \/ UNCHANGED copy
    BY <1>1
  <1>2. ASSUME NEW d \in Deposits, ReadItem(w, d)
        PROVE  AnswersHonestly(w) \/ UNCHANGED copy
    BY <1>2 DEF ReadItem, AnswersHonestly, dbVars
  <1>3. pc[w] \in AtItem => current[w] \in Deposits
    BY DEF TypeOK, Shape
  <1>4. CASE Reread(w)
    BY <1>3, <1>4 DEF Reread, AnswersHonestly, AtItem, Progress, Found, Settled,
                      dbVars
  <1>5. CASE ProviderFails(w) \/ Recheck(w)
    BY <1>3, <1>5 DEF ProviderFails, Recheck, AnswersHonestly, AtItem, dbVars
  <1>6. CASE Record(w)
    <2>1. deposit'[current[w]] = Settled(current[w])
      BY <1>3, <1>6 DEF Record, Recorded, TypeOK, AtItem, Progress, Found
    <2> QED
      BY <1>3, <1>6, <2>1 DEF Record, AnswersHonestly, AtItem
  <1>7. CASE InitiateRefund(w) \/ ProviderAccepts(w) \/ ProviderTimesOut(w)
             \/ RecordFails(w)
    BY <1>7 DEF InitiateRefund, ProviderAccepts, ProviderTimesOut, RecordFails
  <1> QED
    BY <1>2, <1>4, <1>5, <1>6, <1>7

LEMMA TruthItem ==
    ASSUME TypeOK, Shape, Truth, NEW w \in Workers, pc[w] \in Holding,
           UNCHANGED manifest, AnswersHonestly(w) \/ UNCHANGED copy,
           \A m : Truthful(m, deposit) => Truthful(m, deposit')
    PROVE  Truth'
  <1>1. CASE AnswersHonestly(w)
    <2>1. Truthful(copy'[w], deposit')
      BY <1>1, HonestAnswer DEF Truth, Shape
    <2>2. \A v \in Workers \ {w} : copy'[v] = copy[v]
      BY <1>1 DEF AnswersHonestly, Answer, TypeOK
    <2> QED
      BY <2>1, <2>2 DEF Truth
  <1>2. CASE UNCHANGED copy
    BY <1>2 DEF Truth
  <1> QED
    BY <1>1, <1>2

\* Every other step moves manifests about: a copy is forgotten or read from the
\* manifest, and the manifest gets the items of a copy.
LEMMA TruthMoved ==
    ASSUME TypeOK, Shape, Untouched, Truth, NEW w \in Workers,
           \/ ListEnded(w) \/ ListActive(w) \/ AcquireLock(w) \/ Skip(w)
           \/ Initiate(w) \/ Abandon(w) \/ Begin(w)
           \/ Compare(w) \/ Write(w)
           \/ Complete(w) \/ Escalate(w) \/ Continue(w)
           \/ Release(w) \/ WorkerFails(w) \/ Crash(w)
    PROVE  Truth'
  <1>1. UNCHANGED deposit
    BY DEF ListEnded, ListActive, AcquireLock, Skip, Initiate, Abandon, Begin,
           Compare, Write, Complete, Escalate, Close, Continue, Release,
           WorkerFails, Crash, dbVars
  <1>2. manifest = None => Truthful(NewManifest, deposit)
    BY DEF Truthful, NewManifest, Untouched
  <1>3. \A v \in Workers :
           \/ copy'[v] \in {copy[v], manifest, None}
           \/ manifest = None /\ copy'[v] = NewManifest
    BY DEF TypeOK, ListEnded, ListActive, AcquireLock, Skip, Initiate, Abandon,
           Begin, Compare, Write, Complete, Escalate, Close, Continue, Release,
           WorkerFails, Crash, Forget
  <1>4. manifest' # None => Truthful(manifest', deposit)
    <2>1. CASE Abandon(w) \/ Write(w) \/ Complete(w) \/ Escalate(w)
      <3>1. copy[w] \in Manifest /\ Truthful(copy[w], deposit)
        BY <2>1 DEF Abandon, Write, Complete, Escalate, Close, Go, TypeOK,
                    Shape, Truth, Holding
      <3>2. \/ manifest' = manifest
            \/ manifest'.items = copy[w].items
            \/ manifest # None /\ manifest'.items = manifest.items
        BY <2>1, <3>1 DEF Abandon, Write, Complete, Escalate, Close, Manifest,
                          Shape
      <3> QED
        BY <3>1, <3>2 DEF Truthful, Truth
    <2>2. CASE Initiate(w)
      BY <1>2, <2>2 DEF Initiate, Truth
    <2>3. CASE ~(Abandon(w) \/ Write(w) \/ Complete(w) \/ Escalate(w)
                 \/ Initiate(w))
      BY <2>3 DEF Truth, ListEnded, ListActive, AcquireLock, Skip, Begin,
                  Compare, Continue, Release, WorkerFails, Crash, dbVars
    <2> QED
      BY <2>1, <2>2, <2>3
  <1> QED
    BY <1>1, <1>2, <1>3, <1>4 DEF Truth, Shape

LEMMA TruthRest ==
    ASSUME TypeOK, Shape, Truth,
           \/ RetrySettlement \/ LockExpires \/ BecomeOverdue
           \/ \E to \in AuctionStatuses : SetStatus(to)
           \/ UNCHANGED vars
    PROVE  Truth'
  <1>1. CASE RetrySettlement
    <2>1. UNCHANGED <<deposit, copy>>
      BY <1>1 DEF RetrySettlement, workerVars
    <2>2. \A d \in Deposits :
             manifest'.items[d].status \in {"acknowledged", "absent"} =>
                manifest'.items[d].status = manifest.items[d].status
      BY <1>1 DEF RetrySettlement
    <2>3. manifest # None
      BY <1>1 DEF RetrySettlement
    <2> QED
      BY <2>1, <2>2, <2>3 DEF Truth, Truthful
  <1>2. CASE ~RetrySettlement
    BY <1>2 DEF Truth, LockExpires, BecomeOverdue, SetStatus, vars, dbVars,
                workerVars
  <1> QED
    BY <1>1, <1>2

LEMMA ManifestStays ==
    ASSUME TypeOK, Shape, [Next]_vars, manifest # None
    PROVE  manifest' # None
  <1>1. ASSUME NEW w \in Workers, Abandon(w) \/ Complete(w) \/ Escalate(w)
        PROVE  manifest' # None
    <2>1. copy[w] \in Manifest
      BY <1>1 DEF Abandon, Complete, Escalate, Close, Go, TypeOK, Shape, Holding
    <2>2. \/ manifest' = manifest
          \/ \E status \in {"completed", "expired", "escalated"} :
                manifest' = [copy[w] EXCEPT !.status = status]
      BY <1>1 DEF Abandon, Complete, Escalate, Close
    <2> QED
      BY <2>1, <2>2, ManifestFields
  <1>2. ASSUME NEW w \in Workers, Write(w)
        PROVE  manifest' # None
    <2>1. copy[w] \in Manifest /\ manifest \in Manifest
      BY <1>2 DEF TypeOK, Shape, Write, Go, Holding
    <2>2. manifest' \in Manifest
      BY <1>2, <2>1 DEF Write, Manifest
    <2> QED
      BY <2>2, NoneAssumption
  <1>3. ASSUME NEW w \in Workers, Worker(w),
               ~Abandon(w), ~Complete(w), ~Escalate(w), ~Write(w)
        PROVE  UNCHANGED manifest
    BY <1>3 DEF Worker, Work, ListEnded, ListActive, AcquireLock, Skip,
                Initiate, Begin, ReadItem, InitiateRefund, Reread,
                ProviderAccepts, ProviderFails, ProviderTimesOut, Record,
                RecordFails, Recheck, Compare, Continue, WorkerFails, Release,
                Crash, dbVars
  <1>4. CASE \/ LockExpires \/ BecomeOverdue \/ UNCHANGED vars
             \/ \E to \in AuctionStatuses : SetStatus(to)
    BY <1>4 DEF LockExpires, BecomeOverdue, SetStatus, vars, dbVars
  <1> QED
    BY <1>1, <1>2, <1>3, <1>4, TypeRetry DEF Next, Turns

LEMMA UntouchedKept ==
    ASSUME TypeOK, Shape, Progress, Untouched, [Next]_vars
    PROVE  Untouched'
  <1>1. CASE manifest = None
    <2>1. \A w \in Workers : pc[w] \notin AtItem
      BY <1>1 DEF Shape, AtItem, Holding
    <2>2. ASSUME NEW w \in Workers, Worker(w)
          PROVE  UNCHANGED deposit
      BY <2>1, <2>2
         DEF Worker, Work, ListEnded, ListActive, AcquireLock, Skip, Initiate,
             Abandon, Begin, ReadItem, InitiateRefund, Reread, ProviderAccepts,
             ProviderFails, ProviderTimesOut, Record, RecordFails, Recheck,
             Compare, Write, Complete, Escalate, Close, Continue, WorkerFails,
             Release, Crash, Go, AtItem, dbVars
    <2>3. UNCHANGED deposit
      BY <2>2 DEF Next, Turns, LockExpires, BecomeOverdue, SetStatus,
                  RetrySettlement, vars, dbVars
    <2> QED
      BY <1>1, <2>3 DEF Untouched
  <1>2. CASE manifest # None
    <2>1. manifest' # None
      BY <1>2, ManifestStays
    <2> QED
      BY <2>1 DEF Untouched
  <1> QED
    BY <1>1, <1>2

LEMMA TruthInvariant ==
    Spec => [](TypeOK /\ Shape /\ Progress /\ Untouched /\ Truth)
  <1>1. Init => Untouched /\ Truth
    BY BoundsAssumption DEF Init, Untouched, Truth
  <1>2. TypeOK /\ Shape /\ Progress /\ Untouched /\ Truth /\ [Next]_vars
           => Untouched' /\ Truth'
    <2> SUFFICES ASSUME TypeOK, Shape, Progress, Untouched, Truth, [Next]_vars
                 PROVE  Untouched' /\ Truth'
      OBVIOUS
    <2>1. \A m : Truthful(m, deposit) => Truthful(m, deposit')
      BY DepositsAdvance DEF Truthful
    <2> QED
      BY <2>1, ItemSteps, UntouchedKept, TruthItem, TruthMoved, TruthRest
         DEF Next, Turns, Worker, Work
  <1> QED
    BY <1>1, <1>2, ProgressInvariant, PTL DEF Spec

\* An item that the manifest says is acknowledged belongs to a deposit that is
\* captured or refunded, although workers save copies that are long stale.
THEOREM ManifestCorrect == Spec => []ManifestMatchesDeposits
  <1>1. Truth => ManifestMatchesDeposits
    BY DEF Truth, Truthful, ManifestMatchesDeposits
  <1> QED
    BY <1>1, TruthInvariant, PTL

-----------------------------------------------------------------------------
(***************************************************************************)
(* Timely turns.  While no live worker loses its lock, the lock excludes   *)
(* the others from a whole turn, and what a worker found of a deposit is   *)
(* still so when it calls the provider.                                    *)
(***************************************************************************)

InTurn == {"initiating", "holding", "items", "refunding", "rereading",
           "calling", "recording", "rechecking", "saving", "writing",
           "releasing"}

Exclusion == \A w \in Workers : pc[w] \in InTurn => lock = w

CallIsDue ==
    \A w \in Workers :
        pc[w] = "calling" => deposit[current[w]] = Unsettled(current[w])

LEMMA ExclusionKept ==
    ASSUME TypeOK, Exclusion, [TimelyNext]_vars
    PROVE  Exclusion'
  <1>1. ASSUME NEW w \in Workers, AcquireLock(w)
        PROVE  Exclusion'
    <2>1. \A v \in Workers : pc[v] \notin InTurn
      BY <1>1, NoneAssumption DEF AcquireLock, Exclusion
    <2> QED
      BY <1>1, <2>1 DEF AcquireLock, Exclusion, Go, TypeOK, InTurn
  <1>2. ASSUME NEW w \in Workers, Release(w)
        PROVE  Exclusion'
    <2>1. \A v \in Workers \ {w} : pc[v] \notin InTurn
      BY <1>2 DEF Release, Exclusion, Go, InTurn
    <2> QED
      BY <1>2, <2>1 DEF Release, Exclusion, Go, TypeOK, InTurn
  <1>3. ASSUME NEW w \in Workers, Worker(w), ~AcquireLock(w), ~Release(w)
        PROVE  Exclusion'
    <2>1. UNCHANGED lock
      BY <1>3 DEF Worker, Work, ListEnded, ListActive, Skip, Initiate, Abandon,
                  Begin, ReadItem, InitiateRefund, Reread, ProviderAccepts,
                  ProviderFails, ProviderTimesOut, Record, RecordFails, Recheck,
                  Compare, Write, Complete, Escalate, Close, Continue,
                  WorkerFails, Crash
    <2>2. \A v \in Workers \ {w} : pc'[v] = pc[v]
      BY <1>3 DEF TypeOK, Worker, Work, ListEnded, ListActive, Skip, Initiate,
                  Abandon, Begin, ReadItem, InitiateRefund, Reread,
                  ProviderAccepts, ProviderFails, ProviderTimesOut, Record,
                  RecordFails, Recheck, Compare, Write, Complete, Escalate,
                  Close, Continue, WorkerFails, Crash, Answer, Go
    <2>3. pc[w] \in InTurn \/ pc'[w] \notin InTurn
      BY <1>3 DEF TypeOK, Worker, Work, ListEnded, ListActive, Skip, Initiate,
                  Abandon, Begin, ReadItem, InitiateRefund, Reread,
                  ProviderAccepts, ProviderFails, ProviderTimesOut, Record,
                  RecordFails, Recheck, Compare, Write, Complete, Escalate,
                  Close, Continue, WorkerFails, Crash, Answer, Go, InTurn
    <2> QED
      BY <2>1, <2>2, <2>3 DEF Exclusion
  <1>4. CASE DeadLockExpires
    <2>1. \A v \in Workers : pc[v] \notin InTurn
      BY <1>4 DEF DeadLockExpires, Exclusion, InTurn
    <2> QED
      BY <1>4, <2>1 DEF DeadLockExpires, LockExpires, Exclusion, workerVars
  <1>5. CASE BecomeOverdue \/ RetrySettlement \/ UNCHANGED vars
    BY <1>5 DEF BecomeOverdue, RetrySettlement, Exclusion, vars, workerVars
  <1> QED
    BY <1>1, <1>2, <1>3, <1>4, <1>5 DEF TimelyNext, Turns

LEMMA CallIsDueKept ==
    ASSUME TypeOK, Shape, Progress, Exclusion, CallIsDue, [TimelyNext]_vars
    PROVE  CallIsDue'
  <1>1. ASSUME NEW w \in Workers, Worker(w), NEW v \in Workers \ {w},
               pc'[v] = "calling"
        PROVE  deposit'[current'[v]] = Unsettled(current'[v])
    <2>1. pc[v] = "calling" /\ current'[v] = current[v]
      BY <1>1 DEF TypeOK, Worker, Work, ListEnded, ListActive, AcquireLock, Skip,
                  Initiate, Abandon, Begin, ReadItem, InitiateRefund, Reread,
                  ProviderAccepts, ProviderFails, ProviderTimesOut, Record,
                  RecordFails, Recheck, Compare, Write, Complete, Escalate,
                  Close, Continue, WorkerFails, Release, Crash, Forget, Answer,
                  Go
    <2>2. pc[w] \notin InTurn
      BY <2>1 DEF Exclusion, InTurn
    <2>3. UNCHANGED deposit
      BY <1>1, <2>2
         DEF Worker, Work, ListEnded, ListActive, AcquireLock, Skip, Initiate,
             Abandon, Begin, ReadItem, InitiateRefund, Reread, ProviderAccepts,
             ProviderFails, ProviderTimesOut, Record, RecordFails, Recheck,
             Compare, Write, Complete, Escalate, Close, Continue, WorkerFails,
             Release, Crash, Go, InTurn, dbVars
    <2> QED
      BY <2>1, <2>3 DEF CallIsDue
  <1>2. ASSUME NEW w \in Workers, Worker(w), pc'[w] = "calling"
        PROVE  deposit'[current'[w]] = Unsettled(current'[w])
    <2>1. \/ \E d \in Deposits : ReadItem(w, d)
          \/ InitiateRefund(w) \/ Reread(w)
      BY <1>2 DEF TypeOK, Worker, Work, ListEnded, ListActive, AcquireLock, Skip,
                  Initiate, Abandon, Begin, ProviderAccepts, ProviderFails,
                  ProviderTimesOut, Record, RecordFails, Recheck, Compare,
                  Write, Complete, Escalate, Close, Continue, WorkerFails,
                  Release, Crash, Answer, Go
    <2>2. ASSUME NEW d \in Deposits, ReadItem(w, d)
          PROVE  deposit'[current'[w]] = Unsettled(current'[w])
      <3>1. current'[w] = d /\ deposit' = deposit
        BY <2>2 DEF TypeOK, ReadItem, dbVars
      <3>2. ~Answer(w, d, Acknowledged(copy[w].items[d]))
            /\ ~Answer(w, d, Failed(copy[w].items[d]))
            /\ ~Go(w, "items", "refunding")
        BY <1>2 DEF TypeOK, Answer, Go
      <3>3. deposit[d] = Unsettled(d)
        BY <2>2, <3>2 DEF ReadItem
      <3> QED
        BY <3>1, <3>3
    <2>3. CASE InitiateRefund(w)
      BY <1>2, <2>3 DEF TypeOK, Shape, AtItem, InitiateRefund, Go, Progress,
                        Found, Unsettled
    <2>4. CASE Reread(w)
      BY <1>2, <2>4 DEF TypeOK, Reread, Answer, Go, Progress, Found, Unsettled,
                        dbVars
    <2> QED
      BY <2>1, <2>2, <2>3, <2>4
  <1>3. CASE DeadLockExpires \/ BecomeOverdue \/ RetrySettlement
             \/ UNCHANGED vars
    BY <1>3 DEF DeadLockExpires, LockExpires, BecomeOverdue, RetrySettlement,
                CallIsDue, Unsettled, vars, dbVars, workerVars
  <1> QED
    BY <1>1, <1>2, <1>3 DEF CallIsDue, Unsettled, TimelyNext, Turns

\* While turns end within the lock's TTL, nobody asks the provider for money
\* that is recorded as moved, however stale the copies and however many crashes.
THEOREM NoSecondCallCorrect == TimelySpec => []NoSecondCall
  <1>1. TimelySpec => Spec
    <2>1. [TimelyNext]_vars => [Next]_vars
      BY DEF TimelyNext, Next, DeadLockExpires
    <2> QED
      BY <2>1, PTL DEF TimelySpec, Spec
  <1>2. Init => Exclusion /\ CallIsDue
    BY DEF Init, Exclusion, CallIsDue, InTurn
  <1>3. TypeOK /\ Shape /\ Progress /\ Exclusion /\ CallIsDue
           /\ [TimelyNext]_vars => Exclusion' /\ CallIsDue'
    BY ExclusionKept, CallIsDueKept
  <1>4. CallIsDue => NoSecondCall
    BY DEF CallIsDue, NoSecondCall, Unsettled, Settled
  <1> QED
    BY <1>1, <1>2, <1>3, <1>4, ProgressInvariant, PTL DEF TimelySpec

-----------------------------------------------------------------------------
(***************************************************************************)
(* The promise of Escrow.  Apart from the status and the deposits, the     *)
(* refinement needs to know that a worker at an item has begun the         *)
(* settlement, that the provider has moved what a worker is about to       *)
(* record, and that nothing is left to do once the auction is settled,     *)
(* since a worker that lost its lock may be at an item even then.          *)
(***************************************************************************)

Begun ==
    /\ auction \in {"ended", "settling", "settled", "settlement_failed"}
    /\ auction = "ended" => manifest = None
    /\ auction = "settled" =>
          \A d \in Deposits : deposit[d] \notin {"held", "refund_pending"}
    /\ \A w \in Workers : pc[w] = "recording" => current[w] \in moved

EscrowInv == TypeOK /\ Shape /\ Progress /\ Untouched /\ Truth /\ Begun

LEMMA UnattendedIsNext == [UnattendedNext]_vars => [Next]_vars
  BY DEF UnattendedNext, Next

\* What the workers do, seen from the auction, its deposits and the provider.
LEMMA AuctionSteps ==
    ASSUME EscrowInv, [UnattendedNext]_vars
    PROVE  \/ UNCHANGED auction
           \/ /\ auction = "ended" /\ auction' = "settling"
              /\ UNCHANGED <<deposit, moved>>
           \/ /\ auction = "settling" /\ auction' = "settlement_failed"
              /\ UNCHANGED <<deposit, moved>>
           \/ /\ auction = "settling" /\ auction' = "settled"
              /\ UNCHANGED <<deposit, moved>>
              /\ \A d \in Deposits : deposit[d] \notin {"held", "refund_pending"}
  <1>1. ASSUME NEW w \in Workers, Complete(w), auction = "settling"
        PROVE  /\ auction' = "settled"
               /\ UNCHANGED <<deposit, moved>>
               /\ \A d \in Deposits : deposit[d] \notin {"held", "refund_pending"}
    <2>1. copy[w] \in Manifest /\ Truthful(copy[w], deposit)
      BY <1>1 DEF EscrowInv, TypeOK, Shape, Truth, Complete, Close, Go, Holding
    <2>2. \A d \in Deposits : copy[w].items[d].status \in {"absent", "acknowledged"}
      BY <1>1 DEF Complete, AllAcknowledged, ItemsOf
    <2>3. \A d \in Deposits : deposit[d] \in {"collected", Settled(d)}
      BY <2>1, <2>2 DEF Truthful
    <2>4. \A d \in Deposits : deposit[d] \notin {"held", "refund_pending"}
      BY <2>3 DEF Settled
    <2> QED
      BY <1>1, <2>4 DEF Complete, Close
  <1>2. ASSUME NEW w \in Workers, Complete(w), auction # "settling"
        PROVE  UNCHANGED auction
    BY <1>2 DEF Complete, Close
  <1>3. ASSUME NEW w \in Workers, Abandon(w) \/ Escalate(w)
        PROVE  \/ UNCHANGED auction
               \/ /\ auction = "settling" /\ auction' = "settlement_failed"
                  /\ UNCHANGED <<deposit, moved>>
    BY <1>3 DEF Abandon, Escalate, Close
  <1>4. ASSUME NEW w \in Workers, Initiate(w)
        PROVE  \/ UNCHANGED auction
               \/ /\ auction = "ended" /\ auction' = "settling"
                  /\ UNCHANGED <<deposit, moved>>
    BY <1>4 DEF Initiate
  <1>5. ASSUME NEW w \in Workers, Worker(w),
               ~Complete(w), ~Abandon(w), ~Escalate(w), ~Initiate(w)
        PROVE  UNCHANGED auction
    BY <1>5 DEF Worker, Work, ListEnded, ListActive, AcquireLock, Skip, Begin,
                ReadItem, InitiateRefund, Reread, ProviderAccepts,
                ProviderFails, ProviderTimesOut, Record, RecordFails, Recheck,
                Compare, Write, Continue, WorkerFails, Release, Crash, dbVars
  <1>6. CASE LockExpires \/ BecomeOverdue \/ RetrySettlement \/ UNCHANGED vars
    BY <1>6 DEF LockExpires, BecomeOverdue, RetrySettlement, DbTransitions,
                vars, dbVars
  <1> QED
    BY <1>1, <1>2, <1>3, <1>4, <1>5, <1>6 DEF UnattendedNext, Turns

LEMMA AtItemBegun ==
    ASSUME EscrowInv, NEW w \in Workers, pc[w] \in AtItem
    PROVE  current[w] \in Deposits /\ auction # "ended"
  BY DEF EscrowInv, TypeOK, Shape, Begun, AtItem, Holding

LEMMA MovedSteps ==
    ASSUME EscrowInv, [UnattendedNext]_vars
    PROVE  \/ UNCHANGED moved
           \/ \E d \in Deposits :
                 /\ auction # "ended" /\ deposit[d] # "collected"
                 /\ moved' = moved \cup {d}
                 /\ UNCHANGED <<auction, deposit>>
  <1>1. ASSUME NEW w \in Workers,
               ProviderAccepts(w) \/ ProviderFails(w) \/ ProviderTimesOut(w)
        PROVE  \/ UNCHANGED moved
               \/ \E d \in Deposits :
                     /\ auction # "ended" /\ deposit[d] # "collected"
                     /\ moved' = moved \cup {d}
                     /\ UNCHANGED <<auction, deposit>>
    <2>1. pc[w] = "calling"
      BY <1>1 DEF ProviderAccepts, ProviderFails, ProviderTimesOut, Go
    <2>2. current[w] \in Deposits /\ auction # "ended"
      BY <2>1, AtItemBegun DEF AtItem
    <2>3. deposit[current[w]] # "collected"
      BY <2>1 DEF EscrowInv, Progress, Found, Unsettled, Settled
    <2>4. UNCHANGED <<auction, deposit>>
      BY <1>1 DEF ProviderAccepts, ProviderFails, ProviderTimesOut, dbVars
    <2>5. moved' \in {moved, moved \cup {current[w]}}
      BY <1>1 DEF ProviderAccepts, ProviderFails, ProviderTimesOut
    <2> QED
      BY <2>2, <2>3, <2>4, <2>5
  <1>2. ASSUME NEW w \in Workers, Worker(w),
               ~ProviderAccepts(w), ~ProviderFails(w), ~ProviderTimesOut(w)
        PROVE  UNCHANGED moved
    BY <1>2 DEF Worker, Work, ListEnded, ListActive, AcquireLock, Skip,
                Initiate, Abandon, Begin, ReadItem, InitiateRefund, Reread,
                Record, RecordFails, Recheck, Compare, Write, Complete,
                Escalate, Close, Continue, WorkerFails, Release, Crash
  <1>3. CASE LockExpires \/ BecomeOverdue \/ RetrySettlement \/ UNCHANGED vars
    BY <1>3 DEF LockExpires, BecomeOverdue, RetrySettlement, vars
  <1> QED
    BY <1>1, <1>2, <1>3 DEF UnattendedNext, Turns

\* The two steps of a deposit, in a settlement that has begun and is not over.
LEMMA DepositStepsBegun ==
    ASSUME EscrowInv, [UnattendedNext]_vars
    PROVE  \/ UNCHANGED deposit
           \/ /\ auction \in {"settling", "settlement_failed"}
              /\ UNCHANGED <<auction, moved>>
              /\ \E d \in Deposits :
                    \/ /\ d # WinnerDeposit
                       /\ deposit[d] = "held"
                       /\ deposit' = [deposit EXCEPT ![d] = "refund_pending"]
                    \/ /\ d \in moved
                       /\ deposit[d] = Unsettled(d)
                       /\ deposit' = [deposit EXCEPT ![d] = Settled(d)]
  <1>1. ASSUME NEW w \in Workers,
               InitiateRefund(w) \/ Record(w) \/ RecordFails(w),
               deposit' # deposit
        PROVE  /\ auction \in {"settling", "settlement_failed"}
               /\ UNCHANGED <<auction, moved>>
               /\ \E d \in Deposits :
                     \/ /\ d # WinnerDeposit
                        /\ deposit[d] = "held"
                        /\ deposit' = [deposit EXCEPT ![d] = "refund_pending"]
                     \/ /\ d \in moved
                        /\ deposit[d] = Unsettled(d)
                        /\ deposit' = [deposit EXCEPT ![d] = Settled(d)]
    <2> DEFINE d == current[w]
    <2>1. pc[w] \in AtItem /\ UNCHANGED <<auction, moved>>
      BY <1>1 DEF InitiateRefund, Record, RecordFails, Go, AtItem
    <2>2. d \in Deposits /\ auction # "ended"
      BY <2>1, AtItemBegun
    <2>3. CASE InitiateRefund(w)
      <3>1. d # WinnerDeposit
        BY <2>3 DEF InitiateRefund, EscrowInv, Progress, Found
      <3>2. /\ deposit[d] = "held"
            /\ deposit' = [deposit EXCEPT ![d] = "refund_pending"]
        BY <1>1, <2>3 DEF InitiateRefund
      <3>3. auction # "settled"
        BY <2>2, <3>2 DEF EscrowInv, Begun
      <3> QED
        BY <2>1, <2>2, <3>1, <3>2, <3>3 DEF EscrowInv, Begun
    <2>4. CASE Record(w) \/ RecordFails(w)
      <3>1. d \in moved
        BY <2>4 DEF Record, RecordFails, Go, EscrowInv, Begun
      <3>2. /\ deposit[d] = Unsettled(d)
            /\ deposit' = [deposit EXCEPT ![d] = Settled(d)]
        BY <1>1, <2>4 DEF Record, RecordFails, Recorded
      <3>3. auction # "settled"
        BY <2>2, <3>2 DEF EscrowInv, Begun, Unsettled
      <3> QED
        BY <2>1, <2>2, <3>1, <3>2, <3>3 DEF EscrowInv, Begun
    <2> QED
      BY <1>1, <2>3, <2>4
  <1>2. ASSUME NEW w \in Workers, Worker(w),
               ~InitiateRefund(w), ~Record(w), ~RecordFails(w)
        PROVE  UNCHANGED deposit
    BY <1>2 DEF Worker, Work, ListEnded, ListActive, AcquireLock, Skip,
                Initiate, Abandon, Begin, ReadItem, Reread, ProviderAccepts,
                ProviderFails, ProviderTimesOut, Recheck, Compare, Write,
                Complete, Escalate, Close, Continue, WorkerFails, Release,
                Crash, dbVars
  <1>3. CASE LockExpires \/ BecomeOverdue \/ RetrySettlement \/ UNCHANGED vars
    BY <1>3 DEF LockExpires, BecomeOverdue, RetrySettlement, vars, dbVars
  <1> QED
    BY <1>1, <1>2, <1>3 DEF UnattendedNext, Turns

LEMMA BegunKept ==
    ASSUME EscrowInv, [UnattendedNext]_vars
    PROVE  Begun'
  <1>1. auction' \in {"ended", "settling", "settled", "settlement_failed"}
    BY AuctionSteps DEF EscrowInv, Begun
  <1>2. auction' = "ended" => manifest' = None
    <2>1. SUFFICES ASSUME auction' = "ended" PROVE manifest' = None
      OBVIOUS
    <2>2. auction = "ended" /\ manifest = None
      BY <2>1, AuctionSteps DEF EscrowInv, Begun
    <2>3. \A w \in Workers : pc[w] \notin Holding
      BY <2>2 DEF EscrowInv, Shape
    <2>4. ASSUME NEW w \in Workers, Worker(w)
          PROVE  UNCHANGED manifest
      BY <2>1, <2>3, <2>4
         DEF Worker, Work, ListEnded, ListActive, AcquireLock, Skip, Initiate,
             Abandon, Begin, ReadItem, InitiateRefund, Reread, ProviderAccepts,
             ProviderFails, ProviderTimesOut, Record, RecordFails, Recheck,
             Compare, Write, Complete, Escalate, Close, Continue, WorkerFails,
             Release, Crash, Go, Holding, dbVars
    <2> QED
      BY <2>2, <2>4 DEF UnattendedNext, Turns, LockExpires, BecomeOverdue,
                        RetrySettlement, vars, dbVars
  <1>3. auction' = "settled" =>
           \A d \in Deposits : deposit'[d] \notin {"held", "refund_pending"}
    BY AuctionSteps, DepositStepsBegun DEF EscrowInv, Begun
  <1>4. ASSUME NEW w \in Workers, pc'[w] = "recording"
        PROVE  current'[w] \in moved'
    <2>1. moved \subseteq moved'
      BY MovedSteps
    <2>2. CASE pc[w] = "recording" /\ current'[w] = current[w]
      BY <2>1, <2>2 DEF EscrowInv, Begun
    <2>3. CASE ProviderAccepts(w)
      BY <2>3 DEF ProviderAccepts
    <2>4. ASSUME NEW v \in Workers, Worker(v), ~ProviderAccepts(w)
          PROVE  pc[w] = "recording" /\ current'[w] = current[w]
      BY <1>4, <2>4
         DEF EscrowInv, TypeOK, Worker, Work, ListEnded, ListActive,
             AcquireLock, Skip, Initiate, Abandon, Begin, ReadItem,
             InitiateRefund, Reread, ProviderAccepts, ProviderFails,
             ProviderTimesOut, Record, RecordFails, Recheck, Compare, Write,
             Complete, Escalate, Close, Continue, WorkerFails, Release, Crash,
             Forget, Answer, Go
    <2>5. CASE LockExpires \/ BecomeOverdue \/ RetrySettlement \/ UNCHANGED vars
      BY <1>4, <2>2, <2>5
         DEF LockExpires, BecomeOverdue, RetrySettlement, vars, workerVars
    <2> QED
      BY <2>2, <2>3, <2>4, <2>5 DEF UnattendedNext, Turns
  <1> QED
    BY <1>1, <1>2, <1>3, <1>4 DEF Begun

LEMMA EscrowStep ==
    ASSUME EscrowInv, [UnattendedNext]_vars
    PROVE  [Promise!Next]_(Promise!vars)
  <1>1. CASE auction' # auction
    <2>1. UNCHANGED <<deposit, moved>>
      BY <1>1, AuctionSteps
    <2>2. \/ auction = "ended" /\ auction' = "settling"
          \/ auction = "settling" /\ auction' = "settlement_failed"
          \/ /\ auction = "settling" /\ auction' = "settled"
             /\ \A d \in Deposits : deposit[d] \notin {"held", "refund_pending"}
      BY <1>1, AuctionSteps
    <2>3. Promise!Begin \/ Promise!Fail \/ Promise!Settle
      BY <2>1, <2>2 DEF Promise!Begin, Promise!Fail, Promise!Settle
    <2> QED
      BY <2>3 DEF Promise!Next
  <1>2. CASE moved' # moved
    <2>1. PICK d \in Deposits : Promise!Move(d)
      BY <1>2, MovedSteps DEF Promise!Move
    <2> QED
      BY <2>1 DEF Promise!Next
  <1>3. CASE deposit' # deposit
    <2>1. /\ auction \in {"settling", "settlement_failed"}
          /\ UNCHANGED <<auction, moved>>
      BY <1>3, DepositStepsBegun
    <2>2. PICK d \in Deposits :
             \/ /\ d # WinnerDeposit
                /\ deposit[d] = "held"
                /\ deposit' = [deposit EXCEPT ![d] = "refund_pending"]
             \/ /\ d \in moved
                /\ deposit[d] = Unsettled(d)
                /\ deposit' = [deposit EXCEPT ![d] = Settled(d)]
      BY <1>3, DepositStepsBegun
    <2>3. Promise!InitiateRefund(d) \/ Promise!Capture(d) \/ Promise!Refund(d)
      BY <2>1, <2>2 DEF Promise!InitiateRefund, Promise!Capture, Promise!Refund,
                        Promise!Step, Unsettled, Settled
    <2> QED
      BY <2>3 DEF Promise!Next
  <1>4. CASE UNCHANGED <<auction, deposit, moved>>
    BY <1>4 DEF Promise!vars
  <1> QED
    BY <1>1, <1>2, <1>3, <1>4

\* Left to its workers, whatever locks they lose and copies they save, the
\* settlement keeps the promise of Escrow: no deposit is recorded as captured or
\* refunded before the provider moved the money, and the auction is not settled
\* before that is done for every deposit that is held.
THEOREM EscrowKept == UnattendedSpec => ImplementsEscrow
  <1>1. Init => Begun /\ Promise!Init
    <2> SUFFICES ASSUME Init PROVE Begun /\ Promise!Init
      OBVIOUS
    <2>1. deposit \in [Deposits -> {"collected", "held"}]
      BY BoundsAssumption DEF Init
    <2> QED
      BY <2>1 DEF Init, Begun, Promise!Init
  <1>2. UnattendedSpec => Spec
    BY UnattendedIsNext, PTL DEF UnattendedSpec, Spec
  <1>3. EscrowInv /\ [UnattendedNext]_vars => Begun'
    BY BegunKept
  <1>4. UnattendedSpec => []EscrowInv
    BY <1>1, <1>2, <1>3, TruthInvariant, PTL DEF UnattendedSpec, EscrowInv
  <1>5. EscrowInv /\ [UnattendedNext]_vars => [Promise!Next]_(Promise!vars)
    BY EscrowStep
  <1> QED
    BY <1>1, <1>4, <1>5, PTL DEF UnattendedSpec, ImplementsEscrow, Promise!Spec

=============================================================================
