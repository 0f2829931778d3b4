---------------------------- MODULE AuctionEngine ----------------------------
(***************************************************************************)
(* One auction of apps/auction-service: the bids that race for it, the     *)
(* ending worker of every replica, and the two administrative calls that   *)
(* write its row.  Every writer but the administrative ones reads the row  *)
(* with SELECT ... FOR UPDATE; the administrative ones read it unlocked    *)
(* and save what they read.                                                *)
(***************************************************************************)
EXTENDS Integers, FiniteSets, AuctionStatus

CONSTANTS
    Bidders,        \* users who may join the auction
    Keys,           \* idempotency keys: one per bid a client attempts
    KeyOwner,       \* the client that generated each key
    Handlers,       \* placeBid calls in flight, over all replicas
    Workers,        \* AuctionEndingWorker instances, one per replica
    Admins,         \* administrative calls in flight
    None,           \* no lock holder, no winning bid
    Prices,         \* the amounts a client may bid
    RestQuotes,     \* the reference prices REST clients send
    StartPrice,     \* starting_price
    MinIncrement,   \* minimum_increment
    ScheduledEnd,   \* scheduled_end
    SniperWindow,   \* sniper_window_seconds
    SniperExtension,\* sniper_extension_seconds
    MaxExtensions,  \* max_sniper_extensions; 0 stands for sniper_enabled = false
    AdminMinutes,   \* the lengths of an administrative extension
    AppClockSkew,   \* how far a replica's clock may be from the database's
    MaxTime,        \* bound of the model: the clock stops here
    ExtensionBound  \* bound of the model: an administrator stops extending here

ASSUME PricesAssumption ==
    /\ Prices \subseteq Nat
    /\ RestQuotes \subseteq Nat
    /\ StartPrice \in Nat \ {0}
    /\ MinIncrement \in Nat \ {0}

ASSUME ClockAssumption ==
    /\ ScheduledEnd \in Nat
    /\ SniperWindow \in Nat
    /\ SniperExtension \in Nat
    /\ MaxExtensions \in Nat
    /\ AdminMinutes \subseteq Nat
    /\ AppClockSkew \in Nat
    /\ MaxTime \in Nat
    /\ ExtensionBound \in Nat

Bid == [key : Keys, amount : Prices]

ASSUME NoneAssumption ==
    /\ None \notin Bid
    /\ None \notin Handlers \cup Workers

ASSUME KeyOwnerAssumption == KeyOwner \in [Keys -> Bidders]

\* The columns of the row that the components of this module write.  price is
\* COALESCE(current_price, starting_price), end is COALESCE(extended_until,
\* scheduled_end); winner stands for winner_id, winner_bid_id and final_price,
\* which are always written together.
Row == [status : AuctionStatuses, price : Nat, end : Nat,
        extensions : Nat, bidCount : Nat, winner : Bid \cup {None}]

Columns == {"status", "price", "end", "extensions", "bidCount", "winner"}

Request == [key : Keys, amount : Prices, quoted : Nat]

Events == ({"BID_ACCEPTED", "SNIPER_EXTENSION"} \X Keys)
          \cup {<<"AUCTION_ENDING", None>>, <<"AUCTION_ENDED", None>>}

VARIABLES
    now,        \* the database clock
    row,        \* the auction row, as committed
    bids,       \* auctions.bids, append-only
    outbox,     \* the outbox events written, by idempotency key
    enrolled,   \* eligible participants with a sufficient, live deposit
    consents,   \* users with an auction_consents record
    rowLock,    \* the bid transaction that holds the row's FOR UPDATE lock
    bidLock,    \* holder of the Redis key bid:lock:auction
    workerLock, \* holder of the Redis key of the ending worker
    phase,      \* where each placeBid call is
    request,    \* the dto each placeBid call works on
    txNow,      \* NOW() of each bid transaction: its start
    loaded,     \* the row each bid transaction loaded
    step,       \* where each ending worker is
    call,       \* where each administrative call is
    entity,     \* the row an administrative call read, with its changes
    dirty       \* the columns its save decided to write

bidVars   == <<phase, request, txNow, loaded>>
adminVars == <<call, entity, dirty>>
rowVars   == <<row, bids, outbox>>
gateVars  == <<enrolled, consents>>
vars == <<now, row, bids, outbox, enrolled, consents, rowLock, bidLock,
          workerLock, phase, request, txNow, loaded, step, call, entity, dirty>>

InitialRow == [status |-> "draft", price |-> StartPrice, end |-> ScheduledEnd,
               extensions |-> 0, bidCount |-> 0, winner |-> None]

Init ==
    /\ now = 0
    /\ row = InitialRow
    /\ bids = {}
    /\ outbox = {}
    /\ enrolled = {}
    /\ consents = {}
    /\ rowLock = None
    /\ bidLock = None
    /\ workerLock = None
    /\ phase = [h \in Handlers |-> "idle"]
    /\ request = [h \in Handlers |-> None]
    /\ txNow = [h \in Handlers |-> 0]
    /\ loaded = [h \in Handlers |-> InitialRow]
    /\ step = [w \in Workers |-> "idle"]
    /\ call = [a \in Admins |-> "idle"]
    /\ entity = [a \in Admins |-> InitialRow]
    /\ dirty = [a \in Admins |-> {}]

-----------------------------------------------------------------------------
(***************************************************************************)
(* The row: its trigger, and the columns a save writes.                    *)
(***************************************************************************)

\* enforce_auction_outcome_immutability: BEFORE UPDATE of the row.
TriggerAccepts(old, new) ==
    /\ \/ new.status = old.status
       \/ <<old.status, new.status>> \in DbTransitions
    /\ old.status \in OutcomeFrozen => new.winner = old.winner

\* TypeORM's save() reads the row again and updates the columns in which the
\* entity differs from what it read, whatever the entity's version.
DirtyColumns(read, saved) == {c \in Columns : saved[c] # read[c]}

Overwrite(old, saved, columns) ==
    [status     |-> IF "status" \in columns THEN saved.status ELSE old.status,
     price      |-> IF "price" \in columns THEN saved.price ELSE old.price,
     end        |-> IF "end" \in columns THEN saved.end ELSE old.end,
     extensions |-> IF "extensions" \in columns
                    THEN saved.extensions ELSE old.extensions,
     bidCount   |-> IF "bidCount" \in columns
                    THEN saved.bidCount ELSE old.bidCount,
     winner     |-> IF "winner" \in columns THEN saved.winner ELSE old.winner]

\* Mutant: no key is unique, and no lookup finds one.
AcceptedNever(k) == FALSE

Accepted(k) == \E b \in bids : b.key = k

-----------------------------------------------------------------------------
(***************************************************************************)
(* Time, and the conditions of a bidder that other services establish.     *)
(***************************************************************************)

Tick ==
    /\ now < MaxTime
    /\ now' = now + 1
    /\ UNCHANGED <<rowVars, gateVars, rowLock, bidLock, workerLock, bidVars,
                   step, adminVars>>

\* The monolith records a paid deposit and its participant; the auction service
\* only reads them.
Enrol(u) ==
    /\ u \notin enrolled
    /\ enrolled' = enrolled \cup {u}
    /\ UNCHANGED <<now, rowVars, consents, rowLock, bidLock, workerLock,
                   bidVars, step, adminVars>>

AcceptConsent(u) ==
    /\ row.status \in ConsentStatuses
    /\ u \in enrolled \ consents
    /\ consents' = consents \cup {u}
    /\ UNCHANGED <<now, rowVars, enrolled, rowLock, bidLock, workerLock,
                   bidVars, step, adminVars>>

-----------------------------------------------------------------------------
(***************************************************************************)
(* placeBid.  A call has "looked" up its key, holds the Redis lock         *)
(* ("locked"), is in its transaction ("inTx"), has the row locked and      *)
(* loaded ("deciding"), and is in the finally block ("releasing").         *)
(***************************************************************************)

Go(h, from, to) ==
    /\ phase[h] = from
    /\ phase' = [phase EXCEPT ![h] = to]

\* The dto, the transaction time and the loaded row are of no further use.
Forget(h) ==
    /\ request' = [request EXCEPT ![h] = None]
    /\ txNow' = [txNow EXCEPT ![h] = 0]
    /\ loaded' = [loaded EXCEPT ![h] = InitialRow]

\* The call arrives and phase 0 finds no bid with its key; when it finds one,
\* the client is answered from it and nothing changes.
Arrive(h, k, amount, quoted) ==
    /\ Go(h, "idle", "looked")
    /\ ~Accepted(k)
    /\ request' = [request EXCEPT ![h] =
                      [key |-> k, amount |-> amount, quoted |-> quoted]]
    /\ UNCHANGED <<now, rowVars, gateVars, rowLock, bidLock, workerLock,
                   txNow, loaded, step, adminVars>>

\* handlePlaceBid quotes the price it reads, unlocked, before it calls placeBid.
GatewayBid(h, k, amount) == Arrive(h, k, amount, row.price)

\* POST /bids: the client quotes the price.
RestBid(h, k, amount, quoted) == Arrive(h, k, amount, quoted)

\* Phase 1: SET NX PX.
AcquireBidLock(h) ==
    /\ Go(h, "looked", "locked")
    /\ bidLock = None
    /\ bidLock' = h
    /\ UNCHANGED <<now, rowVars, gateVars, rowLock, workerLock, request, txNow,
                   loaded, step, adminVars>>

\* Phase 1 fails: the lock is held, or Redis does not answer.
RefuseBid(h) ==
    /\ Go(h, "looked", "idle")
    /\ Forget(h)
    /\ UNCHANGED <<now, rowVars, gateVars, rowLock, bidLock, workerLock, step,
                   adminVars>>

\* Phases 2 and 3: NOW() is the start of the transaction from here on, and a
\* key accepted since phase 0 ends the call.
BeginTx(h) ==
    /\ phase[h] = "locked"
    /\ IF Accepted(request[h].key)
       THEN /\ Go(h, "locked", "releasing")
            /\ Forget(h)
       ELSE /\ Go(h, "locked", "inTx")
            /\ txNow' = [txNow EXCEPT ![h] = now]
            /\ UNCHANGED <<request, loaded>>
    /\ UNCHANGED <<now, rowVars, gateVars, rowLock, bidLock, workerLock, step,
                   adminVars>>

\* Mutant: the SELECT is not FOR UPDATE.
LoadRow(h) ==
    /\ Go(h, "inTx", "deciding")
    /\ loaded' = [loaded EXCEPT ![h] = row]
    /\ UNCHANGED <<now, rowVars, gateVars, rowLock, bidLock, workerLock,
                   request, txNow, step, adminVars>>

\* Phase 4: SELECT ... FOR UPDATE waits for the lock and returns the row as
\* last committed.
LockRow(h) ==
    /\ Go(h, "inTx", "deciding")
    /\ rowLock = None
    /\ rowLock' = h
    /\ loaded' = [loaded EXCEPT ![h] = row]
    /\ UNCHANGED <<now, rowVars, gateVars, bidLock, workerLock, request, txNow,
                   step, adminVars>>

\* Phases 5 to 10, in the order of the code: any that fails rejects the bid.
Acceptable(h) ==
    LET a == loaded[h]
        r == request[h]
    IN  /\ a.status = "live"
        /\ txNow[h] <= a.end
        /\ KeyOwner[r.key] \in enrolled
        /\ KeyOwner[r.key] \in consents
        /\ r.quoted = a.price
        /\ r.amount >= a.price + MinIncrement
        /\ \A b \in bids : b.amount # r.amount

\* Mutant: one extension too many.
SnipingOnceMore(h) ==
    /\ loaded[h].extensions <= MaxExtensions
    /\ loaded[h].end - txNow[h] \in 1..SniperWindow

\* Phase 12: the bid falls in the sniper window and extensions are left.
Sniping(h) ==
    LET a == loaded[h]
    IN  /\ a.extensions < MaxExtensions
        /\ a.end - txNow[h] \in 1..SniperWindow

\* Mutants: a bid that extends the auction leaves its price, or its count, out
\* of what is saved.
WithBidUnpriced(h) ==
    IF Sniping(h)
    THEN [loaded[h] EXCEPT !.end = txNow[h] + SniperExtension,
                           !.extensions = @ + 1, !.bidCount = @ + 1]
    ELSE [loaded[h] EXCEPT !.price = request[h].amount, !.bidCount = @ + 1]

WithBidUncounted(h) ==
    IF Sniping(h)
    THEN [loaded[h] EXCEPT !.end = txNow[h] + SniperExtension,
                           !.extensions = @ + 1, !.price = request[h].amount]
    ELSE [loaded[h] EXCEPT !.price = request[h].amount, !.bidCount = @ + 1]

\* The entity that phase 12 saves.
WithBid(h) ==
    LET counted == [loaded[h] EXCEPT !.price = request[h].amount,
                                     !.bidCount = @ + 1]
    IN  IF Sniping(h)
        THEN [counted EXCEPT !.end = txNow[h] + SniperExtension,
                             !.extensions = @ + 1]
        ELSE counted

\* The unique key and the two triggers of an INSERT into auctions.bids, which
\* look at the row in the database and not at the entity.
InsertAccepts(h) ==
    /\ ~Accepted(request[h].key)
    /\ row.status = "live"
    /\ txNow[h] <= row.end
    /\ request[h].amount >= row.price + MinIncrement

\* A rejection is committed to the append-only audit table, which nothing reads.
RejectBid(h) ==
    /\ Go(h, "deciding", "releasing")
    /\ ~Acceptable(h)
    /\ rowLock' = None
    /\ Forget(h)
    /\ UNCHANGED <<now, rowVars, gateVars, bidLock, workerLock, step, adminVars>>

\* Phases 11 to 13, one transaction.
AcceptBid(h) ==
    /\ Go(h, "deciding", "releasing")
    /\ Acceptable(h)
    /\ InsertAccepts(h)
    /\ TriggerAccepts(row, WithBid(h))
    /\ bids' = bids \cup {[key |-> request[h].key, amount |-> request[h].amount]}
    /\ row' = WithBid(h)
    /\ outbox' = outbox \cup {<<"BID_ACCEPTED", request[h].key>>}
                 \cup (IF Sniping(h)
                       THEN {<<"SNIPER_EXTENSION", request[h].key>>} ELSE {})
    /\ rowLock' = None
    /\ Forget(h)
    /\ UNCHANGED <<now, gateVars, bidLock, workerLock, step, adminVars>>

\* lock_timeout, statement_timeout, a constraint or trigger that refuses the
\* insert, a lost connection: the catch block rolls back.
AbortTx(h) ==
    /\ phase[h] \in {"inTx", "deciding"}
    /\ phase' = [phase EXCEPT ![h] = "releasing"]
    /\ Forget(h)
    /\ rowLock' = IF rowLock = h THEN None ELSE rowLock
    /\ UNCHANGED <<now, rowVars, gateVars, bidLock, workerLock, step, adminVars>>

\* Phase 14: compare-and-delete, so another call's lock is left alone.
ReleaseBidLock(h) ==
    /\ Go(h, "releasing", "idle")
    /\ bidLock' = IF bidLock = h THEN None ELSE bidLock
    /\ UNCHANGED <<now, rowVars, gateVars, rowLock, workerLock, request, txNow,
                   loaded, step, adminVars>>

\* The replica dies: PostgreSQL rolls back, the Redis key stays until its TTL.
CrashBid(h) ==
    /\ phase[h] \in {"locked", "inTx", "deciding", "releasing"}
    /\ phase' = [phase EXCEPT ![h] = "idle"]
    /\ Forget(h)
    /\ rowLock' = IF rowLock = h THEN None ELSE rowLock
    /\ UNCHANGED <<now, rowVars, gateVars, bidLock, workerLock, step, adminVars>>

\* BID_LOCK_TTL_MS passes, whether its holder is dead or only slow.
BidLockExpires ==
    /\ bidLock # None
    /\ bidLock' = None
    /\ UNCHANGED <<now, rowVars, gateVars, rowLock, workerLock, bidVars, step,
                   adminVars>>

-----------------------------------------------------------------------------
(***************************************************************************)
(* AuctionEndingWorker.  A worker that "sawLive" or "sawEnding" has the    *)
(* status its query returned; "toEnding" and "toEnded" are its two         *)
(* transactions, each of them atomic because it holds the row throughout.  *)
(***************************************************************************)

Move(w, from, to) ==
    /\ step[w] = from
    /\ step' = [step EXCEPT ![w] = to]

\* Mutant: the worker looks for live auctions only.
SelectLive(w) ==
    /\ now >= row.end /\ row.status = "live"
    /\ Move(w, "idle", "sawLive")
    /\ UNCHANGED <<now, rowVars, gateVars, rowLock, bidLock, workerLock,
                   bidVars, adminVars>>

Select(w) ==
    /\ step[w] = "idle"
    /\ now >= row.end
    /\ \/ /\ row.status = "live"
          /\ Move(w, "idle", "sawLive")
       \/ /\ row.status = "ending"
          /\ Move(w, "idle", "sawEnding")
    /\ UNCHANGED <<now, rowVars, gateVars, rowLock, bidLock, workerLock,
                   bidVars, adminVars>>

AcquireWorkerLock(w) ==
    /\ workerLock = None
    /\ workerLock' = w
    /\ Move(w, "sawLive", "toEnding") \/ Move(w, "sawEnding", "toEnded")
    /\ UNCHANGED <<now, rowVars, gateVars, rowLock, bidLock, bidVars, adminVars>>

\* Another replica holds the lock, or Redis does not answer.
SkipAuction(w) ==
    /\ Move(w, "sawLive", "idle") \/ Move(w, "sawEnding", "idle")
    /\ UNCHANGED <<now, rowVars, gateVars, rowLock, bidLock, workerLock,
                   bidVars, adminVars>>

\* Mutant: the end is not checked again under the row lock.
LiveToEndingUnchecked(w) ==
    /\ Move(w, "toEnding", "toEnded")
    /\ rowLock = None
    /\ IF row.status = "live"
       THEN /\ row' = [row EXCEPT !.status = "ending"]
            /\ outbox' = outbox \cup {<<"AUCTION_ENDING", None>>}
       ELSE UNCHANGED <<row, outbox>>
    /\ UNCHANGED <<now, bids, gateVars, rowLock, bidLock, workerLock, bidVars,
                   adminVars>>

\* Mutant: the event is written after the commit, where a crash may lose it.
LiveToEndingUnannounced(w) ==
    /\ Move(w, "toEnding", "toEnded")
    /\ rowLock = None
    /\ IF row.status = "live" /\ row.end <= now
       THEN /\ row' = [row EXCEPT !.status = "ending"]
            /\ outbox' \in {outbox, outbox \cup {<<"AUCTION_ENDING", None>>}}
       ELSE UNCHANGED <<row, outbox>>
    /\ UNCHANGED <<now, bids, gateVars, rowLock, bidLock, workerLock, bidVars,
                   adminVars>>

\* transitionLiveToEnding: the status and the end are checked again under the
\* row lock, the end against the clock of the replica.
LiveToEnding(w) ==
    /\ Move(w, "toEnding", "toEnded")
    /\ rowLock = None
    /\ \E clock \in (now - AppClockSkew)..(now + AppClockSkew) :
          IF row.status = "live" /\ row.end <= clock
          THEN /\ row' = [row EXCEPT !.status = "ending"]
               /\ outbox' = outbox \cup {<<"AUCTION_ENDING", None>>}
          ELSE UNCHANGED <<row, outbox>>
    /\ UNCHANGED <<now, bids, gateVars, rowLock, bidLock, workerLock, bidVars,
                   adminVars>>

\* The bid the worker's query puts first: the highest amount.
Highest(b) == b \in bids /\ \A c \in bids : c.amount <= b.amount

\* Mutant: the bids are sorted the wrong way round.
EndingToEndedLowest(w) ==
    /\ Move(w, "toEnded", "releasing")
    /\ rowLock = None
    /\ IF row.status = "ending"
       THEN /\ \E b \in bids \cup {None} :
                  /\ IF bids = {} THEN b = None
                     ELSE b # None /\ \A c \in bids : b.amount <= c.amount
                  /\ row' = [row EXCEPT !.status = "ended",
                                        !.winner = IF b = None THEN @ ELSE b]
            /\ outbox' = outbox \cup {<<"AUCTION_ENDED", None>>}
       ELSE UNCHANGED <<row, outbox>>
    /\ UNCHANGED <<now, bids, gateVars, rowLock, bidLock, workerLock, bidVars,
                   adminVars>>

\* transitionEndingToEnded.  Without a bid the outcome columns keep their value.
EndingToEnded(w) ==
    /\ Move(w, "toEnded", "releasing")
    /\ rowLock = None
    /\ IF row.status = "ending"
       THEN /\ \E b \in bids \cup {None} :
                  /\ IF bids = {} THEN b = None ELSE Highest(b)
                  /\ row' = [row EXCEPT !.status = "ended",
                                        !.winner = IF b = None THEN @ ELSE b]
            /\ outbox' = outbox \cup {<<"AUCTION_ENDED", None>>}
       ELSE UNCHANGED <<row, outbox>>
    /\ UNCHANGED <<now, bids, gateVars, rowLock, bidLock, workerLock, bidVars,
                   adminVars>>

\* A transaction fails; processAuction logs the error and releases the lock.
WorkerFails(w) ==
    /\ Move(w, "toEnding", "releasing") \/ Move(w, "toEnded", "releasing")
    /\ UNCHANGED <<now, rowVars, gateVars, rowLock, bidLock, workerLock,
                   bidVars, adminVars>>

ReleaseWorkerLock(w) ==
    /\ Move(w, "releasing", "idle")
    /\ workerLock' = IF workerLock = w THEN None ELSE workerLock
    /\ UNCHANGED <<now, rowVars, gateVars, rowLock, bidLock, bidVars, adminVars>>

CrashWorker(w) ==
    /\ step[w] \in {"toEnding", "toEnded", "releasing"}
    /\ step' = [step EXCEPT ![w] = "idle"]
    /\ UNCHANGED <<now, rowVars, gateVars, rowLock, bidLock, workerLock,
                   bidVars, adminVars>>

WorkerLockExpires ==
    /\ workerLock # None
    /\ workerLock' = None
    /\ UNCHANGED <<now, rowVars, gateVars, rowLock, bidLock, bidVars, step,
                   adminVars>>

-----------------------------------------------------------------------------
(***************************************************************************)
(* The administrative calls.  Both read the row without a lock, and both   *)
(* write it in a statement that waits for whoever holds the lock.          *)
(***************************************************************************)

\* updateStatus up to its save().  The version the client sends can match the
\* row just read in every state, so it refuses nothing here.
ReadForStatus(a, to) ==
    /\ call[a] = "idle"
    /\ <<row.status, to>> \in AdminTransitions
    /\ call' = [call EXCEPT ![a] = "saving"]
    /\ entity' = [entity EXCEPT ![a] = [row EXCEPT !.status = to]]
    /\ UNCHANGED <<now, rowVars, gateVars, rowLock, bidLock, workerLock,
                   bidVars, step, dirty>>

\* save() reads the row again to find what to update...
CompareEntity(a) ==
    /\ call[a] = "saving"
    /\ call' = [call EXCEPT ![a] = "writing"]
    /\ dirty' = [dirty EXCEPT ![a] = DirtyColumns(row, entity[a])]
    /\ UNCHANGED <<now, rowVars, gateVars, rowLock, bidLock, workerLock,
                   bidVars, step, entity>>

Finish(a) ==
    /\ call' = [call EXCEPT ![a] = "idle"]
    /\ entity' = [entity EXCEPT ![a] = InitialRow]
    /\ dirty' = [dirty EXCEPT ![a] = {}]

\* ... and updates it, unless the trigger raises.
WriteEntity(a) ==
    /\ call[a] = "writing"
    /\ rowLock = None
    /\ LET new == Overwrite(row, entity[a], dirty[a])
       IN  row' = IF TriggerAccepts(row, new) THEN new ELSE row
    /\ Finish(a)
    /\ UNCHANGED <<now, bids, outbox, gateVars, rowLock, bidLock, workerLock,
                   bidVars, step>>

\* handleAdminExtendTime: no status is checked.
ReadForExtension(a, minutes) ==
    /\ call[a] = "idle"
    /\ row.extensions < ExtensionBound
    /\ row.end + minutes <= MaxTime
    /\ call' = [call EXCEPT ![a] = "extending"]
    /\ entity' = [entity EXCEPT ![a] = [row EXCEPT !.end = @ + minutes]]
    /\ UNCHANGED <<now, rowVars, gateVars, rowLock, bidLock, workerLock,
                   bidVars, step, dirty>>

WriteExtension(a) ==
    /\ call[a] = "extending"
    /\ rowLock = None
    /\ row' = [row EXCEPT !.end = entity[a].end, !.extensions = @ + 1]
    /\ Finish(a)
    /\ UNCHANGED <<now, bids, outbox, gateVars, rowLock, bidLock, workerLock,
                   bidVars, step>>

-----------------------------------------------------------------------------
(***************************************************************************)
(* The specifications.  Spec lets an administrator act at any moment.      *)
(* OrderlySpec is the operating procedure: the auction is scheduled and    *)
(* opened by one administrative call at a time and then left to the bids   *)
(* and the workers.                                                        *)
(***************************************************************************)

BidCall(h) ==
    \/ \E k \in Keys, amount \in Prices : GatewayBid(h, k, amount)
    \/ \E k \in Keys, amount \in Prices, quoted \in RestQuotes :
          RestBid(h, k, amount, quoted)
    \/ AcquireBidLock(h) \/ RefuseBid(h) \/ BeginTx(h)
    \/ LockRow(h) \/ RejectBid(h) \/ AcceptBid(h) \/ AbortTx(h)
    \/ ReleaseBidLock(h) \/ CrashBid(h)

EndingWorker(w) ==
    \/ Select(w) \/ AcquireWorkerLock(w) \/ SkipAuction(w)
    \/ LiveToEnding(w) \/ EndingToEnded(w) \/ WorkerFails(w)
    \/ ReleaseWorkerLock(w) \/ CrashWorker(w)

Save(a) == CompareEntity(a) \/ WriteEntity(a)

AdminCall(a) ==
    \/ \E to \in AuctionStatuses : ReadForStatus(a, to)
    \/ Save(a)
    \/ \E minutes \in AdminMinutes : ReadForExtension(a, minutes)
    \/ WriteExtension(a)

OpeningCall(a) ==
    \/ /\ \A b \in Admins : call[b] = "idle"
       /\ \E to \in {"scheduled", "live"} : ReadForStatus(a, to)
    \/ Save(a)

Environment ==
    \/ Tick \/ BidLockExpires \/ WorkerLockExpires
    \/ \E u \in Bidders : Enrol(u) \/ AcceptConsent(u)

Engine ==
    \/ Environment
    \/ \E h \in Handlers : BidCall(h)
    \/ \E w \in Workers : EndingWorker(w)

Next == Engine \/ \E a \in Admins : AdminCall(a)

OrderlyNext == Engine \/ \E a \in Admins : OpeningCall(a)

Spec == Init /\ [][Next]_vars

OrderlySpec == Init /\ [][OrderlyNext]_vars

\* Time passes, a Redis key expires, a transaction that holds the row ends, and
\* the interval timer of a replica fires again.  PostgreSQL grants a row lock in
\* the order it was asked for, and a replica that keeps asking Redis for a key
\* that keeps coming free gets it some day: those steps are strongly fair.  Some
\* day, too, the replicas stop crashing and their transactions stop failing.
Fairness ==
    /\ WF_vars(Tick) /\ WF_vars(WorkerLockExpires)
    /\ \A h \in Handlers : WF_vars(RejectBid(h) \/ AcceptBid(h) \/ AbortTx(h))
    /\ \A w \in Workers :
          /\ WF_vars(Select(w)) /\ WF_vars(ReleaseWorkerLock(w))
          /\ SF_vars(AcquireWorkerLock(w))
          /\ SF_vars(LiveToEnding(w)) /\ SF_vars(EndingToEnded(w))
          /\ <>[][~WorkerFails(w) /\ ~CrashWorker(w)]_vars

FairOrderlySpec == OrderlySpec /\ Fairness

-----------------------------------------------------------------------------
(***************************************************************************)
(* Properties.                                                             *)
(***************************************************************************)

\* Every variable has its type.
TypeOK ==
    /\ now \in Nat
    /\ row \in Row
    /\ bids \subseteq Bid
    /\ outbox \subseteq Events
    /\ enrolled \subseteq Bidders
    /\ consents \subseteq Bidders
    /\ rowLock \in Handlers \cup {None}
    /\ bidLock \in Handlers \cup {None}
    /\ workerLock \in Workers \cup {None}
    /\ phase \in [Handlers -> {"idle", "looked", "locked", "inTx", "deciding",
                               "releasing"}]
    /\ request \in [Handlers -> Request \cup {None}]
    /\ \A h \in Handlers :
          phase[h] \in {"looked", "locked", "inTx", "deciding"}
             => request[h] \in Request
    /\ txNow \in [Handlers -> Nat]
    /\ loaded \in [Handlers -> Row]
    /\ step \in [Workers -> {"idle", "sawLive", "sawEnding", "toEnding",
                             "toEnded", "releasing"}]
    /\ call \in [Admins -> {"idle", "saving", "writing", "extending"}]
    /\ entity \in [Admins -> Row]
    /\ dirty \in [Admins -> SUBSET Columns]

\* The row lock makes the entity of placeBid current: while a bid transaction
\* decides (phases 5 to 13) nobody else decides, and no writer, the worker's two
\* transactions and the administrative calls included, changes the row it
\* loaded in phase 4.
LoadedRowIsCurrent ==
    \A h \in Handlers :
        phase[h] = "deciding" => rowLock = h /\ loaded[h] = row

\* The price the next bid is measured against is the highest bid accepted, and
\* the counter shown to clients counts the bids: phase 12 loses no update.
PriceIsHighestBid ==
    IF bids = {} THEN row.price = StartPrice
    ELSE \E b \in bids : Highest(b) /\ b.amount = row.price

\* bid_count, which every bid reads and writes back incremented, counts the rows
\* of the bids table.
CountsEveryBid == row.bidCount = Cardinality(bids)

\* The winner the ending worker wrote is a bid of the table and no bid is
\* higher, then and ever after: no bid slips in behind the winner.
WinnerIsHighestBid == row.winner # None => Highest(row.winner)

\* The ended event is in the outbox of every ended auction, and the ending
\* event of every auction a worker closed, although the two statuses are
\* written by two transactions a crash may separate.
EndingIsAnnounced ==
    /\ row.status \in {"ending", "ended"} => <<"AUCTION_ENDING", None>> \in outbox
    /\ row.status = "ended" => <<"AUCTION_ENDED", None>> \in outbox

\* Nobody closes an auction before the end it has at that moment, even if a bid
\* extended it after the worker's query.
NeverClosedEarly ==
    [][row.status = "live" /\ row'.status = "ending" => now >= row.end]_vars

\* The current price never falls.
PriceNeverFalls == [][row'.price >= row.price]_vars

\* Sniping prolongs an auction by at most its configured allowance.
ProlongationIsBounded ==
    /\ row.extensions <= MaxExtensions
    /\ row.end <= ScheduledEnd + row.extensions * SniperExtension

\* A live auction ends, however often a bid extends it, a replica dies between
\* the two transactions of the worker, or a lock outlives its holder.
AuctionCloses == row.status = "live" ~> row.status = "ended"

-----------------------------------------------------------------------------
(***************************************************************************)
(* Run by the operating procedure, the engine implements EnglishAuction.   *)
(***************************************************************************)

Stage ==
    CASE row.status \in {"draft", "scheduled", "deposit_open"} -> "preparing"
      [] row.status = "live" -> "open"
      [] row.status = "ending" -> "closed"
      [] OTHER -> "decided"

Promise == INSTANCE EnglishAuction WITH stage <- Stage, winner <- row.winner

\* Every step of the racing calls and workers is a step of the promise or
\* changes nothing it shows.
ImplementsEnglishAuction == Promise!Spec

==============================================================================
