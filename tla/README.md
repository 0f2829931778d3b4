# NetTapu: formal specification of the auction platform

TLA+ modules, TLC configurations and TLAPS proofs for the auction platform of this
repository. The modules follow the code of `apps/auction-service`, of the payments,
listings and notifications of `apps/monolith`, and the database triggers of
`database/migrations`; `PROJECT.json` maps every definition
that models code to the lines it stands for.

Contents: [the system](#the-system) · [the modules](#the-modules) ·
[the runs](#the-runs) · [bounds](#bounds) · [fairness](#fairness) ·
[the proofs](#the-proofs) · [where code and documents disagree](#where-code-and-documents-disagree) ·
[what is not modelled](#what-is-not-modelled) · [plan](#plan)

## The system

Two NestJS applications, each run as several replicas, share one PostgreSQL
database and one Redis. The monolith's replicas are themselves several processes: `main.ts` starts
it through `clusterize` (`packages/shared/src/cluster/cluster.service.ts`), which forks one per CPU
unless told otherwise, each with all the workers. The *monolith* serves listings, payments, refunds, CRM,
campaigns and administration. The *auction service* takes bids over REST and
WebSocket, ends auctions, settles them, and relays events. Nothing but the
database and Redis connects the replicas: a replica may die between any two
statements, its transactions are then rolled back, and its Redis keys stay until
they expire.

| Part | State it keeps | Operations | Talks to |
|---|---|---|---|
| Bidding (`bid.service.ts`) | `auctions.bids`, the auction row, outbox rows | `placeBid`, fourteen phases from the lookup of the idempotency key to the release of the Redis lock | consents, participants, deposits (reads); outbox |
| Auction gateway (`auction.gateway.ts`) | rooms in memory | `handlePlaceBid`, `handleAdminExtendTime` | bidding; the auction row |
| Ending worker (`auction-ending.worker.ts`) | the auction row | every second: live → ending → ended with the winner, in two transactions | bids, outbox |
| Auction administration (`auction.service.ts`) | the auction row | `create`, `updateStatus`, `remove` | |
| Consent (`consent.service.ts`) | `auction_consents` | `acceptConsent` | |
| Settlement (`settlement.worker.ts`, `settlement.service.ts`) | the manifest, the auction row | every 5 s: draw up a manifest, work off its items, finalize, expire, escalate | deposit lifecycle |
| Deposit lifecycle (`deposit-lifecycle.service.ts`) | deposits, `payment_ledger` | capture the winner's deposit, refund the others' | provider, through the circuit breaker |
| Settlement administration (`admin-settlement.controller.ts`) | manifest, auction row | `retry` | |
| Outbox (`outbox-writer.service.ts`, `outbox-relay.worker.ts`) | `event_outbox` | write with the caller's transaction; every 200 ms: lock, reclaim, fetch, dispatch, mark | event consumers |
| Event consumers (`notification-event.consumer.ts`, `websocket-event.consumer.ts`) | | broadcast; post to the monolith's `/notifications/events` | notifications |
| Notifications (`notification.service.ts`, `notification-dispatch.worker.ts`) | `notification_queue` | `handleEvent`, `enqueue`; every 5 s: poll, send, retry or give up | mail and message providers |
| Payments (`payment.service.ts`, `pos-callback.service.ts`) | payments, idempotency keys, `payment_ledger`, `pos_transactions`, deposits, participants | initiate, 3-D Secure callback, verify a bank transfer, capture, cancel | provider |
| Reconciliation (`reconciliation.worker.ts`) | the same | list stale payments, ask the provider, mark as provisioned or failed | provider |
| Refunds (`refund.service.ts`) | refunds, payments, ledger | initiate in three phases | provider |
| Listings (`parcel.service.ts`, `reservation.service.ts`) | parcels, their history, reservations | create, edit, change status; reserve, cancel, expire | |
| Campaigns (`spin-wheel.service.ts`, `campaigns.service.ts`) | campaigns with their count of uses, spin results | spin; create, edit, remove | |
| Offers, tokens (monolith) | one table each | create, answer, rotate | |
| Database triggers | | auction state machine, outcome immutability, bid increment and time checks, append-only ledger | every writer |

What makes the behaviour hard, and which properties make each part correct:

- **Bidding.** A Redis lock with a TTL guards an auction, but it may expire under
  its holder; the row lock (`SELECT … FOR UPDATE`) is what must really serialise.
  The price a client bid against, the idempotency key and the auction's status are
  all read before that lock is taken and may be stale under it. Correct: a bid is
  decided on the current row; the price is the highest bid; the counter counts the
  bids; one bid per key; the engine is an English auction.
- **Closing.** The worker's query, its re-check, and the clock of the replica are
  three different views of the end, which bids keep moving. Correct: never closed
  early, the winner is the highest bid, the events are announced, it does close.
- **Administration.** Both administrative calls read the row without a lock and
  save what they read later. Correct: no bid is disturbed; the winner stays right.
- **Settlement.** A worker works on a copy of the manifest that it read *before*
  it took the lock, saves that copy after every item, and calls a provider that may
  answer late or never. Correct: manifest, deposits and ledger agree; a settled
  auction has settled every item; nothing recorded as moved is asked for again;
  every settlement ends or is handed to an administrator.
- **Outbox.** One relay at a time is meant to work, but the lock belongs to a database
  session, and the relay takes and releases it on whichever connection its pool hands
  out. A relay may die between an event's dispatch and its mark, and a consumer may take
  effect although its answer is late; so may a query. Correct: nothing is marked as processed that a
  consumer has not handled; repetition is bounded; an auction's events are first tried in order; every
  event is settled in the end.
- **Notifications.** A second service behind an HTTP call, with a queue of its own and a worker in
  every process, which polls without a lock or a claim. Correct: an event that names a user leads to a message, or one of the parts
  records that it gave up.
- **Payments and reconciliation.** Two kinds of provider, of which one (PayTR) is never called for a
  capture or a cancellation and cannot be queried. The provider is called between two transactions, and
  what it has done and what the database knows may differ at every point in between.
  Correct: it is asked once per key; capture and cancellation exclude each other; what it
  holds is known; a deposit has been paid for; no service writes over another's status;
  nothing waits for its callback for ever. With PayTR two of these fail: the money of a cancelled
  payment stays where it is, and a wait may last.
- **Refunds.** Several at a time, out of order, with lost answers. Correct: no more is
  refunded than was paid, and the payment's status is that of its refunds.
- **Listings.** Calls that lock the row they are about mix with calls that save what they
  read. Correct: one reservation per parcel; it was active when it was reserved; no status without a history.

- **Campaigns.** A limit, a daily allowance and a counter, and no lock. Correct: the limit is passed
  by overlapping spins only, and the counter counts nothing that was not spun.

`PROJECT.json` lists the components with their status, and the hazards at their lines.

## The modules

### `AuctionStatus` (constant level)

The status column: its values, `DbTransitions` (the trigger of migration 020) and
`AdminTransitions` (the narrower table of `updateStatus`). The tables differ:
see [below](#where-code-and-documents-disagree).

### `AuctionEngine`

One auction with everything that writes its row.

| Variable | In the code |
|---|---|
| `now` | the clock of PostgreSQL; a replica's clock is within `AppClockSkew` of it |
| `row` | the auction row as committed. `price` is `COALESCE(current_price, starting_price)`, `end` is `COALESCE(extended_until, scheduled_end)`, `winner` stands for the columns `winner_id`, `winner_bid_id`, `final_price`, which are always written together |
| `bids`, `outbox` | the bids table, the outbox events by idempotency key |
| `enrolled`, `consents` | who passes the checks of phases 6 and 7 |
| `rowLock` | the bid transaction that holds the row's FOR UPDATE lock |
| `bidLock`, `workerLock` | the holders of the two Redis keys |
| `phase`, `request`, `txNow`, `loaded` | each `placeBid` call: where it is, its dto, `NOW()` of its transaction, the entity it loaded |
| `step` | each ending worker |
| `call`, `entity`, `dirty` | each administrative call: where it is, the entity it read, the columns `save()` decided to write |

`placeBid` is split where another actor can get in between: `GatewayBid`/`RestBid`
(phase 0), `AcquireBidLock` or `RefuseBid` (1), `BeginTx` (2–3), `LockRow` (4),
then `RejectBid` or `AcceptBid` (5–13, one step, since the row is locked
throughout), `AbortTx`, `ReleaseBidLock`, `CrashBid`. Each of the ending worker's
two transactions locks the row first, so each is one step (`LiveToEnding`,
`EndingToEnded`), with crashes and failures around them. An
administrative save is three steps: TypeORM's `save()` reads the row again
(`CompareEntity`) and then updates the columns in which the entity differs
(`WriteEntity`), whatever the entity's version, because `@VersionColumn` only
increments. The trigger is `TriggerAccepts`; the triggers and the unique index of
the bids table are `InsertAccepts`.

`Spec` lets an administrator act at any moment. `OrderlySpec` is the operating
procedure: one administrative call at a time schedules and opens the auction, which
is then left to bids and workers.

### `EnglishAuction`

The promise to the bidders, without servers: open, accept rising bids, close, decide
the winner once. `AuctionEngine` implements it under
`stage <- Stage, winner <- row.winner` (`ImplementsEnglishAuction`), with `bids` as
they are.

### `Settlement`

The settlement of one auction by the settlement workers of several replicas.

| Variable | In the code |
|---|---|
| `auction` | the status of the auction row |
| `manifest` | the manifest row: its status and its items, one per deposit |
| `deposit` | the status of every deposit row |
| `ledger` | how many `payment_ledger` entries of each kind a deposit has |
| `moved` | the deposits whose money the provider has moved, whatever anybody knows of it |
| `overdue` | `expires_at` has passed |
| `lock` | the Redis key of the settlement |
| `pc`, `copy`, `todo`, `current`, `dirty` | each worker: where it is, the manifest entity it works on, the items left in this tick, the item it is at, the columns its save decided to write |
| `retry` | the answer to the last administrative retry |

A tick is `ListEnded`/`ListActive` (queries, no lock), `AcquireLock` or `Skip`,
`Initiate` (the transaction that draws up the manifest), `Begin` or `Abandon`
(expired or oversized), then for every item `ReadItem`, for a refund
`InitiateRefund`/`Reread`, the provider's answer in its three forms
(`ProviderAccepts`, `ProviderFails`, `ProviderTimesOut`), `Record`, `RecordFails`,
`Recheck`, and the save of the copy (`Compare`, `Write`); finally `Complete`,
`Escalate` or `Continue`, and `Release`. `WorkerFails` and `Crash` may end a turn
almost anywhere. The administrator has `SetStatus` and `RetrySettlement`.
`SetStatus` is one step although `updateStatus` reads and saves in two: of two
writers of the status only one can win, because the trigger refuses the transition
of the other, and the save writes nothing else of this model's state.

`Spec` is everything; `UnattendedSpec` leaves out hand-set statuses;
`TimelySpec` also lets only the lock of a dead worker expire.

### `Escrow`

The promise to those who paid a deposit: it is not touched before settlement, no
deposit is recorded as captured or refunded before the provider has moved the money,
and the auction is settled only when no deposit is left held or pending.
`Settlement` implements it (`ImplementsEscrow`).

### `OutboxRelay`

The outbox rows of one auction and the relay of every replica.

| Variable | In the code |
|---|---|
| `status`, `attempts` | the columns of each event; an event is `unwritten` until its transaction commits |
| `stale` | `last_attempt_at` is over 30 s ago |
| `handled` | how often each consumer call of each event has taken effect |
| `lock` | the advisory lock: whose connection has it, and how often it took it |
| `pc`, `todo`, `seen`, `at` | each relay: where it is in `tick`, the rest of its batch, the `attempts` of the entities it fetched, the consumer call it is at |
| `faults`, `lockLost` | history: how many faults there were; a connection was closed under a working relay |
| `unsure` | history: the processed events whose relay was told that the UPDATE had failed, until that relay writes its own verdict or leaves |

A tick is `Tick` (the lock), `Reclaim`, `Fetch`, then `Mark`, `CallSucceeds` or
`CallFails`, `RecordProcessed` or `RecordFailed` for each event, and `Unlock`. PostgreSQL's
session lock is re-entrant and counted; an unlock on another connection does nothing.
So the lock may stay with an idle connection, which that relay or the closing of the connection
resolves, and may vanish under a tick (`ConnectionCloses`), which the properties that
depend on it say. `QueryFails` and `Crash` may strike anywhere. A query may also take effect and its answer be lost: the
lock is taken by a tick that returns (`TickUnanswered`), an event is marked and not dispatched (`MarkUnanswered`),
or the UPDATE to `processed` commits and the catch block, believing that it failed, overwrites it with
`pending` or `dead_letter` (`ProcessedUnanswered`, then `RecordFailed`).

### `NotificationDispatch`, `EventPipeline`

`NotificationDispatch` is the queue of the monolith (`row`, `tries`, `due`), its workers
(`Senders`, one in each process, with `wpc`, `wtodo`, `wseen`, `current`) and what the provider has
delivered (`mails`). The `processing` flag of a worker keeps it from overlapping itself. Nothing keeps two of them
from fetching the same row: each then writes the attempts it has read plus one, sends, and records its own
outcome, whatever the row says by now. `shared` (history) collects the rows that two had in hand at a time.
`MarkSending`, `NoAddressee`, `Send` and `Record` are the statements of `processNotification`;
`abandoned` collects the rows that a crash or a failed query left marked as sending, which nothing looks for.

`EventPipeline` composes it with `OutboxRelay`: a consumer call that takes effect
(`CallArrives`) is a step of the relay and a `HandleEvent` of the monolith, which adds a row
if the call names a user and else returns. A call whose answer is late has added its row too.

### `Payments`, `Refunds`

`Payments` has the payments of one user for one auction.

| Variable | In the code |
|---|---|
| `gateway` | `POS_PROVIDER`: which kind of provider this deployment has, chosen in `Init`. One is `asked` for captures, cancellations and the status (iyzico, the simulation); `PayTR` is not |
| `status`, `transfers` | the payment row: its status, and which are bank transfers |
| `ledger`, `posTx` | `payment_ledger` in order, and the statuses of a payment's `pos_transactions` |
| `deposit` | the payment that the user's deposit for the auction was made by; `deposits_user_auction_unique` allows one. `Earlier` is one from before |
| `provider` | what the provider has of each payment, whatever anybody knows of it |
| `calls` | how often it was asked to provision |
| `job` | each call, callback and worker: which operation, on which payment, at which step or with which answer |
| `lost`, `late`, `faults` | history: about which payments an answer was lost, which were paid after reconciliation had asked for them, how many faults there were |

`initiate` is `Check`, `Create` (one transaction), `Provision` (the call),
`RecordResult` or `Record3ds` (another). The callback, capture and cancel hold the row lock from their
first step to their last, with the provider's call between them: `BeginCallback`, `Complete`, `EndCallback` and
`BeginEnding`, `CallEnding`, `EndEnding`. Reconciliation is `List`, `Query`, `Resolve`, with
the lock in the last only. The idempotency key is created with its payment, so a payment
stands for its key. `Provisioned` has what PostgreSQL makes of the swallowed error of
`createDepositAndParticipant`: the statement that failed has aborted the transaction, and
its COMMIT rolls back the payment's new status too.

Of PayTR, a payment is provisioned by its callback only, a capture finds the money taken already, and
`cancelProvision` (`paytr-gateway.ts:219`) answers `success: true` without a call: `CallEnding` then says yes and leaves
`provider` as it is. Its `Query` ends without a result.

`Refunds` adds the refunds of these payments (`refund`, `rpc`) and what the provider has
paid back: `InitiateRefund`, `CallRefund`, `RecordRefund`, and `InterruptRefund` after which a refund stays
pending.

### `Listings`

`status` is the status of parcels and of reservations, `holder` a reservation's user and
parcel, `history` the statuses recorded for a parcel, `overdue` the reservations past their
48 hours. `job` is what each request is at, `expiring` the rows the cron job of each replica
is about to save, `raced` (history) the users of whom two requests to reserve overlapped.
`UpdateStatus` is one step, since it locks the row. `update` and `cancel` are `Read`,
`Compare`, `Write`: TypeORM's `save()` writes what differs from the row it reads, the status
included. `reserve` is `BeginReserve` and `EndReserve`, with the parcel locked
in between; the cron job is `FindStale`, `CompareStale`, `SaveStale`.

### `SpinWheel`

`row` is a campaign's status, limit and count of uses, `result` the rows of `spin_results`,
`job` what each request is at, `limitsHad` and `miscounted` history. A spin is `ReadCampaign`
(with the limit), `CheckCooldown`, `SaveResult`, `Increment`, statements that nothing holds
together; if it ends after the third, its use is not counted (`CallFails`). An edit is
`ReadForUpdate`, `Compare`, `Write`: `save()` writes the count it read if that has changed
meanwhile, and inserts a campaign that was removed meanwhile. `Remove` is refused by the foreign key
when there are results. One clock stands for the application's and PostgreSQL's.

### MC modules and proofs

`MCAuctionEngine`, `MCSettlement`, `MCOutboxRelay`, `MCEventPipeline`, `MCRefunds`,
`MCListings` and `MCSpinWheel` are instances for TLC (who owns which key, which calls an event makes,
symmetry sets). The proofs are in `AuctionEngine_proofs` (with those about `EnglishAuction`),
`Settlement_proofs`, `OutboxRelay_proofs`, `EventPipeline_proofs`, `Payments_proofs`, `Refunds_proofs`,
`Listings_proofs` and `SpinWheel_proofs`.

## The runs

| Run | Specification | What it shows |
|---|---|---|
| `orderly` | `OrderlySpec` | Two `placeBid` calls race with two keys, while Redis locks expire at any moment, replicas die, one bid extends the auction and the ending worker closes it. `LoadedRowIsCurrent`: the row lock alone serialises deciding bids. `PriceIsHighestBid`, `CountsEveryBid`: no update is lost. `NeverClosedEarly`: a bid that extends the auction after the worker's query is respected. `EndingIsAnnounced`: no crash between the worker's two transactions loses an event. `ProlongationIsBounded`. `ImplementsEnglishAuction`: all of it together is an auction. |
| `admin` | `Spec` | The administrator may do anything at any moment, and replica clocks are skewed. `WinnerIsHighestBid` still holds (and so does `LoadedRowIsCurrent`: it is proved of `Spec`). |
| `closes` | `FairOrderlySpec` | Two replicas, crashes, expiring locks: a live auction ends. |
| `settlement_any` | `Spec` | Two workers with stale copies and lost locks, a failing provider, an administrator: an acknowledged item belongs to a deposit that really is captured or refunded, and the ledger has exactly one entry per step. |
| `finishes` | `FairTimelySpec` | `ImplementsEscrow`: the promise of `Escrow` (the theorem has it with lost locks too, under `UnattendedSpec`). `NoSecondCall`: while turns end within the lock's TTL, a stale copy or a crash makes nobody ask the provider again for what is recorded. `SettlementFinishes`: an ended auction is settled or handed to an administrator. |
| `relay` | `OutboxRelay!FairSpec` | Two relays with two connections each, one fault. `ProcessedWasDelivered`: nothing is lost between dispatch and mark. `OneRelayAtATime` and `SettledStaysSettled` hold until a connection is closed under a tick, the second except for an event whose UPDATE to processed has lost its answer. `FirstAttemptsInOrder` is all of the order that is kept. `RepetitionIsBounded`, `EventSettles`. |
| `told` | `FairPipelineSpec` | From the committed event to the delivered message, with two dispatch workers and a fault on either side. `ProcessedIsQueued` relates the two services' tables; `SendingIsBounded` is about retries, restarts, and rows that pass from one worker to the other; it is not claimed of a row that both have in hand, which is sent twice on one counted attempt; `UserIsTold` and `NotificationSettles` are the promise to the user, with the exceptions the code has. |
| `payments` | `FairRefundsSpec` | Everything that can happen to a payment with two handlers, one worker, three refunds and two faults, with either kind of provider. `OneProvisionPerKey`, `EndedAsRecorded`, `HeldMoneyIsKnown`, `DepositIsPaid`, `LedgerTellsStatus`, `TriggerNeverRaises` relate the database to the provider; `RefundsWithinAmount`, `PaidBackIsRecorded`, `StatusTellsRefunds` are about refunds; `AwaitingEnds` is what reconciliation is for, with a provider that has a status query. |
| `reservations` | `Listings!Spec` | Two requests at a time and a cron job on two parcels. `OneReservationPerParcel`, `ReservedWhileActive`: what the lock on the parcel buys. `LimitKeptInTurn`: what it does not. `StatusWasRecorded`: what a stale save can and cannot do. |
| `spins` | `SpinWheel!Spec` | Two requests at a time spin, edit and remove a campaign. `LimitPassedByCallsOnly`: how far overlapping spins get past the limit. `UsesWereSpun`: the count may fall behind by a stale edit or a spin that fails half-way, but is never ahead, because the foreign key keeps a campaign that has results. |
| `price`, `collected` | | Counterexamples, see below. |

`CHECK_DEADLOCK FALSE` everywhere: an auction whose clock has reached the model's
bound and whose bids are all answered has nothing left to do, a settled auction
stays as it is, and so do a delivered event, a refunded payment, a sold parcel and a removed campaign.

## Bounds

- *Two bids, two prices, two concurrent calls* (`orderly`): every race on the row is
  between two calls, and a third price would only repeat the increment. Start price
  1, increment 1, prices 2 and 3, so that a bid may be too low, equal to another,
  or overtaken.
- *Clock* (`MaxTime`) up to 3 with the end at 1 and one extension by 2: a bid before
  the end, one in the sniper window, one after, and one after the extension.
- `admin` has one call of each kind, because what it asks is whether the
  *kinds* of writers disturb each other; two calls race in `orderly`, and the
  theorems below hold for any number. `ExtensionBound` caps the administrator's
  extensions at 1, in the guard of `ReadForExtension`.
- `closes` has one bid but two replicas: closing is about the workers.
- *Two deposits* in a settlement: the winner's and a loser's, which take all the
  different paths. `MaxRetries` is 2 in place of 3 and `ItemsPerTick` 1 or 2 in
  place of 5: a tick that leaves items for the next, and one that does not; an item
  that fails, is retried, and succeeds or is exhausted. `ItemsLimit` is 2, so that no manifest of
  these runs is oversized; `Abandon` runs by expiry.
- `relay`: two events, one that makes a single call and one that makes three, a batch of
  one so that order is between batches, two attempts, two connections per replica (one that has the
  lock and one that has not) and `LockDepth` 2. `MaxFaults` is 1: every property that tolerates faults counts them,
  and the proofs do without the bound.
- `told`: one event with three calls of which one names a user, two dispatch workers, two attempts to send, one
  fault on each side. The relay has one attempt, since more of them are in `relay`. There is one row, which is what two
  workers race for; a second one takes the instance with two workers out of reach. So a repeated call finds
  no free row and is counted as lost: that it adds another row, and that rows do not disturb each other, is covered by
  `SendingBounded` and `ProcessedQueued`, which are proved for any rows.
- `payments`: one payment with two handlers, because what races in the code is two
  requests, or a request and a callback, for the same payment; payments meet at the deposit
  only, for which `Earlier` stands. Three refunds of 1 against an amount of 2: the third is one
  too many. `MaxFaults` 2: an answer lost, and one more thing going wrong after it. Both values of `gateway` are initial.
- `reservations`: two parcels, reservations, users and requests, a limit of 1 in place of 3,
  three changes of status for one parcel and one for the other, which is enough for a parcel
  to be sold under an edit that has read an old status.
- `spins`: two requests, limits 1 and 2 so that an edit may raise or lower the limit, and four results,
  one more than both together should allow; two users, and two moments a cooldown apart.
- *Symmetry*: calls, workers, administrators and (with one owner) keys are
  interchangeable. The liveness runs use none.

## Fairness

`AuctionEngine!Fairness`: time passes; a Redis key expires; a transaction that holds
the row ends; a replica's interval timer fires again. Taking a Redis lock and waiting for a
row lock are strongly fair: PostgreSQL grants a row lock in the order it was asked
for, and a replica that asks in every tick for a key that keeps coming free gets it
some day. That the replicas stop crashing and their transactions stop failing *some
day* is an assumption, stated as `<>[][~WorkerFails(w) /\ ~CrashWorker(w)]_vars`;
nothing is assumed of bidders.

`OutboxRelay!RelayFairness` is weak: timers fire, calls end by their timeout, time passes. A
relay that keeps asking gets the lock in the end on the connection that has it, because
`Tick` chooses any connection. Faults are bounded by `MaxFaults`, which is the assumption that they
stop. `EventPipeline!Fairness` adds the same for each dispatch worker: its timer fires again after a restart, too.

`Payments!PaymentsFairness`: a form expires, calls end, the worker's timer fires. Listing and
resolving are strongly fair (with PayTR `Resolve` is never reached), because a row lock is granted in turn and the worker's batch is assumed not to
leave a payment out for ever. Nobody has to pay, capture, call back or refund.

`Settlement!Fairness` is the same in kind. Nothing is assumed of the provider but that its calls
end, which the timeout of `RealPaymentService` sees to.

## The proofs

`AuctionEngine_proofs` (TLAPS; any sets of bidders, keys, calls, workers and
administrators, any prices and clock):

- `TypeCorrect`: `Spec => []TypeOK`. `TypeOK` is inductive because it includes that a
  call past its arrival has its request.
- `LoadedRowCorrect`: `Spec => []LoadedRowIsCurrent`. Inductive with `TypeOK`: every step
  that changes the row needs the row lock or finds it free, and when it is free
  nobody decides (`OnlyHolderDecides`).
- `WinnerCorrect`: `Spec => []WinnerIsHighestBid`, stale administrative saves included.
  The winner being highest is not inductive: an entity may carry a winner read
  long ago, and a bid inserted later would overtake it. `WinnerInv` adds that a winner, in
  the row or in an entity, exists only in a status that is past the bidding, where the insert
  trigger refuses bids and from which the status trigger allows no way back.

In the same module, under `OrderlySpec`:

- `PriceCorrect`: `OrderlySpec => []PriceIsHighestBid`, `CountCorrect`:
  `OrderlySpec => []CountsEveryBid`, `PriceRises`: `OrderlySpec => PriceNeverFalls`. None
  holds under `Spec`, where a save writes back an old row; so the argument is what
  the operating procedure adds. `Opening` says it: while an administrative call is
  under way the auction is not open yet, the call is alone, and what it read is
  still the row but for the status; so its save touches the status only. With
  `LoadedRowIsCurrent`, a bid that is accepted was measured against the row it overwrites
  (`WithBidSaves`).
- `AuctionKept`: `OrderlySpec => ImplementsEnglishAuction`. `RowSteps` lists what a step
  may do to row and bids; each is a step of `EnglishAuction`, or changes nothing it
  shows. `WinnerInv` gives that there is no winner before the decision, and
  `PriceInv` that the bid beats every earlier one and the starting price.

and about the end of the auction:

- `AnnouncedCorrect`: `OrderlySpec => []EndingIsAnnounced`. The status and its event are written by
  one transaction, and a status is left only forwards.
- `EndRespected`: `OrderlySpec => NeverClosedEarly`, assuming `AppClockSkew = 0`: the worker queries by the
  replica's clock, but closes the row it reads under its lock only if that has ended.
- `ProlongationCorrect`: `OrderlySpec => []ProlongationIsBounded`. A bid that extends came before
  the end it moves, so that it adds at most one extension to it.

`Settlement_proofs` (any finite set of deposits, any set of workers, any bounds):

- `TypeCorrect`: `Spec => []TypeOK`. Inductive with `Shape`: a worker inside its turn has a
  copy of the manifest, one at an item has its item, and an item about to fail has a
  retry left.
- `LedgerCorrect`: `Spec => []LedgerMatchesDeposits`, with lost locks, stale copies and calls
  made twice. Inductive with `Progress`: a worker calls the provider or records only for a
  deposit it found begun, and no loser's ledger step is taken for the winner's deposit.
- `ManifestCorrect`: `Spec => []ManifestMatchesDeposits`. The invariant is about every stale
  copy as well as the saved manifest (`Truth`): an item is acknowledged only after its
  deposit is settled, a settled deposit stays settled, so a copy that overwrites a newer manifest may
  forget an answer but never invents one. `Untouched` says no deposit moves before there
  is a manifest.
- `NoSecondCallCorrect`: `TimelySpec => []NoSecondCall`. As long as a lock outlives its holder's
  turn, turns exclude each other (`Exclusion`) and a deposit about to be paid is still
  unsettled (`CallIsDue`). Under `Spec` TLC finds it violated: the premise is needed.
- `EscrowKept`: `UnattendedSpec => ImplementsEscrow`. `Begun` adds what relates the auction to the
  workers: whoever is at an item has begun the settlement, what is about to be recorded has
  moved, and once settled nothing is left to do, although a worker that lost its
  lock may still be at an item.

`OutboxRelay_proofs` (any finite set of events with any calls, any replicas and connections,
any batch size, any number of faults):

- `RelayTypeOK`, `AtLeastOnce`, `OneRelay`, `FirstAttempts` and `SettledStays` follow from one
  invariant. `LockHeld` says that until a lock is lost under a tick, whoever is
  in one has the lock, on some connection: taking it again on the same connection
  raises its depth, and an unlock elsewhere leaves it. `CallsMade` says that the calls before the one a
  relay is at have taken effect, whatever other relays do with the event, since `handled` only grows.
  `BatchOrder` and `Tried` carry the order of a batch to the attempts. `SettledStays` needs the exception `unsure`: an event
  that is processed and whose relay believes otherwise is still that relay's, which holds the lock; every other event
  of a batch that is not settled yet has nobody else at it.
- `RepetitionBounded`: `Spec => []RepetitionIsBounded`. `Counted` says that the attempts a relay read
  are still the row's, `AttemptLeft` that an event nobody is at either is settled or may be
  tried once more, a fault being what lets `Reclaim` give it back after its last attempt.

`EventPipeline_proofs` (any rows, any attempts to send; about `PipelineSpec`):

- `PipelineIsRelay`: `PipelineSpec => Spec` of the relays, so their invariant holds behind the queue
  too. The monolith only decides which of a call's outcomes the relay sees.
- `SendingBounded`: `PipelineSpec => []SendingIsBounded`, for any number of workers. `RowInv` says of a row that is not
  `shared` that at most one worker has it in hand, that what this worker read is what the row has, that it counts an attempt
  before it uses it, and that a row left by a crash is in a status nobody polls.
- `ProcessedQueued`: `PipelineSpec => []ProcessedIsQueued`. `CallsAreQueued` says that a call that
  took effect has left a row, its answer lost or not; with the relay's `ProcessedWasDelivered` that is all.

`Payments_proofs` (any payments, handlers and workers, with and without a status query, any
number of faults; about `Payments!Spec`, without refunds):

- `PaymentsTypeOK`, `OneProvision`, `EndedIsRecorded`, `DepositsArePaid`, `LedgerIsTrue`, `TriggerIsSilent`.
  They say what holds with each kind of provider: `EndedAsRecorded` has the provider capture and release
  what the books say if it is asked, and keep it if it is PayTR (`Became`). `NotAsked` says that PayTR never captures or
  releases anything.
  The invariant has three kinds of conjuncts. `AskedOnce`: who is between creation
  and the provider's call is alone with its payment, which has not been asked for.
  `LockIsExclusive` and `UnderLock`: at most one transaction has a payment's lock, and what it
  found under it is still so. `AnswersAreTrue` and `BooksAreTrue`: what somebody is told by the
  provider, and what is written down, the provider has done, and nothing it does
  later takes it back.
- `HeldIsKnown`: `Spec => []HeldMoneyIsKnown`, from a second invariant on top of that one. `ServedOnce` says that a
  payment is served by the handler that created it; `RefusalsAreTrue` and `FindingsAreTrue` say that whoever is about
  to record a failure has been refused, or has missed an answer, or asked before the user paid; `StatusIsTrue`
  relates the statuses to the provider's. The exception for PayTR is exact: what it holds of a payment that is neither
  provisioned nor waiting is captured, refunded or cancelled.

`Refunds_proofs` (any finite set of refunds of any such payments, any amounts; about `RefundsSpec`):

- `RefundsStayWithinAmount`, `StatusTellsWhatIsBack`, `PaidBackIsOnRecord`. `RefundsAreTrue`
  says what a refund under way knows: one whose call has been answered is still pending, and one
  the provider has paid back is completed, about to be, or had its answer lost. A
  request counts what is completed or pending, and inserts, in one transaction under the payment's lock; afterwards
  a refund leaves `pending` only for `completed` or `failed`, so nothing else makes that sum grow.
- What a sum over a set does when a refund joins or leaves it cannot be shown by induction here, for
  the library's induction theorems cannot be instantiated. The lemmas `SumsAgree`, `SumsExist` and
  `TotalWithout` use a minimal counterexample instead: strict inclusion is well-founded on the subsets of a
  finite set, so a claim that fails for some set of refunds fails for a smallest one.
- `RefundsKeepPayments`, `TriggerIsSilentOnRefunds`: the invariants of `Payments` hold with refunds beside it, with either provider.
  `IInv` of payments was not preserved by refunds as it first stood, which said that what is captured is
  `completed`; it now says captured or refunded (`Paid`).

`Listings_proofs` (any parcels, reservations, users, requests and replicas, any limit):

- `ListingsTypeOK`, `OneActiveReservation`, `LimitKept`, `StatusRecorded`, `ReservedOnTheMarket`. A
  request that has the parcel's lock keeps its status as it was found, because every writer
  of it waits for the lock; a stale save of a reservation can only write `cancelled` or
  `expired`; and the status an edit saves is one that the history knew when it was read.

`SpinWheel_proofs` (any campaigns and users, any finite sets of results and requests, any limits and cooldown):

- `SpinTypeOK`, `UsesAreBacked`, `LimitIsPassedByCallsOnly`. `Counted(k)` is the number of results less
  those whose requests have yet to raise the count. `CountsAreBacked` says that the count in the row, and in every
  edit that has read it, is at most that: a stale entity only lags, because results are never removed.
  `RowsAreCounted` says that it is exactly that where no use went uncounted. `EntrantsAreFew` counts the requests
  that have passed the check of the limit, together with the results, against the highest limit and the number of requests.
  `LimitsHaveMax` is what `Max` of a set of limits needs: a limit of that set, to be the greatest.

The proofs assume only what the modules ASSUME: prices and times are naturals, the
increment is positive, the deposits, refunds, results and requests are finitely many, the retry bound is
positive, and `None` is none of the other values.

A `TypeOK` is what the proofs start from; where it is proved no run repeats it.

Every safety invariant, action property and refinement of the passing runs is proved. Only model-checked: liveness
(`AuctionCloses`, `SettlementFinishes`, `EventSettles`, `UserIsTold`, `NotificationSettles`, `AwaitingEnds`), which is
outside what the prover handles.

## Where code and documents disagree

Two runs check one statement of the documents or comments each, and TLC shows the code doing otherwise.

| Run, property | What happens |
|---|---|
| `price`, `PriceNeverFalls` | `updateStatus` reads a live auction, a bid commits, the save writes the old price back. |
| `collected`, `EveryDepositSettled` | Payments leave deposits `collected`, the settlement looks for `held`: the auction settles without them. |

More was met while modelling. The models have the behaviour; no run is about it.

In the auction service:

- An entity read before an auction ended and saved after it erases the winner. Migration 020 guards the
  outcome in `settling` and `settlement_failed`, and of an `ended` row looks at the status
  only, where migration 011 promised more.
- A settlement worker that listed a manifest before another completed it saves it as active again.
- Five provider timeouts of 7 s outlast the settlement's lock of 30 s, and a second worker asks again.
- Retrying a settlement needs `settlement_failed` → `settling`, which the trigger refuses.
- An administrator who sets `ending` to `ended` by hand leaves the auction without a winner,
  because the worker then has nothing to do.
- With a sniper window longer than the extension, a bid early in the window moves the end
  *back*, because the new end is `NOW()` plus the extension, whatever the end was.

In the outbox and the notifications:

- The order of an auction's events is kept for first attempts only: an event that
  fails is tried again after later ones.
- `auction.lost` and `auction.starting_soon` are posted without a user, "the monolith notification service will look
  up participants" (`notification-event.consumer.ts:116`); `handleEvent` skips them (`notification.service.ts:271`).
- `event_consumer_offsets`, "dedup per consumer group" (migration 034), is never written: a repeated
  event is a repeated message.
- A row left `sending` by a crash is never polled again.
- An event whose UPDATE to `processed` (`outbox-relay.worker.ts:137`) commits and loses its answer is taken back to
  `pending`, or to `dead_letter`, by the catch block, and in the first case dispatched again.
- Two processes of the monolith that poll at the same moment send the same row (`notification-dispatch.worker.ts:48-60` has a
  flag per process and no claim), and count one attempt between them. TLC refutes
  `mails[n] <= tries[n]` without the condition on `shared`.

In payments and refunds:

- With a provider that has no status query (PayTR) a stale 3-D Secure payment is never
  expired, although "expire stale 3DS" is what the branch for such a provider is there for (`reconciliation.worker.ts:201`):
  the wrapper of the gateway always has the method, so that the branch is never taken, and the method throws.
  `AwaitingEnds` is therefore claimed of the other providers only; without that condition TLC refutes it.
- `PaytrGateway.cancelProvision` "delegates to refund flow" (`paytr-gateway.ts:232`), but calls nobody and answers
  with success. The payment is recorded as cancelled, PayTR keeps the money, and `RefundService` refuses
  a payment that is cancelled. `EndedAsRecorded` and `HeldMoneyIsKnown` name this case.
- A bank transfer is sent to the card provider like any payment, and verifying one needs a
  payment still `pending`.
- When the deposit cannot be inserted, "Log but don't fail the payment"
  (`payment.service.ts:473`) cannot work: the transaction is aborted, and the payment is rolled
  back to `pending` while the provider holds the money.
- A payment that reconciliation marks as provisioned has no `pos_transactions` row, so it
  can be neither captured nor cancelled, and no deposit.
- An error of the provider's query is taken for "not found", and a paid payment is expired.
- A refund whose answer is lost is marked failed, and its amount may be refunded again.
- Neither cancelling nor refunding a payment touches its deposit.

In listings:

- The limit of three reservations is counted under a lock of the parcel: overlapping requests of one user pass it.
- An edit writes back the status it read, over one set meanwhile, without a history row.
- Withdrawing a parcel leaves its active reservation.

In campaigns:

- Two requests of one user look for a recent spin before either has saved its own: two prizes for "1 spin per
  24h" (`spin-wheel.service.ts:98`). TLC refutes `OneSpinPerCooldown` in the instance of `spins`.
- An edit of an active campaign writes back the count of uses it read, so that uses go uncounted and the
  limit is reached later or never.
- An edit that overlaps a removal brings the campaign back.

## What is not modelled

Of the modelled components: the audit rows of rejected bids (`bid_rejections`), the
timestamps `actual_start` and `ended_at`, the `version` column (it refuses nothing), the
limit on concurrently live auctions, rate limits, `remove`, the per-process
metrics, the `refunds` record of a refunded deposit, the item status `sent` (it never
reaches a saved manifest), and more than one manifest per tick. The statements of
one transaction are one step. A Redis key may expire at any time, which includes
the time its TTL gives. A replica's clock may be skewed in `admin` only:
`NeverClosedEarly` is about synchronised clocks.

In the outbox and notifications: payloads, templates, preferences and devices (a push to
several devices is one send), the log of attempts, the order of the dispatch queue by time. In
payments: signatures, tokens and amounts of a callback (one that is wrong changes nothing), the
request hash, the expiry of idempotency keys (an expired key is found all the same), participants, the
advisory lock of reconciliation and its batch. In refunds: their ledger rows and `pos_transactions`.
In listings: images, favourites, alerts, viewer counts, search, prices and maps. In campaigns: prizes and their
codes, the redeeming of a code, rules, assignments and dates.

The circuit breaker (`services/payment.service.ts` of the auction service) is memory of one process that
turns a call into a failure; the settlement has that failure at every call, so the breaker adds no behaviour
to the stored state.

Whole components: user interfaces (the larger part of the repository's lines), search, content,
reporting, mail, OAuth, sessions, process management, the formatting in provider
adapters, and the CRM, whose unlocked saves are the pattern
`Listings` examines. `PROJECT.json` gives the reason for each.

## Plan

Done, in this order: `AuctionEngine` with `AuctionStatus` and `EnglishAuction`; `Settlement` with
`Escrow`; `OutboxRelay`, `NotificationDispatch` and their composition; `Payments` with
reconciliation, and `Refunds`; `Listings`; `SpinWheel`; the proofs listed above.

Left:

1. `Payments` and `Settlement` composed over the deposit row: a deposit as the payments
   service leaves it is not one the settlement takes up, so today the composition would show run
   `collected` again.
2. The settlement's queue of manifests, of which a tick takes three.
3. `Offer`, `TokenRotation`.
4. An abstract specification of a payment as its payer sees it (held, taken, released, given back), with
   `RefundsSpec` shown to implement it, as `AuctionEngine` and `Settlement` implement theirs.
