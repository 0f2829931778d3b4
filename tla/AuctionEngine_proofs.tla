------------------------ MODULE AuctionEngine_proofs ------------------------
(***************************************************************************)
(* Proofs about AuctionEngine, for every set of calls, workers and keys: its *)
(* invariants under Spec; then that, run by the operating procedure        *)
(* (OrderlySpec), it implements EnglishAuction; then when an auction closes *)
(* and what is announced when it does.                                     *)
(***************************************************************************)
EXTENDS AuctionEngine, FiniteSetTheorems, TLAPS

LEMMA InitialRowType == InitialRow \in Row
  BY PricesAssumption, ClockAssumption DEF InitialRow, Row, AuctionStatuses

LEMMA OverwriteType ==
    ASSUME NEW old \in Row, NEW saved \in Row, NEW columns
    PROVE  Overwrite(old, saved, columns) \in Row
  BY DEF Overwrite, Row

LEMMA ForgetType ==
    ASSUME TypeOK, NEW h \in Handlers, Forget(h)
    PROVE  /\ request' \in [Handlers -> Request \cup {None}]
           /\ txNow' \in [Handlers -> Nat]
           /\ loaded' \in [Handlers -> Row]
           /\ \A g \in Handlers \ {h} : request'[g] = request[g]
  BY InitialRowType DEF TypeOK, Forget

LEMMA WithBidType ==
    ASSUME TypeOK, NEW h \in Handlers, request[h] \in Request
    PROVE  WithBid(h) \in Row
  <1> DEFINE counted == [loaded[h] EXCEPT !.price = request[h].amount,
                                          !.bidCount = @ + 1]
  <1>1. /\ loaded[h] \in Row
        /\ txNow[h] \in Nat
    BY DEF TypeOK
  <1>2. request[h].amount \in Nat
    BY PricesAssumption DEF Request
  <1>3. loaded[h].bidCount + 1 \in Nat
    BY <1>1 DEF Row
  <1>4. counted \in Row
    BY <1>1, <1>2, <1>3 DEF Row
  <1>5. counted.extensions + 1 \in Nat /\ txNow[h] + SniperExtension \in Nat
    BY <1>1, <1>4, ClockAssumption DEF Row
  <1>6. [counted EXCEPT !.end = txNow[h] + SniperExtension,
                        !.extensions = @ + 1] \in Row
    <2> HIDE DEF counted
    <2> QED
      BY <1>4, <1>5 DEF Row
  <1> QED
    BY <1>4, <1>6 DEF WithBid

LEMMA TypeBidCall ==
    ASSUME TypeOK, NEW h \in Handlers, BidCall(h)
    PROVE  TypeOK'
  <1>1. ASSUME NEW k \in Keys, NEW amount \in Prices, NEW quoted \in Nat,
               Arrive(h, k, amount, quoted)
        PROVE  TypeOK'
    BY <1>1 DEF TypeOK, Arrive, Go, Request, rowVars, gateVars, adminVars
  <1>2. CASE AcquireBidLock(h)
    BY <1>2 DEF TypeOK, AcquireBidLock, Go, rowVars, gateVars, adminVars
  <1>3. CASE RefuseBid(h)
    BY <1>3, ForgetType DEF TypeOK, RefuseBid, Go, rowVars, gateVars, adminVars
  <1>4. CASE BeginTx(h)
    BY <1>4, ForgetType DEF TypeOK, BeginTx, Go, rowVars, gateVars, adminVars
  <1>5. CASE LockRow(h)
    BY <1>5 DEF TypeOK, LockRow, Go, rowVars, gateVars, adminVars
  <1>6. CASE RejectBid(h)
    BY <1>6, ForgetType DEF TypeOK, RejectBid, Go, rowVars, gateVars, adminVars
  <1>7. CASE AcceptBid(h)
    <2>1. request[h] \in Request
      BY <1>7 DEF TypeOK, AcceptBid, Go
    <2>2. /\ row' \in Row
          /\ bids' \subseteq Bid
          /\ outbox' \subseteq Events
      BY <1>7, <2>1, WithBidType DEF TypeOK, AcceptBid, Request, Bid, Events
    <2> QED
      BY <1>7, <2>2, ForgetType DEF TypeOK, AcceptBid, Go, gateVars, adminVars
  <1>8. CASE AbortTx(h)
    BY <1>8, ForgetType DEF TypeOK, AbortTx, rowVars, gateVars, adminVars
  <1>9. CASE ReleaseBidLock(h)
    BY <1>9 DEF TypeOK, ReleaseBidLock, Go, rowVars, gateVars, adminVars
  <1>10. CASE CrashBid(h)
    BY <1>10, ForgetType DEF TypeOK, CrashBid, rowVars, gateVars, adminVars
  <1>11. row.price \in Nat /\ RestQuotes \subseteq Nat
    BY PricesAssumption DEF TypeOK, Row
  <1> QED
    BY <1>1, <1>2, <1>3, <1>4, <1>5, <1>6, <1>7, <1>8, <1>9, <1>10, <1>11
       DEF BidCall, GatewayBid, RestBid

LEMMA TypeEndingWorker ==
    ASSUME TypeOK, NEW w \in Workers, EndingWorker(w)
    PROVE  TypeOK'
  <1>1. CASE Select(w)
    BY <1>1 DEF TypeOK, Select, Move, rowVars, gateVars, bidVars, adminVars
  <1>2. CASE AcquireWorkerLock(w)
    BY <1>2 DEF TypeOK, AcquireWorkerLock, Move, rowVars, gateVars, bidVars,
                adminVars
  <1>3. CASE SkipAuction(w)
    BY <1>3 DEF TypeOK, SkipAuction, Move, rowVars, gateVars, bidVars, adminVars
  <1>4. CASE LiveToEnding(w)
    <2>1. row' \in Row /\ outbox' \subseteq Events
      BY <1>4 DEF TypeOK, LiveToEnding, Row, AuctionStatuses, Events
    <2> QED
      BY <1>4, <2>1 DEF TypeOK, LiveToEnding, Move, gateVars, bidVars, adminVars
  <1>5. CASE EndingToEnded(w)
    <2>1. row' \in Row
      <3>1. CASE UNCHANGED row
        BY <3>1 DEF TypeOK
      <3>2. CASE \E b \in bids \cup {None} :
                   row' = [row EXCEPT !.status = "ended",
                                      !.winner = IF b = None THEN @ ELSE b]
        BY <3>2 DEF TypeOK, Row, AuctionStatuses
      <3> QED
        BY <1>5, <3>1, <3>2 DEF EndingToEnded
    <2>2. outbox' \subseteq Events
      BY <1>5 DEF TypeOK, EndingToEnded, Events
    <2> QED
      BY <1>5, <2>1, <2>2 DEF TypeOK, EndingToEnded, Move, gateVars, bidVars,
                        adminVars
  <1>6. CASE WorkerFails(w)
    BY <1>6 DEF TypeOK, WorkerFails, Move, rowVars, gateVars, bidVars, adminVars
  <1>7. CASE ReleaseWorkerLock(w)
    BY <1>7 DEF TypeOK, ReleaseWorkerLock, Move, rowVars, gateVars, bidVars,
                adminVars
  <1>8. CASE CrashWorker(w)
    BY <1>8 DEF TypeOK, CrashWorker, rowVars, gateVars, bidVars, adminVars
  <1> QED
    BY <1>1, <1>2, <1>3, <1>4, <1>5, <1>6, <1>7, <1>8 DEF EndingWorker

LEMMA TypeAdminCall ==
    ASSUME TypeOK, NEW a \in Admins, AdminCall(a)
    PROVE  TypeOK'
  <1>1. ASSUME NEW to \in AuctionStatuses, ReadForStatus(a, to)
        PROVE  TypeOK'
    <2>1. [row EXCEPT !.status = to] \in Row
      BY DEF TypeOK, Row
    <2> QED
      BY <1>1, <2>1 DEF TypeOK, ReadForStatus, rowVars, gateVars, bidVars
  <1>2. CASE CompareEntity(a)
    BY <1>2 DEF TypeOK, CompareEntity, DirtyColumns, rowVars, gateVars, bidVars
  <1>3. CASE WriteEntity(a)
    <2>1. row' \in Row
      BY <1>3, OverwriteType DEF TypeOK, WriteEntity
    <2> QED
      BY <1>3, <2>1, InitialRowType
         DEF TypeOK, WriteEntity, Finish, gateVars, bidVars
  <1>4. ASSUME NEW minutes \in AdminMinutes, ReadForExtension(a, minutes)
        PROVE  TypeOK'
    <2>1. row \in Row /\ row.end + minutes \in Nat
      BY ClockAssumption DEF TypeOK, Row
    <2>2. [row EXCEPT !.end = @ + minutes] \in Row
      BY <2>1 DEF Row
    <2> QED
      BY <1>4, <2>2 DEF TypeOK, ReadForExtension, rowVars, gateVars, bidVars
  <1>5. CASE WriteExtension(a)
    <2>1. row \in Row /\ entity[a].end \in Nat /\ row.extensions + 1 \in Nat
      BY DEF TypeOK, Row
    <2>2. row' \in Row
      BY <1>5, <2>1 DEF WriteExtension, Row
    <2> QED
      BY <1>5, <2>2, InitialRowType
         DEF TypeOK, WriteExtension, Finish, gateVars, bidVars
  <1> QED
    BY <1>1, <1>2, <1>3, <1>4, <1>5 DEF AdminCall, Save

LEMMA TypeEnvironment ==
    ASSUME TypeOK, Environment
    PROVE  TypeOK'
  BY DEF TypeOK, Environment, Tick, BidLockExpires, WorkerLockExpires, Enrol,
         AcceptConsent, rowVars, gateVars, bidVars, adminVars

\* Type correctness: whatever the calls, the workers and the administrators do,
\* and however they interleave, every variable keeps its type.
THEOREM TypeCorrect == Spec => []TypeOK
  <1>1. Init => TypeOK
    BY InitialRowType DEF Init, TypeOK
  <1>2. TypeOK /\ [Next]_vars => TypeOK'
    <2> SUFFICES ASSUME TypeOK, [Next]_vars PROVE TypeOK'
      OBVIOUS
    <2>1. CASE UNCHANGED vars
      BY <2>1 DEF TypeOK, vars
    <2>2. CASE Next
      BY <2>2, TypeBidCall, TypeEndingWorker, TypeAdminCall, TypeEnvironment
         DEF Next, Engine
    <2> QED
      BY <2>1, <2>2
  <1> QED
    BY <1>1, <1>2, PTL DEF Spec

-----------------------------------------------------------------------------
(***************************************************************************)
(* The row lock.  Every step either leaves the row, the lock and the       *)
(* deciding calls alone, or belongs to the call that holds the lock, or    *)
(* needs the lock to be free, and then nobody decides.                     *)
(***************************************************************************)

LEMMA OnlyHolderDecides ==
    ASSUME LoadedRowIsCurrent, TypeOK, rowLock = None
    PROVE  \A h \in Handlers : phase[h] # "deciding"
  BY NoneAssumption DEF LoadedRowIsCurrent

LEMMA LoadedBidCall ==
    ASSUME TypeOK, LoadedRowIsCurrent, NEW h \in Handlers, BidCall(h)
    PROVE  LoadedRowIsCurrent'
  <1>1. ASSUME NEW k, NEW amount, NEW quoted, Arrive(h, k, amount, quoted)
        PROVE  LoadedRowIsCurrent'
    BY <1>1 DEF TypeOK, LoadedRowIsCurrent, Arrive, Go, rowVars
  <1>2. CASE AcquireBidLock(h) \/ ReleaseBidLock(h)
    BY <1>2 DEF TypeOK, LoadedRowIsCurrent, AcquireBidLock, ReleaseBidLock, Go,
                rowVars
  <1>3. CASE RefuseBid(h)
    BY <1>3 DEF TypeOK, LoadedRowIsCurrent, RefuseBid, Go, Forget, rowVars
  <1>4. CASE BeginTx(h)
    BY <1>4 DEF TypeOK, LoadedRowIsCurrent, BeginTx, Go, Forget, rowVars
  <1>5. CASE LockRow(h)
    BY <1>5, OnlyHolderDecides
       DEF TypeOK, LoadedRowIsCurrent, LockRow, Go, rowVars
  <1>6. CASE RejectBid(h) \/ AcceptBid(h)
    <2>1. \A g \in Handlers : phase'[g] # "deciding"
      BY <1>6 DEF TypeOK, LoadedRowIsCurrent, RejectBid, AcceptBid, Go
    <2> QED
      BY <2>1 DEF LoadedRowIsCurrent
  <1>7. CASE AbortTx(h) \/ CrashBid(h)
    BY <1>7 DEF TypeOK, LoadedRowIsCurrent, AbortTx, CrashBid, Forget, rowVars
  <1> QED
    BY <1>1, <1>2, <1>3, <1>4, <1>5, <1>6, <1>7
       DEF BidCall, GatewayBid, RestBid

LEMMA LoadedEndingWorker ==
    ASSUME TypeOK, LoadedRowIsCurrent, NEW w \in Workers, EndingWorker(w)
    PROVE  LoadedRowIsCurrent'
  <1>1. CASE LiveToEnding(w) \/ EndingToEnded(w)
    BY <1>1, OnlyHolderDecides
       DEF LoadedRowIsCurrent, LiveToEnding, EndingToEnded, bidVars
  <1>2. CASE ~(LiveToEnding(w) \/ EndingToEnded(w))
    BY <1>2 DEF LoadedRowIsCurrent, EndingWorker, Select, AcquireWorkerLock,
                SkipAuction, WorkerFails, ReleaseWorkerLock, CrashWorker,
                rowVars, bidVars
  <1> QED
    BY <1>1, <1>2

LEMMA LoadedAdminCall ==
    ASSUME TypeOK, LoadedRowIsCurrent, NEW a \in Admins, AdminCall(a)
    PROVE  LoadedRowIsCurrent'
  <1>1. CASE WriteEntity(a) \/ WriteExtension(a)
    BY <1>1, OnlyHolderDecides
       DEF LoadedRowIsCurrent, WriteEntity, WriteExtension, bidVars
  <1>2. CASE ~(WriteEntity(a) \/ WriteExtension(a))
    BY <1>2 DEF LoadedRowIsCurrent, AdminCall, Save, ReadForStatus,
                CompareEntity, ReadForExtension, rowVars, bidVars
  <1> QED
    BY <1>1, <1>2

\* The row lock makes the entity of placeBid current: while a bid transaction
\* decides, it is the only one, and neither the ending worker nor an
\* administrative call changes the row it loaded.
THEOREM LoadedRowCorrect == Spec => []LoadedRowIsCurrent
  <1>1. Init => LoadedRowIsCurrent
    BY DEF Init, LoadedRowIsCurrent
  <1>2. TypeOK /\ LoadedRowIsCurrent /\ [Next]_vars => LoadedRowIsCurrent'
    <2> SUFFICES ASSUME TypeOK, LoadedRowIsCurrent, [Next]_vars
                 PROVE  LoadedRowIsCurrent'
      OBVIOUS
    <2>1. CASE UNCHANGED vars
      BY <2>1 DEF LoadedRowIsCurrent, vars
    <2>2. CASE Environment
      BY <2>2 DEF LoadedRowIsCurrent, Environment, Tick, BidLockExpires,
                  WorkerLockExpires, Enrol, AcceptConsent, rowVars, bidVars
    <2> QED
      BY <2>1, <2>2, LoadedBidCall, LoadedEndingWorker, LoadedAdminCall
         DEF Next, Engine
  <1> QED
    BY <1>1, <1>2, TypeCorrect, PTL DEF Spec

-----------------------------------------------------------------------------
(***************************************************************************)
(* The winner.  That the winner is the highest bid is not inductive: an    *)
(* administrative call may write back a winner it read long ago, and a bid *)
(* may overtake one that was decided too early.  WinnerInv says why        *)
(* neither happens: a winner, in the row or in an entity, exists only once *)
(* the auction is past its end, where no bid is inserted any more.         *)
(***************************************************************************)

Past == {"ended", "settling", "settled", "settlement_failed"}

WinnerInv ==
    /\ row.winner # None => Highest(row.winner) /\ row.status \in Past
    /\ \A a \in Admins :
          entity[a].winner # None
             => Highest(entity[a].winner) /\ row.status \in Past

\* A step that changes neither the bids nor the winners and leaves a decided
\* auction decided.
LEMMA WinnerKept ==
    ASSUME WinnerInv, bids' = bids,
           row'.winner = row.winner,
           row.status \in Past => row'.status \in Past,
           \A a \in Admins : entity'[a].winner \in
                                {entity[a].winner, row.winner, None}
    PROVE  WinnerInv'
  BY DEF WinnerInv, Highest

LEMMA TriggerKeepsPast ==
    ASSUME NEW old, NEW new, TriggerAccepts(old, new), old.status \in Past
    PROVE  new.status \in Past
  BY DEF TriggerAccepts, DbTransitions, Past

LEMMA WinnerBidCall ==
    ASSUME TypeOK, LoadedRowIsCurrent, WinnerInv,
           NEW h \in Handlers, BidCall(h)
    PROVE  WinnerInv'
  <1>1. CASE AcceptBid(h)
    <2>1. row.status = "live" /\ entity' = entity
      BY <1>1 DEF AcceptBid, InsertAccepts, adminVars
    <2>2. row.winner = None /\ \A a \in Admins : entity[a].winner = None
      BY <2>1 DEF WinnerInv, Past
    <2>3. row' = WithBid(h) /\ loaded[h] = row /\ row \in Row
      BY <1>1 DEF AcceptBid, Go, LoadedRowIsCurrent, TypeOK
    <2>4. WithBid(h).winner = loaded[h].winner
      BY <2>3 DEF WithBid, Row
    <2> QED
      BY <2>1, <2>2, <2>3, <2>4 DEF WinnerInv
  <1>2. CASE ~AcceptBid(h)
    <2>1. UNCHANGED <<bids, row, entity>>
      BY <1>2 DEF BidCall, GatewayBid, RestBid, Arrive, AcquireBidLock,
                  RefuseBid, BeginTx, LockRow, RejectBid, AbortTx,
                  ReleaseBidLock, CrashBid, rowVars, adminVars
    <2> QED
      BY <2>1, WinnerKept
  <1> QED
    BY <1>1, <1>2

LEMMA WinnerEndingWorker ==
    ASSUME TypeOK, WinnerInv, NEW w \in Workers, EndingWorker(w)
    PROVE  WinnerInv'
  <1>1. CASE EndingToEnded(w)
    <2>1. bids' = bids /\ entity' = entity /\ row \in Row
      BY <1>1 DEF EndingToEnded, adminVars, TypeOK
    <2>2. CASE row.status = "ending"
      <3>1. row.winner = None /\ \A a \in Admins : entity[a].winner = None
        BY <2>2 DEF WinnerInv, Past
      <3>2. PICK b \in bids \cup {None} :
              /\ IF bids = {} THEN b = None ELSE Highest(b)
              /\ row' = [row EXCEPT !.status = "ended",
                                    !.winner = IF b = None THEN @ ELSE b]
        BY <1>1, <2>2 DEF EndingToEnded
      <3>3. row'.status = "ended" /\ row'.winner = b
        BY <2>1, <3>1, <3>2 DEF Row
      <3>4. b # None => Highest(b)'
        BY <2>1, <3>2 DEF Highest
      <3> QED
        BY <2>1, <3>1, <3>3, <3>4 DEF WinnerInv, Past
    <2>3. CASE row.status # "ending"
      BY <1>1, <2>1, <2>3, WinnerKept DEF EndingToEnded
    <2> QED
      BY <2>2, <2>3
  <1>2. CASE LiveToEnding(w)
    <2>1. bids' = bids /\ entity' = entity /\ row \in Row
      BY <1>2 DEF LiveToEnding, adminVars, TypeOK
    <2>2. \/ row' = row
          \/ row.status = "live" /\ row' = [row EXCEPT !.status = "ending"]
      BY <1>2 DEF LiveToEnding
    <2>3. row'.winner = row.winner /\ (row.status \in Past => row' = row)
      BY <2>1, <2>2 DEF Row, Past
    <2> QED
      BY <2>1, <2>3, WinnerKept
  <1>3. CASE ~(EndingToEnded(w) \/ LiveToEnding(w))
    <2>1. UNCHANGED <<bids, row, entity>>
      BY <1>3 DEF EndingWorker, Select, AcquireWorkerLock, SkipAuction,
                  WorkerFails, ReleaseWorkerLock, CrashWorker, rowVars,
                  adminVars
    <2> QED
      BY <2>1, WinnerKept
  <1> QED
    BY <1>1, <1>2, <1>3

LEMMA WinnerAdminCall ==
    ASSUME TypeOK, WinnerInv, NEW a \in Admins, AdminCall(a)
    PROVE  WinnerInv'
  <1>1. /\ row \in Row
        /\ entity \in [Admins -> Row]
        /\ InitialRow.winner = None
    BY DEF TypeOK, InitialRow
  <1>2. ASSUME NEW to \in AuctionStatuses, ReadForStatus(a, to)
        PROVE  WinnerInv'
    <2>1. [row EXCEPT !.status = to].winner = row.winner
      BY <1>1 DEF Row
    <2> QED
      BY <1>1, <1>2, <2>1, WinnerKept DEF ReadForStatus, rowVars
  <1>3. CASE CompareEntity(a)
    BY <1>3, WinnerKept DEF CompareEntity, rowVars
  <1>4. CASE WriteEntity(a)
    <2> DEFINE new == Overwrite(row, entity[a], dirty[a])
    <2>1. bids' = bids
      BY <1>4 DEF WriteEntity
    <2>2. \A b \in Admins : entity'[b].winner \in {entity[b].winner, None}
      BY <1>1, <1>4 DEF WriteEntity, Finish
    <2>3. CASE row' = row
      BY <2>1, <2>2, <2>3, WinnerKept
    <2>4. CASE row' = new /\ TriggerAccepts(row, new)
      <3>1. row'.winner \in {row.winner, entity[a].winner}
        BY <2>4 DEF Overwrite
      <3>2. row.status \in Past => row'.status \in Past
        BY <2>4, TriggerKeepsPast
      <3> QED
        BY <2>1, <2>2, <3>1, <3>2 DEF WinnerInv, Highest
    <2> QED
      BY <1>4, <2>3, <2>4 DEF WriteEntity
  <1>5. ASSUME NEW minutes \in AdminMinutes, ReadForExtension(a, minutes)
        PROVE  WinnerInv'
    <2>1. [row EXCEPT !.end = @ + minutes].winner = row.winner
      BY <1>1 DEF Row
    <2> QED
      BY <1>1, <1>5, <2>1, WinnerKept DEF ReadForExtension, rowVars
  <1>6. CASE WriteExtension(a)
    <2>1. row'.winner = row.winner /\ row'.status = row.status
      BY <1>1, <1>6 DEF WriteExtension, Row
    <2> QED
      BY <1>1, <1>6, <2>1, WinnerKept DEF WriteExtension, Finish
  <1> QED
    BY <1>2, <1>3, <1>4, <1>5, <1>6 DEF AdminCall, Save

LEMMA WinnerInvCorrect == Spec => []WinnerInv
  <1>1. Init => WinnerInv
    BY DEF Init, WinnerInv, InitialRow
  <1>2. TypeOK /\ LoadedRowIsCurrent /\ WinnerInv /\ [Next]_vars => WinnerInv'
    <2> SUFFICES ASSUME TypeOK, LoadedRowIsCurrent, WinnerInv, [Next]_vars
                 PROVE  WinnerInv'
      OBVIOUS
    <2>1. CASE UNCHANGED vars
      BY <2>1, WinnerKept DEF vars
    <2>2. CASE Environment
      BY <2>2, WinnerKept
         DEF Environment, Tick, BidLockExpires, WorkerLockExpires, Enrol,
             AcceptConsent, rowVars, adminVars
    <2> QED
      BY <2>1, <2>2, WinnerBidCall, WinnerEndingWorker, WinnerAdminCall
         DEF Next, Engine
  <1> QED
    BY <1>1, <1>2, TypeCorrect, LoadedRowCorrect, PTL DEF Spec

\* The winner is the highest bid, whatever administrators do meanwhile: no bid
\* slips in behind a decided winner, and no stale save brings back another one.
THEOREM WinnerCorrect == Spec => []WinnerIsHighestBid
  <1>1. WinnerInv => WinnerIsHighestBid
    BY DEF WinnerInv, WinnerIsHighestBid
  <1> QED
    BY <1>1, WinnerInvCorrect, PTL

-----------------------------------------------------------------------------
(***************************************************************************)
(* The engine under the operating procedure implements EnglishAuction.     *)
(***************************************************************************)

LEMMA OrderlyIsNext == [OrderlyNext]_vars => [Next]_vars
  BY DEF OrderlyNext, OpeningCall, Next, AdminCall, AuctionStatuses

LEMMA OrderlyIsSpec == OrderlySpec => Spec
  BY OrderlyIsNext, PTL DEF OrderlySpec, Spec

-----------------------------------------------------------------------------
(***************************************************************************)
(* The opening.  Nothing but the calls that open an auction touches its    *)
(* row before it is live, so what they read is what they write back, but   *)
(* for the status.                                                         *)
(***************************************************************************)

Opened == {"live", "ending", "ended"}

OpeningStep == {<<"draft", "scheduled">>, <<"scheduled", "live">>}

Opening ==
    /\ row.status \in {"draft", "scheduled"} \cup Opened
    /\ \A a \in Admins :
          call[a] # "idle" =>
             /\ \A b \in Admins : call[b] # "idle" => b = a
             /\ call[a] \in {"saving", "writing"}
             /\ <<row.status, entity[a].status>> \in OpeningStep
             /\ entity[a] = [row EXCEPT !.status = entity[a].status]
             /\ call[a] = "writing" => dirty[a] = {"status"}

OrderlyInv == TypeOK /\ LoadedRowIsCurrent /\ WinnerInv /\ Opening

LEMMA StatusIsDirty ==
    ASSUME NEW r \in Row, NEW status, status # r.status
    PROVE  DirtyColumns(r, [r EXCEPT !.status = status]) = {"status"}
  BY DEF DirtyColumns, Columns, Row

LEMMA StatusOverwrites ==
    ASSUME NEW r \in Row, NEW e \in Row
    PROVE  Overwrite(r, e, {"status"}) = [r EXCEPT !.status = e.status]
  BY DEF Overwrite, Row

\* What a step does to the row, and who takes it.
LEMMA RowSteps ==
    ASSUME OrderlyInv, [OrderlyNext]_vars
    PROVE  \/ UNCHANGED <<row, bids>>
           \/ /\ \E a \in Admins :
                    /\ call[a] = "writing"
                    /\ <<row.status, entity[a].status>> \in OpeningStep
                    /\ row' = [row EXCEPT !.status = entity[a].status]
              /\ UNCHANGED bids
           \/ \E h \in Handlers : AcceptBid(h)
           \/ /\ row.status = "live"
              /\ row' = [row EXCEPT !.status = "ending"]
              /\ UNCHANGED bids
           \/ \E w \in Workers : row.status = "ending" /\ EndingToEnded(w)
  <1>1. ASSUME NEW h \in Handlers, BidCall(h), ~AcceptBid(h)
        PROVE  UNCHANGED <<row, bids>>
    BY <1>1 DEF BidCall, GatewayBid, RestBid, Arrive, AcquireBidLock, RefuseBid,
                BeginTx, LockRow, RejectBid, AbortTx, ReleaseBidLock, CrashBid,
                rowVars
  <1>2. ASSUME NEW w \in Workers, LiveToEnding(w)
        PROVE  /\ UNCHANGED bids
               /\ \/ UNCHANGED row
                  \/ /\ row.status = "live"
                     /\ row' = [row EXCEPT !.status = "ending"]
    BY <1>2 DEF LiveToEnding
  <1>3. ASSUME NEW w \in Workers, EndingToEnded(w), row.status # "ending"
        PROVE  UNCHANGED <<row, bids>>
    BY <1>3 DEF EndingToEnded
  <1>4. ASSUME NEW w \in Workers, EndingWorker(w),
               ~LiveToEnding(w), ~EndingToEnded(w)
        PROVE  UNCHANGED <<row, bids>>
    BY <1>4 DEF EndingWorker, Select, AcquireWorkerLock, SkipAuction,
                WorkerFails, ReleaseWorkerLock, CrashWorker, rowVars
  <1>5. ASSUME NEW a \in Admins, WriteEntity(a)
        PROVE  \/ UNCHANGED <<row, bids>>
               \/ /\ call[a] = "writing"
                  /\ <<row.status, entity[a].status>> \in OpeningStep
                  /\ row' = [row EXCEPT !.status = entity[a].status]
                  /\ UNCHANGED bids
    <2>1. call[a] = "writing" /\ dirty[a] = {"status"} /\ UNCHANGED bids
      BY <1>5 DEF WriteEntity, OrderlyInv, Opening
    <2>2. row' \in {row, Overwrite(row, entity[a], {"status"})}
      BY <1>5, <2>1 DEF WriteEntity
    <2>3. row \in Row /\ entity[a] \in Row
      BY DEF OrderlyInv, TypeOK
    <2>4. row' \in {row, [row EXCEPT !.status = entity[a].status]}
      BY <2>2, <2>3, StatusOverwrites
    <2> QED
      BY <2>1, <2>4 DEF OrderlyInv, Opening
  <1>6. ASSUME NEW a \in Admins, OpeningCall(a), ~WriteEntity(a)
        PROVE  UNCHANGED <<row, bids>>
    BY <1>6 DEF OpeningCall, Save, ReadForStatus, CompareEntity, rowVars
  <1>7. CASE Environment \/ UNCHANGED vars
    BY <1>7 DEF Environment, Tick, BidLockExpires, WorkerLockExpires, Enrol,
                AcceptConsent, rowVars, vars
  <1> QED
    BY <1>1, <1>2, <1>3, <1>4, <1>5, <1>6, <1>7 DEF OrderlyNext, Engine

LEMMA OpeningCallsKept ==
    ASSUME OrderlyInv, NEW a \in Admins, OpeningCall(a)
    PROVE  Opening'
  <1>1. row \in Row /\ entity \in [Admins -> Row] /\ call \in [Admins -> {"idle", "saving", "writing", "extending"}]
        /\ dirty \in [Admins -> SUBSET Columns]
    BY DEF OrderlyInv, TypeOK
  <1>2. ASSUME \A b \in Admins : call[b] = "idle",
               NEW to \in {"scheduled", "live"}, ReadForStatus(a, to)
        PROVE  Opening'
    <2>1. /\ row' = row
          /\ call' = [call EXCEPT ![a] = "saving"]
          /\ entity'[a] = [row EXCEPT !.status = to]
      BY <1>1, <1>2 DEF ReadForStatus, rowVars
    <2>2. <<row.status, to>> \in OpeningStep
      BY <1>2 DEF ReadForStatus, AdminTransitions, OpeningStep
    <2>3. entity'[a].status = to
      BY <1>1, <2>1 DEF Row
    <2>4. \A b \in Admins : call'[b] # "idle" => b = a /\ call'[b] = "saving"
      BY <1>1, <1>2, <2>1
    <2>5. /\ entity'[a] = [row' EXCEPT !.status = entity'[a].status]
          /\ <<row'.status, entity'[a].status>> \in OpeningStep
      BY <2>1, <2>2, <2>3
    <2>6. row'.status \in {"draft", "scheduled"} \cup Opened
      BY <2>1 DEF OrderlyInv, Opening
    <2> QED
      BY <2>4, <2>5, <2>6 DEF Opening
  <1>3. CASE CompareEntity(a)
    <2>1. /\ UNCHANGED <<row, entity>>
          /\ call[a] = "saving"
          /\ call' = [call EXCEPT ![a] = "writing"]
          /\ dirty'[a] = DirtyColumns(row, entity[a])
      BY <1>1, <1>3 DEF CompareEntity, rowVars
    <2>2. /\ entity[a] = [row EXCEPT !.status = entity[a].status]
          /\ entity[a].status # row.status
      BY <2>1 DEF OrderlyInv, Opening, OpeningStep
    <2>3. dirty'[a] = {"status"}
      <3>1. PICK s : s # row.status /\ entity[a] = [row EXCEPT !.status = s]
        BY <2>2
      <3>2. DirtyColumns(row, [row EXCEPT !.status = s]) = {"status"}
        BY <1>1, <3>1, StatusIsDirty
      <3> QED
        BY <2>1, <3>1, <3>2
    <2>4. \A b \in Admins : call[b] # "idle" => b = a
      BY <2>1 DEF OrderlyInv, Opening
    <2> QED
      BY <1>1, <2>1, <2>3, <2>4 DEF OrderlyInv, Opening
  <1>4. CASE WriteEntity(a)
    <2>1. /\ call[a] = "writing"
          /\ call' = [call EXCEPT ![a] = "idle"]
      BY <1>4 DEF WriteEntity, Finish
    <2>2. \A b \in Admins : call'[b] = "idle"
      BY <1>1, <2>1 DEF OrderlyInv, Opening
    <2>3. dirty[a] = {"status"} /\ <<row.status, entity[a].status>> \in OpeningStep
      BY <2>1 DEF OrderlyInv, Opening
    <2>4. row' \in {row, [row EXCEPT !.status = entity[a].status]}
      BY <1>1, <1>4, <2>3, StatusOverwrites DEF WriteEntity
    <2>5. row'.status \in {row.status, entity[a].status}
      BY <1>1, <2>4 DEF Row
    <2>6. row'.status \in {"draft", "scheduled"} \cup Opened
      BY <2>3, <2>5 DEF OrderlyInv, Opening, OpeningStep, Opened
    <2> QED
      BY <2>2, <2>6 DEF Opening
  <1> QED
    BY <1>2, <1>3, <1>4 DEF OpeningCall, Save

LEMMA OpeningKept ==
    ASSUME OrderlyInv, [OrderlyNext]_vars
    PROVE  Opening'
  <1>1. CASE UNCHANGED <<row, call, entity, dirty>>
    BY <1>1 DEF OrderlyInv, Opening
  <1>2. ASSUME UNCHANGED <<call, entity, dirty>>, row.status \in Opened,
               row'.status \in Opened
        PROVE  Opening'
    <2>1. \A a \in Admins : call[a] = "idle"
      BY <1>2 DEF OrderlyInv, Opening, OpeningStep, Opened
    <2> QED
      BY <1>2, <2>1 DEF Opening
  <1>3. ASSUME NEW h \in Handlers, BidCall(h)
        PROVE  Opening'
    <2>1. UNCHANGED <<call, entity, dirty>>
      BY <1>3 DEF BidCall, GatewayBid, RestBid, Arrive, AcquireBidLock,
                  RefuseBid, BeginTx, LockRow, RejectBid, AcceptBid, AbortTx,
                  ReleaseBidLock, CrashBid, adminVars
    <2>2. CASE AcceptBid(h)
      <3>1. row.status = "live" /\ row' = WithBid(h) /\ loaded[h] = row
            /\ row \in Row
        BY <2>2 DEF AcceptBid, InsertAccepts, Go, OrderlyInv,
                    LoadedRowIsCurrent, TypeOK
      <3>2. row'.status = "live"
        BY <3>1 DEF WithBid, Row
      <3> QED
        BY <1>2, <2>1, <3>1, <3>2 DEF Opened
    <2>3. CASE ~AcceptBid(h)
      <3>1. UNCHANGED row
        BY <1>3, <2>3 DEF BidCall, GatewayBid, RestBid, Arrive, AcquireBidLock,
                          RefuseBid, BeginTx, LockRow, RejectBid, AbortTx,
                          ReleaseBidLock, CrashBid, rowVars
      <3> QED
        BY <1>1, <2>1, <3>1
    <2> QED
      BY <2>2, <2>3
  <1>4. ASSUME NEW w \in Workers, EndingWorker(w)
        PROVE  Opening'
    <2>1. UNCHANGED <<call, entity, dirty>>
      BY <1>4 DEF EndingWorker, Select, AcquireWorkerLock, SkipAuction,
                  LiveToEnding, EndingToEnded, WorkerFails, ReleaseWorkerLock,
                  CrashWorker, adminVars
    <2>2. CASE UNCHANGED row
      BY <1>1, <2>1, <2>2
    <2>3. CASE row' # row
      <3>1. \/ /\ row.status = "live"
               /\ row' = [row EXCEPT !.status = "ending"]
            \/ /\ row.status = "ending"
               /\ \E b : row' = [row EXCEPT !.status = "ended", !.winner = b]
        BY <1>4, <2>3 DEF EndingWorker, Select, AcquireWorkerLock, SkipAuction,
                          LiveToEnding, EndingToEnded, WorkerFails,
                          ReleaseWorkerLock, CrashWorker, rowVars
      <3>2. row'.status \in Opened /\ row.status \in Opened
        BY <3>1 DEF OrderlyInv, TypeOK, Row, Opened
      <3> QED
        BY <1>2, <2>1, <3>2
    <2> QED
      BY <2>2, <2>3
  <1>5. CASE Environment \/ UNCHANGED vars
    BY <1>1, <1>5 DEF Environment, Tick, BidLockExpires, WorkerLockExpires,
                      Enrol, AcceptConsent, rowVars, adminVars, vars
  <1> QED
    BY <1>3, <1>4, <1>5, OpeningCallsKept DEF OrderlyNext, Engine

LEMMA OrderlyInvCorrect == OrderlySpec => []OrderlyInv
  <1>1. Init => Opening
    BY DEF Init, Opening, InitialRow
  <1>2. OrderlyInv <=> TypeOK /\ LoadedRowIsCurrent /\ WinnerInv /\ Opening
    BY DEF OrderlyInv
  <1> QED
    BY <1>1, <1>2, OpeningKept, OrderlyIsSpec, TypeCorrect, LoadedRowCorrect,
       WinnerInvCorrect, PTL DEF OrderlySpec

-----------------------------------------------------------------------------
(***************************************************************************)
(* The price and the count.  A bid is measured against the price of the    *)
(* row it locked, so it beats every earlier bid, and one that prolongs the *)
(* auction is saved with its price and its count.                          *)
(***************************************************************************)

LEMMA WithBidSaves ==
    ASSUME OrderlyInv, NEW h \in Handlers, AcceptBid(h)
    PROVE  /\ request[h] \in Request
           /\ row'.status = row.status
           /\ row'.winner = row.winner
           /\ row'.price = request[h].amount
           /\ row'.bidCount = row.bidCount + 1
           /\ row.price + MinIncrement <= request[h].amount
           /\ \A b \in bids : b.key # request[h].key
           /\ bids' = bids \cup {[key |-> request[h].key,
                                  amount |-> request[h].amount]}
  <1>1. /\ row \in Row
        /\ loaded[h] = row
        /\ row' = WithBid(h)
        /\ request[h] \in Request
        /\ bids' = bids \cup {[key |-> request[h].key,
                               amount |-> request[h].amount]}
    BY DEF AcceptBid, Go, OrderlyInv, LoadedRowIsCurrent, TypeOK
  <1> DEFINE counted == [row EXCEPT !.price = request[h].amount,
                                    !.bidCount = @ + 1]
  <1>2. /\ counted.status = row.status
        /\ counted.winner = row.winner
        /\ counted.price = request[h].amount
        /\ counted.bidCount = row.bidCount + 1
        /\ DOMAIN counted = DOMAIN row
    BY <1>1 DEF Row
  <1>3. \/ row' = counted
        \/ row' = [counted EXCEPT !.end = txNow[h] + SniperExtension,
                                  !.extensions = @ + 1]
    BY <1>1 DEF WithBid
  <1>4. /\ row'.status = row.status
        /\ row'.winner = row.winner
        /\ row'.price = request[h].amount
        /\ row'.bidCount = row.bidCount + 1
    <2> HIDE DEF counted
    <2> QED
      BY <1>1, <1>2, <1>3 DEF Row
  <1>5. /\ row.price \in Nat
        /\ request[h].amount \in Nat
        /\ request[h].amount >= row.price + MinIncrement
        /\ ~Accepted(request[h].key)
    BY <1>1, PricesAssumption DEF AcceptBid, InsertAccepts, Row, Request
  <1>6. row.price + MinIncrement <= request[h].amount
    BY <1>5, PricesAssumption
  <1> QED
    BY <1>1, <1>4, <1>5, <1>6 DEF Accepted

\* Of the other steps, none changes the price, the count or the bids.
LEMMA OtherStepsKeep ==
    ASSUME OrderlyInv, [OrderlyNext]_vars, \A h \in Handlers : ~AcceptBid(h)
    PROVE  /\ bids' = bids
           /\ row'.price = row.price
           /\ row'.bidCount = row.bidCount
  <1>1. row \in Row
    BY DEF OrderlyInv, TypeOK
  <1>2. ASSUME NEW w \in Workers, row.status = "ending", EndingToEnded(w)
        PROVE  /\ bids' = bids
               /\ \E b : row' = [row EXCEPT !.status = "ended", !.winner = b]
    BY <1>2 DEF EndingToEnded
  <1> QED
    BY <1>1, <1>2, RowSteps DEF Row

PriceInv == PriceIsHighestBid /\ StartPrice <= row.price

LEMMA PriceKept ==
    ASSUME OrderlyInv, PriceInv, [OrderlyNext]_vars
    PROVE  PriceInv'
  <1>1. ASSUME NEW h \in Handlers, AcceptBid(h)
        PROVE  PriceInv'
    <2>0. PICK bid : bid = [key |-> request[h].key, amount |-> request[h].amount]
      OBVIOUS
    <2>1. /\ row'.price = bid.amount
          /\ row.price + MinIncrement <= bid.amount
          /\ bids' = bids \cup {bid}
          /\ bid.amount \in Nat
      BY <1>1, <2>0, WithBidSaves, PricesAssumption DEF Request
    <2>2. /\ row.price \in Nat
          /\ \A b \in bids : b.amount \in Nat
      BY PricesAssumption DEF OrderlyInv, TypeOK, Row, Bid
    <2>3. \A b \in bids : b.amount <= row.price
      BY DEF PriceInv, PriceIsHighestBid, Highest
    <2>4. \A b \in bids' : b.amount <= bid.amount
      BY <2>1, <2>2, <2>3, PricesAssumption
    <2>5. bid \in bids' /\ Highest(bid)' /\ bids' # {}
      BY <2>1, <2>4 DEF Highest
    <2>6. StartPrice <= row'.price
      BY <2>1, <2>2, PricesAssumption DEF PriceInv
    <2> QED
      BY <2>1, <2>5, <2>6 DEF PriceInv, PriceIsHighestBid
  <1>2. CASE \A h \in Handlers : ~AcceptBid(h)
    BY <1>2, OtherStepsKeep DEF PriceInv, PriceIsHighestBid, Highest
  <1> QED
    BY <1>1, <1>2

LEMMA PriceInvCorrect == OrderlySpec => []PriceInv
  <1>1. Init => PriceInv
    BY PricesAssumption DEF Init, PriceInv, PriceIsHighestBid, InitialRow
  <1> QED
    BY <1>1, PriceKept, OrderlyInvCorrect, PTL DEF OrderlySpec

\* The price the next bid is measured against is the highest accepted bid, or
\* the starting price: no bid is lost, for any number of racing calls.
THEOREM PriceCorrect == OrderlySpec => []PriceIsHighestBid
  <1>1. PriceInv => PriceIsHighestBid
    BY DEF PriceInv
  <1> QED
    BY <1>1, PriceInvCorrect, PTL

\* The current price never falls: what a bid writes beats what it locked, and
\* the calls that open an auction write its status alone.
THEOREM PriceRises == OrderlySpec => PriceNeverFalls
  <1>1. OrderlyInv /\ [OrderlyNext]_vars => [row'.price >= row.price]_vars
    <2> SUFFICES ASSUME OrderlyInv, [OrderlyNext]_vars
                 PROVE  row'.price >= row.price
      OBVIOUS
    <2>1. row.price \in Nat
      BY DEF OrderlyInv, TypeOK, Row
    <2>2. ASSUME NEW h \in Handlers, AcceptBid(h)
          PROVE  row'.price >= row.price
      <3>1. request[h].amount \in Nat
        BY <2>2, WithBidSaves, PricesAssumption DEF Request
      <3> QED
        BY <2>1, <2>2, <3>1, WithBidSaves, PricesAssumption
    <2>3. CASE \A h \in Handlers : ~AcceptBid(h)
      BY <2>1, <2>3, OtherStepsKeep
    <2> QED
      BY <2>2, <2>3
  <1> QED
    BY <1>1, OrderlyInvCorrect, PTL DEF OrderlySpec, PriceNeverFalls

CountInv == IsFiniteSet(bids) /\ CountsEveryBid

\* bid_count, which each call reads, increments and writes back, counts the
\* rows of the bids table: no increment is lost.
THEOREM CountCorrect == OrderlySpec => []CountsEveryBid
  <1>1. Init => CountInv
    BY FS_EmptySet DEF Init, CountInv, CountsEveryBid, InitialRow
  <1>2. OrderlyInv /\ CountInv /\ [OrderlyNext]_vars => CountInv'
    <2> SUFFICES ASSUME OrderlyInv, CountInv, [OrderlyNext]_vars
                 PROVE  CountInv'
      OBVIOUS
    <2>1. ASSUME NEW h \in Handlers, AcceptBid(h)
          PROVE  CountInv'
      <3> DEFINE bid == [key |-> request[h].key, amount |-> request[h].amount]
      <3>1. /\ bids' = bids \cup {bid}
            /\ row'.bidCount = row.bidCount + 1
            /\ \A b \in bids : b.key # bid.key
        BY <2>1, WithBidSaves
      <3> HIDE DEF bid
      <3>2. /\ IsFiniteSet(bids')
            /\ Cardinality(bids') = Cardinality(bids) + 1
        BY <3>1, FS_AddElement DEF CountInv
      <3> QED
        BY <3>1, <3>2 DEF CountInv, CountsEveryBid
    <2>2. CASE \A h \in Handlers : ~AcceptBid(h)
      BY <2>2, OtherStepsKeep DEF CountInv, CountsEveryBid
    <2> QED
      BY <2>1, <2>2
  <1>3. CountInv => CountsEveryBid
    BY DEF CountInv
  <1> QED
    BY <1>1, <1>2, <1>3, OrderlyInvCorrect, PTL DEF OrderlySpec

-----------------------------------------------------------------------------
(***************************************************************************)
(* The simulation: of the steps, only those that change the row are steps  *)
(* of the promise.                                                         *)
(***************************************************************************)

LEMMA OrderlyStep ==
    ASSUME OrderlyInv, PriceInv, [OrderlyNext]_vars
    PROVE  [Promise!Next]_(Promise!vars)
  <1>1. row \in Row /\ bids \subseteq Bid
    BY DEF OrderlyInv, TypeOK
  <1>2. row.status \notin Past => row.winner = None
    BY DEF OrderlyInv, WinnerInv
  <1>3. CASE UNCHANGED <<row, bids>>
    BY <1>3 DEF Promise!vars, Stage
  <1>4. ASSUME NEW a \in Admins,
               <<row.status, entity[a].status>> \in OpeningStep,
               row' = [row EXCEPT !.status = entity[a].status],
               bids' = bids
        PROVE  [Promise!Next]_(Promise!vars)
    <2>1. row'.status = entity[a].status /\ row'.winner = row.winner
      BY <1>1, <1>4 DEF Row
    <2>2. CASE row.status = "draft" /\ row'.status = "scheduled"
      BY <1>4, <2>1, <2>2 DEF Promise!vars, Stage
    <2>3. CASE row.status = "scheduled" /\ row'.status = "live"
      BY <1>4, <2>1, <2>3 DEF Promise!Next, Promise!Open, Stage
    <2> QED
      BY <1>4, <2>1, <2>2, <2>3 DEF OpeningStep
  <1>5. ASSUME NEW h \in Handlers, AcceptBid(h)
        PROVE  [Promise!Next]_(Promise!vars)
    <2> DEFINE k == request[h].key
               amount == request[h].amount
    <2>1. /\ k \in Keys /\ amount \in Prices
          /\ UNCHANGED Stage /\ UNCHANGED row.winner
          /\ bids' = bids \cup {[key |-> k, amount |-> amount]}
          /\ \A b \in bids : b.key # k
      BY <1>5, WithBidSaves DEF Stage, Request
    <2>2. Stage = "open"
      BY <1>5 DEF AcceptBid, InsertAccepts, Stage
    <2>3. /\ amount >= StartPrice + MinIncrement
          /\ \A b \in bids : amount >= b.amount + MinIncrement
      <3>1. /\ row.price + MinIncrement <= amount
            /\ amount \in Nat /\ row.price \in Nat
            /\ \A b \in bids : b.amount \in Nat
        BY <1>1, <1>5, WithBidSaves, PricesAssumption DEF Row, Request, Bid
      <3>2. StartPrice <= row.price /\ \A b \in bids : b.amount <= row.price
        BY DEF PriceInv, PriceIsHighestBid, Highest
      <3> QED
        BY <3>1, <3>2, PricesAssumption
    <2> HIDE DEF k, amount
    <2> QED
      BY <2>1, <2>2, <2>3 DEF Promise!Next, Promise!Accept
  <1>6. ASSUME row.status = "live", row' = [row EXCEPT !.status = "ending"],
               bids' = bids
        PROVE  [Promise!Next]_(Promise!vars)
    <2>1. row'.status = "ending" /\ row'.winner = row.winner
      BY <1>1, <1>6 DEF Row
    <2> QED
      BY <1>6, <2>1 DEF Promise!Next, Promise!Close, Stage
  <1>7. ASSUME NEW w \in Workers, row.status = "ending", EndingToEnded(w)
        PROVE  [Promise!Next]_(Promise!vars)
    <2>1. row.winner = None /\ bids' = bids
      BY <1>2, <1>7 DEF Past, EndingToEnded
    <2>2. PICK b \in bids \cup {None} :
            /\ IF bids = {} THEN b = None ELSE Highest(b)
            /\ row' = [row EXCEPT !.status = "ended",
                                  !.winner = IF b = None THEN @ ELSE b]
      BY <1>7 DEF EndingToEnded
    <2>3. row'.status = "ended" /\ row'.winner = b
      BY <1>1, <2>1, <2>2 DEF Row
    <2>4. Stage = "closed" /\ Stage' = "decided"
      BY <1>7, <2>3 DEF Stage
    <2>5. bids # {} => b \in bids /\ Promise!Highest(b)
      BY <2>2 DEF Highest, Promise!Highest
    <2> QED
      BY <2>1, <2>2, <2>3, <2>4, <2>5 DEF Promise!Next, Promise!Decide
  <1> QED
    BY <1>3, <1>4, <1>5, <1>6, <1>7, RowSteps

\* Run by the operating procedure, the auction keeps the promise of
\* EnglishAuction: every racing step raises the highest bid, closes or decides
\* the auction as promised, or changes nothing a bidder sees.
THEOREM AuctionKept == OrderlySpec => ImplementsEnglishAuction
  <1>1. Init => Promise!Init
    BY DEF Init, InitialRow, Promise!Init, Stage
  <1> QED
    BY <1>1, OrderlyStep, OrderlyInvCorrect, PriceInvCorrect, PTL
       DEF OrderlySpec, ImplementsEnglishAuction, Promise!Spec

-----------------------------------------------------------------------------
(***************************************************************************)
(* When an auction closes, and what is announced when it does, for every   *)
(* number of racing calls, workers and crashes.                            *)
(***************************************************************************)

\* A worker closes a live auction: it writes the event with the status, and its
\* clock has reached the end the row has.
Closing(w) ==
    /\ LiveToEnding(w)
    /\ row.status = "live"
    /\ \E clock \in (now - AppClockSkew)..(now + AppClockSkew) : row.end <= clock
    /\ row' = [row EXCEPT !.status = "ending"]
    /\ outbox' = outbox \cup {<<"AUCTION_ENDING", None>>}

LEMMA OutboxGrows ==
    ASSUME [OrderlyNext]_vars
    PROVE  outbox \subseteq outbox'
  <1>1. ASSUME NEW h \in Handlers, BidCall(h)
        PROVE  outbox \subseteq outbox'
    BY <1>1 DEF BidCall, GatewayBid, RestBid, Arrive, AcquireBidLock, RefuseBid,
                BeginTx, LockRow, RejectBid, AcceptBid, AbortTx, ReleaseBidLock,
                CrashBid, rowVars
  <1>2. ASSUME NEW w \in Workers, EndingWorker(w)
        PROVE  outbox \subseteq outbox'
    BY <1>2 DEF EndingWorker, Select, AcquireWorkerLock, SkipAuction,
                LiveToEnding, EndingToEnded, WorkerFails, ReleaseWorkerLock,
                CrashWorker, rowVars
  <1>3. ASSUME NEW a \in Admins, OpeningCall(a)
        PROVE  outbox \subseteq outbox'
    BY <1>3 DEF OpeningCall, Save, ReadForStatus, CompareEntity, WriteEntity,
                rowVars
  <1>4. CASE Environment \/ UNCHANGED vars
    BY <1>4 DEF Environment, Tick, BidLockExpires, WorkerLockExpires, Enrol,
                AcceptConsent, rowVars, vars
  <1> QED
    BY <1>1, <1>2, <1>3, <1>4 DEF OrderlyNext, Engine

\* Only a worker closes an auction, and only a worker decides it.
LEMMA EndingSteps ==
    ASSUME OrderlyInv, [OrderlyNext]_vars
    PROVE  \/ row'.status = row.status
           \/ row'.status \in {"scheduled", "live"} /\ row.status # "live"
           \/ \E w \in Workers : Closing(w) /\ row'.status = "ending"
           \/ /\ row.status = "ending" /\ row'.status = "ended"
              /\ <<"AUCTION_ENDED", None>> \in outbox'
  <1>0. row \in Row
    BY DEF OrderlyInv, TypeOK
  <1> DEFINE Goal == \/ row'.status = row.status
                     \/ row'.status \in {"scheduled", "live"} /\ row.status # "live"
                     \/ \E w \in Workers : Closing(w) /\ row'.status = "ending"
                     \/ /\ row.status = "ending" /\ row'.status = "ended"
                        /\ <<"AUCTION_ENDED", None>> \in outbox'
  <1>1. CASE UNCHANGED row
    BY <1>1
  <1>2. ASSUME NEW h \in Handlers, BidCall(h) PROVE Goal
    <2>1. CASE AcceptBid(h)
      BY <2>1, WithBidSaves
    <2>2. CASE ~AcceptBid(h)
      BY <1>1, <1>2, <2>2 DEF BidCall, GatewayBid, RestBid, Arrive,
         AcquireBidLock, RefuseBid, BeginTx, LockRow, RejectBid, AbortTx,
         ReleaseBidLock, CrashBid, rowVars
    <2> QED
      BY <2>1, <2>2
  <1>3. ASSUME NEW w \in Workers, LiveToEnding(w) PROVE Goal
    <2>1. UNCHANGED row \/ Closing(w)
      BY <1>3 DEF LiveToEnding, Closing
    <2>2. Closing(w) => row'.status = "ending"
      BY <1>0 DEF Closing, Row
    <2> QED
      BY <1>1, <2>1, <2>2
  <1>4. ASSUME NEW w \in Workers, EndingToEnded(w) PROVE Goal
    <2>1. \/ UNCHANGED row
          \/ /\ row.status = "ending"
             /\ \E b : row' = [row EXCEPT !.status = "ended", !.winner = b]
             /\ outbox' = outbox \cup {<<"AUCTION_ENDED", None>>}
      BY <1>4 DEF EndingToEnded
    <2>2. UNCHANGED row \/ row'.status = "ended"
      BY <1>0, <2>1 DEF Row
    <2> QED
      BY <1>1, <2>1, <2>2
  <1>5. ASSUME NEW w \in Workers, EndingWorker(w), ~LiveToEnding(w), ~EndingToEnded(w)
        PROVE  Goal
    BY <1>1, <1>5 DEF EndingWorker, Select, AcquireWorkerLock, SkipAuction,
                WorkerFails, ReleaseWorkerLock, CrashWorker, rowVars
  <1>6. ASSUME NEW a \in Admins, WriteEntity(a) PROVE Goal
    <2>1. call[a] = "writing" /\ dirty[a] = {"status"}
          /\ <<row.status, entity[a].status>> \in OpeningStep
      BY <1>6 DEF WriteEntity, OrderlyInv, Opening
    <2>2. row \in Row /\ entity[a] \in Row
      BY DEF OrderlyInv, TypeOK
    <2>3. row' \in {row, [row EXCEPT !.status = entity[a].status]}
      BY <1>6, <2>1, <2>2, StatusOverwrites DEF WriteEntity
    <2>4. row'.status \in {row.status, entity[a].status}
      BY <2>2, <2>3 DEF Row
    <2> QED
      BY <2>1, <2>4 DEF OpeningStep
  <1>7. ASSUME NEW a \in Admins, OpeningCall(a), ~WriteEntity(a) PROVE Goal
    BY <1>1, <1>7 DEF OpeningCall, Save, ReadForStatus, CompareEntity, rowVars
  <1>8. CASE Environment \/ UNCHANGED vars
    BY <1>1, <1>8 DEF Environment, Tick, BidLockExpires, WorkerLockExpires, Enrol,
                AcceptConsent, rowVars, vars
  <1> QED
    BY <1>2, <1>3, <1>4, <1>5, <1>6, <1>7, <1>8 DEF OrderlyNext, Engine

\* Every auction a worker closed has its ending event in the outbox, and every
\* ended one its ended event as well, however often a worker dies between its
\* two transactions.
THEOREM AnnouncedCorrect == OrderlySpec => []EndingIsAnnounced
  <1>1. Init => EndingIsAnnounced
    BY DEF Init, InitialRow, EndingIsAnnounced
  <1>2. OrderlyInv /\ EndingIsAnnounced /\ [OrderlyNext]_vars => EndingIsAnnounced'
    <2> SUFFICES ASSUME OrderlyInv, EndingIsAnnounced, [OrderlyNext]_vars
                 PROVE  EndingIsAnnounced'
      OBVIOUS
    <2>1. outbox \subseteq outbox'
      BY OutboxGrows
    <2>2. CASE row'.status = row.status \/ row'.status \in {"scheduled", "live"}
      BY <2>1, <2>2 DEF EndingIsAnnounced
    <2>3. CASE \E w \in Workers : Closing(w) /\ row'.status = "ending"
      BY <2>3 DEF EndingIsAnnounced, Closing
    <2>4. CASE /\ row.status = "ending" /\ row'.status = "ended"
               /\ <<"AUCTION_ENDED", None>> \in outbox'
      BY <2>1, <2>4 DEF EndingIsAnnounced
    <2> QED
      BY <2>2, <2>3, <2>4, EndingSteps
  <1> QED
    BY <1>1, <1>2, OrderlyInvCorrect, PTL DEF OrderlySpec

\* While the replicas' clocks agree with the database's, no worker closes an
\* auction before the end its row has at that moment: a bid that extended it
\* after the worker's query is respected.
THEOREM EndRespected ==
    ASSUME AppClockSkew = 0
    PROVE  OrderlySpec => NeverClosedEarly
  <1>1. OrderlyInv /\ [OrderlyNext]_vars
        => [row.status = "live" /\ row'.status = "ending" => now >= row.end]_vars
    <2> SUFFICES ASSUME OrderlyInv, [OrderlyNext]_vars,
                        row.status = "live", row'.status = "ending"
                 PROVE  now >= row.end
      OBVIOUS
    <2>1. PICK w \in Workers : Closing(w)
      BY EndingSteps
    <2>2. now \in Nat /\ row.end \in Nat
      BY DEF OrderlyInv, TypeOK, Row
    <2>3. PICK clock \in (now - 0)..(now + 0) : row.end <= clock
      BY <2>1 DEF Closing
    <2> QED
      BY <2>2, <2>3
  <1> QED
    BY <1>1, OrderlyInvCorrect, PTL DEF OrderlySpec, NeverClosedEarly

-----------------------------------------------------------------------------
(* Prolongation. *)

LEMMA AddOneExtension ==
    ASSUME NEW n \in Nat, NEW s \in Nat
    PROVE  (n + 1) * s = n * s + s
  OBVIOUS

\* A sniping bid came before the end it moves, so it adds at most one extension
\* to it: all of them together at most the configured allowance.
THEOREM ProlongationCorrect == OrderlySpec => []ProlongationIsBounded
  <1>1. Init => ProlongationIsBounded
    BY ClockAssumption DEF Init, InitialRow, ProlongationIsBounded
  <1>2. OrderlyInv /\ ProlongationIsBounded /\ [OrderlyNext]_vars
        => ProlongationIsBounded'
    <2> SUFFICES ASSUME OrderlyInv, ProlongationIsBounded, [OrderlyNext]_vars
                 PROVE  ProlongationIsBounded'
      OBVIOUS
    <2>1. row \in Row
      BY DEF OrderlyInv, TypeOK
    <2>2. CASE row'.end = row.end /\ row'.extensions = row.extensions
      BY <2>2 DEF ProlongationIsBounded
    <2>3. ASSUME NEW h \in Handlers, AcceptBid(h)
          PROVE  ProlongationIsBounded'
      <3>1. /\ loaded[h] = row /\ row' = WithBid(h)
            /\ txNow[h] \in Nat
        BY <2>3 DEF AcceptBid, Go, OrderlyInv, LoadedRowIsCurrent, TypeOK
      <3>2. CASE ~Sniping(h)
        <4>1. row' = [row EXCEPT !.price = request[h].amount, !.bidCount = @ + 1]
          BY <3>1, <3>2 DEF WithBid
        <4> QED
          BY <2>1, <2>2, <4>1 DEF Row
      <3>3. CASE Sniping(h)
        <4>1. /\ row.extensions < MaxExtensions
              /\ row.end - txNow[h] \in 1..SniperWindow
          BY <3>1, <3>3 DEF Sniping
        <4>2. /\ row'.end = txNow[h] + SniperExtension
              /\ row'.extensions = row.extensions + 1
          <5>1. row' = [[row EXCEPT !.price = request[h].amount, !.bidCount = @ + 1]
                          EXCEPT !.end = txNow[h] + SniperExtension,
                                 !.extensions = @ + 1]
            BY <3>1, <3>3 DEF WithBid
          <5> QED
            BY <2>1, <5>1 DEF Row
        <4>3. row.end \in Nat /\ row.extensions \in Nat
          BY <2>1 DEF Row
        <4>4. txNow[h] <= row.end
          BY <3>1, <4>1, <4>3
        <4>5. row'.extensions * SniperExtension
                = row.extensions * SniperExtension + SniperExtension
          BY <4>2, <4>3, AddOneExtension, ClockAssumption
        <4>6. row.extensions * SniperExtension \in Nat
          BY <4>3, ClockAssumption
        <4>7. row'.end <= ScheduledEnd + row'.extensions * SniperExtension
          BY <3>1, <4>2, <4>3, <4>4, <4>5, <4>6, ClockAssumption
             DEF ProlongationIsBounded
        <4>8. row'.extensions <= MaxExtensions
          BY <4>1, <4>2, <4>3, ClockAssumption
        <4> QED
          BY <4>7, <4>8 DEF ProlongationIsBounded
      <3> QED
        BY <3>2, <3>3
    <2>4. ASSUME NEW a \in Admins, row' = [row EXCEPT !.status = entity[a].status]
          PROVE  ProlongationIsBounded'
      BY <2>1, <2>2, <2>4 DEF Row
    <2>5. CASE row' = [row EXCEPT !.status = "ending"]
      BY <2>1, <2>2, <2>5 DEF Row
    <2>6. ASSUME NEW w \in Workers, row.status = "ending", EndingToEnded(w)
          PROVE  ProlongationIsBounded'
      <3>1. \E b : row' = [row EXCEPT !.status = "ended", !.winner = b]
        BY <2>6 DEF EndingToEnded
      <3> QED
        BY <2>1, <2>2, <3>1 DEF Row
    <2> QED
      BY <2>2, <2>3, <2>4, <2>5, <2>6, RowSteps
  <1> QED
    BY <1>1, <1>2, OrderlyInvCorrect, PTL DEF OrderlySpec

=============================================================================
