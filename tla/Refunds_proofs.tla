--------------------------- MODULE Refunds_proofs ---------------------------
(***************************************************************************)
(* Proofs about Refunds, for any refunds of any payments and any amounts:  *)
(* what a sum of refunds is, that refunding keeps all that is proved of    *)
(* the payments, and that it keeps to the amount that was paid.            *)
(***************************************************************************)
EXTENDS Refunds, Payments_proofs, FiniteSetTheorems

-----------------------------------------------------------------------------
(* Sums of refunds.  A sum over a finite set is a recursive function that   *)
(* the library chooses; what holds of it for every set is shown by a        *)
(* minimal counterexample, for the strict subsets of a finite set are       *)
(* well-founded.                                                            *)

\* The sum of the library takes the elements of a set in some order, this one first.
First(S) == CHOOSE x \in S : TRUE
\* f has the sums of the subsets of T.
Sums(f, T) ==
    f = [S \in SUBSET T |-> IF S = {} THEN 0 ELSE Cents[First(S)] + f[S \ {First(S)}]]

LEMMA FirstIsIn == ASSUME NEW S, S # {} PROVE First(S) \in S
  BY DEF First

LEMMA TotalIs == ASSUME NEW T PROVE Total(T) = (CHOOSE f : Sums(f, T))[T]
  BY DEF Total, MapThenSumSet, MapThenFoldSet, Sums, First

\* Sets of subsets of a finite set have minimal elements: a claim about every set
\* of refunds holds if it has no minimal counterexample.
LEMMA SmallestSet ==
    ASSUME NEW D, IsFiniteSet(D), NEW B, B \subseteq SUBSET D, B # {}
    PROVE  \E S \in B : \A T \in B : T \subseteq S => T = S
  <1>1. IsWellFoundedOn(StrictSubsetOrdering(D), SUBSET D)
    BY FS_StrictSubsetOrderingWellFounded, FS_FiniteSubsetsOfFinite
  <1>2. PICK S \in B : \A T \in B : <<T, S>> \notin StrictSubsetOrdering(D)
    BY <1>1, WFMin
  <1>3. \A T \in B : T \subseteq S => T = S
    BY <1>2 DEF StrictSubsetOrdering
  <1> QED
    BY <1>3

LEMMA SumsAt ==
    ASSUME NEW f, NEW T, Sums(f, T), NEW S \in SUBSET T
    PROVE  f[S] = IF S = {} THEN 0 ELSE Cents[First(S)] + f[S \ {First(S)}]
  <1> DEFINE F == [U \in SUBSET T |-> IF U = {} THEN 0 ELSE Cents[First(U)] + f[U \ {First(U)}]]
  <1>1. F[S] = IF S = {} THEN 0 ELSE Cents[First(S)] + f[S \ {First(S)}]
    OBVIOUS
  <1>2. f = F
    BY DEF Sums
  <1> HIDE DEF F
  <1> QED
    BY <1>1, <1>2

\* A sum is the same in whichever set it is taken.
LEMMA SumsAgree ==
    ASSUME NEW S, NEW T, NEW f, NEW g, Sums(f, S), Sums(g, T),
           NEW U \in SUBSET Refunds, U \subseteq S, U \subseteq T
    PROVE  f[U] = g[U]
  <1> DEFINE B == {V \in SUBSET U : f[V] # g[V]}
  <1> SUFFICES ASSUME B # {} PROVE FALSE
    OBVIOUS
  <1>1. B \subseteq SUBSET Refunds
    OBVIOUS
  <1>2. PICK V \in B : \A W \in B : W \subseteq V => W = V
    <2> HIDE DEF B
    <2> QED
      BY <1>1, SmallestSet, RefundsAssumption
  <1>3. V \in SUBSET S /\ V \in SUBSET T
    OBVIOUS
  <1>4. V # {}
    BY <1>3, SumsAt
  <1>5. f[V \ {First(V)}] = g[V \ {First(V)}]
    BY <1>2, <1>4, FirstIsIn
  <1> QED
    BY <1>3, <1>4, <1>5, SumsAt

LEMMA SumsExist == \A T \in SUBSET Refunds : \E f : Sums(f, T)
  <1> DEFINE B == {T \in SUBSET Refunds : ~ \E f : Sums(f, T)}
  <1> SUFFICES ASSUME B # {} PROVE FALSE
    OBVIOUS
  <1>1. PICK T \in B : \A U \in B : U \subseteq T => U = T
    <2>1. B \subseteq SUBSET Refunds
      OBVIOUS
    <2> HIDE DEF B
    <2> QED
      BY <2>1, SmallestSet, RefundsAssumption
  <1> DEFINE of(U) == CHOOSE f : Sums(f, U)
             rest(S) == S \ {First(S)}
             f == [S \in SUBSET T |-> IF S = {} THEN 0 ELSE Cents[First(S)] + of(rest(S))[rest(S)]]
  <1>2. \A U \in SUBSET T : U # T => Sums(of(U), U)
    BY <1>1
  <1>3. ASSUME NEW S \in SUBSET T, S # {} PROVE f[rest(S)] = of(rest(S))[rest(S)]
    <2> DEFINE R == rest(S)
    <2>1. R \in SUBSET T /\ R # T
      BY <1>3, FirstIsIn
    <2>2. Sums(of(R), R)
      BY <1>2, <2>1
    <2>3. CASE R = {}
      BY <2>1, <2>2, <2>3, SumsAt
    <2>4. CASE R # {}
      <3>1. rest(R) \in SUBSET R /\ rest(R) # R /\ rest(R) \in SUBSET T /\ rest(R) # T
        BY <2>1, <2>4, FirstIsIn
      <3>2. Sums(of(rest(R)), rest(R))
        BY <1>2, <3>1
      <3>3. of(R)[rest(R)] = of(rest(R))[rest(R)]
        BY <2>2, <3>1, <3>2, SumsAgree
      <3>4. of(R)[R] = Cents[First(R)] + of(R)[rest(R)]
        BY <2>2, <2>4, SumsAt
      <3>5. f[R] = Cents[First(R)] + of(rest(R))[rest(R)]
        BY <2>1, <2>4
      <3> QED
        BY <3>3, <3>4, <3>5
    <2> QED
      BY <2>3, <2>4
  <1>4. Sums(f, T)
    <2>1. ASSUME NEW S \in SUBSET T
          PROVE  f[S] = IF S = {} THEN 0 ELSE Cents[First(S)] + f[S \ {First(S)}]
      <3>1. CASE S = {}
        BY <3>1
      <3>2. CASE S # {}
        <4>1. f[S] = Cents[First(S)] + of(rest(S))[rest(S)]
          BY <3>2
        <4>2. f[rest(S)] = of(rest(S))[rest(S)]
          BY <1>3, <3>2
        <4> HIDE DEF f, of
        <4> QED
          BY <4>1, <4>2, <3>2
      <3> QED
        BY <3>1, <3>2
    <2>2. f = [S \in SUBSET T |-> IF S = {} THEN 0 ELSE Cents[First(S)] + f[S \ {First(S)}]]
      <3>1. f = [S \in SUBSET T |-> f[S]]
        OBVIOUS
      <3> QED
        BY <2>1, <3>1
    <2> HIDE DEF f
    <2> QED
      BY <2>2 DEF Sums
  <1> QED
    BY <1>4

\* What the library computes.
LEMMA TotalOfRest ==
    /\ Total({}) = 0
    /\ \A S \in SUBSET Refunds : S # {} => Total(S) = Cents[First(S)] + Total(S \ {First(S)})
  <1> DEFINE of(U) == CHOOSE f : Sums(f, U)
  <1>1. \A S \in SUBSET Refunds : Sums(of(S), S)
    BY SumsExist
  <1>2. \A S \in SUBSET Refunds : Total(S) = of(S)[S]
    BY TotalIs
  <1>3. Total({}) = 0
    BY <1>1, <1>2, SumsAt
  <1>4. ASSUME NEW S \in SUBSET Refunds, S # {}
        PROVE  Total(S) = Cents[First(S)] + Total(S \ {First(S)})
    <2> DEFINE R == S \ {First(S)}
    <2>1. of(S)[S] = Cents[First(S)] + of(S)[R]
      BY <1>1, <1>4, SumsAt
    <2>2. of(S)[R] = of(R)[R]
      <3>1. Sums(of(S), S) /\ Sums(of(R), R)
        BY <1>1
      <3> QED
        BY <3>1, SumsAgree
    <2> QED
      BY <1>2, <2>1, <2>2
  <1> QED
    BY <1>3, <1>4

LEMMA TotalType == \A S \in SUBSET Refunds : Total(S) \in Nat
  <1> DEFINE B == {S \in SUBSET Refunds : Total(S) \notin Nat}
  <1> SUFFICES ASSUME B # {} PROVE FALSE
    OBVIOUS
  <1>1. PICK S \in B : \A T \in B : T \subseteq S => T = S
    <2>1. B \subseteq SUBSET Refunds
      OBVIOUS
    <2> HIDE DEF B
    <2> QED
      BY <2>1, SmallestSet, RefundsAssumption
  <1>2. S # {}
    BY TotalOfRest
  <1>3. First(S) \in S
    BY <1>2, FirstIsIn
  <1>4. Total(S \ {First(S)}) \in Nat
    BY <1>1, <1>3
  <1>5. Cents[First(S)] \in Nat
    BY <1>3, RefundsAssumption
  <1> QED
    BY <1>2, <1>4, <1>5, TotalOfRest

\* The order in which the refunds are taken makes no difference.
LEMMA TotalWithout ==
    \A S \in SUBSET Refunds : \A x \in S : Total(S) = Cents[x] + Total(S \ {x})
  <1> DEFINE B == {S \in SUBSET Refunds : \E x \in S : Total(S) # Cents[x] + Total(S \ {x})}
  <1> SUFFICES ASSUME B # {} PROVE FALSE
    OBVIOUS
  <1>1. PICK S \in B : \A T \in B : T \subseteq S => T = S
    <2>1. B \subseteq SUBSET Refunds
      OBVIOUS
    <2> HIDE DEF B
    <2> QED
      BY <2>1, SmallestSet, RefundsAssumption
  <1>2. PICK x \in S : Total(S) # Cents[x] + Total(S \ {x})
    OBVIOUS
  <1> DEFINE y == First(S)
  <1>3. y \in S /\ Total(S) = Cents[y] + Total(S \ {y})
    BY FirstIsIn, TotalOfRest
  <1>4. x # y
    BY <1>2, <1>3
  <1> HIDE DEF y
  <1>5. Total(S \ {y}) = Cents[x] + Total((S \ {y}) \ {x})
    <2>1. S \ {y} \in SUBSET Refunds /\ S \ {y} \notin B /\ x \in S \ {y}
      BY <1>1, <1>3, <1>4
    <2> QED
      BY <2>1
  <1>6. Total(S \ {x}) = Cents[y] + Total((S \ {x}) \ {y})
    <2>1. S \ {x} \in SUBSET Refunds /\ S \ {x} \notin B /\ y \in S \ {x}
      BY <1>1, <1>3, <1>4
    <2> QED
      BY <2>1
  <1>7. (S \ {y}) \ {x} = (S \ {x}) \ {y}
    OBVIOUS
  <1>8. Total((S \ {x}) \ {y}) \in Nat /\ Cents[x] \in Nat /\ Cents[y] \in Nat
    BY <1>3, TotalType, RefundsAssumption
  <1> QED
    BY <1>2, <1>3, <1>5, <1>6, <1>7, <1>8

LEMMA TotalWithOneMore ==
    ASSUME NEW S \in SUBSET Refunds, NEW x \in Refunds, x \notin S
    PROVE  Total(S \cup {x}) = Cents[x] + Total(S)
  <1>1. S \cup {x} \in SUBSET Refunds /\ (S \cup {x}) \ {x} = S
    OBVIOUS
  <1> QED
    BY <1>1, TotalWithout

LEMMA TotalIsMonotone ==
    \A T \in SUBSET Refunds : \A S \in SUBSET T : Total(S) <= Total(T)
  <1> DEFINE B == {T \in SUBSET Refunds : \E S \in SUBSET T : ~ (Total(S) <= Total(T))}
  <1> SUFFICES ASSUME B # {} PROVE FALSE
    OBVIOUS
  <1>1. PICK T \in B : \A U \in B : U \subseteq T => U = T
    <2>1. B \subseteq SUBSET Refunds
      OBVIOUS
    <2> HIDE DEF B
    <2> QED
      BY <2>1, SmallestSet, RefundsAssumption
  <1>2. PICK S \in SUBSET T : ~ (Total(S) <= Total(T))
    OBVIOUS
  <1>3. Total(S) \in Nat /\ Total(T) \in Nat
    BY TotalType
  <1>4. PICK x \in T : x \notin S
    BY <1>2, <1>3
  <1>5. T \ {x} \in SUBSET Refunds /\ T \ {x} \notin B /\ S \in SUBSET (T \ {x})
    BY <1>1, <1>4
  <1>6. Total(S) <= Total(T \ {x})
    BY <1>5
  <1>7. Total(T) = Cents[x] + Total(T \ {x}) /\ Cents[x] \in Nat /\ Total(T \ {x}) \in Nat
    BY <1>4, TotalWithout, TotalType, RefundsAssumption
  <1> QED
    BY <1>2, <1>3, <1>6, <1>7

LEMMA TotalIsPositive ==
    \A S \in SUBSET Refunds : S # {} => Total(S) > 0
  <1> SUFFICES ASSUME NEW S \in SUBSET Refunds, S # {} PROVE Total(S) > 0
    OBVIOUS
  <1>1. PICK x \in S : TRUE
    OBVIOUS
  <1>2. Total(S) = Cents[x] + Total(S \ {x}) /\ Cents[x] \in Nat \ {0} /\ Total(S \ {x}) \in Nat
    BY TotalWithout, TotalType, RefundsAssumption
  <1> QED
    BY <1>2

-----------------------------------------------------------------------------
(* The invariant. *)

RefundStatuses == {"none", "pending", "completed", "failed"}
CallStates == {"idle", "calling", "yes", "no"}

RefundTypes ==
    /\ refund \in [Refunds -> RefundStatuses]
    /\ rpc \in [Refunds -> CallStates]
    /\ paidBack \subseteq Refunds

\* What is known of a refund while its call is under way, and afterwards.
RefundsAreTrue ==
    \A r \in Refunds :
        /\ rpc[r] # "idle" => refund[r] = "pending"
        /\ rpc[r] = "yes" \/ refund[r] = "completed" => r \in paidBack
        /\ r \in paidBack /\ Of[r] \notin lost => refund[r] = "completed" \/ rpc[r] = "yes"
        /\ refund[r] # "none" => status[Of[r]] \in Paid

RefundInv == RefundTypes /\ RefundsAreTrue /\ RefundsWithinAmount /\ StatusTellsRefunds

-----------------------------------------------------------------------------
(* What a refund does to the payments. *)

\* The steps of a refund write of the payments a status only, of one that was
\* paid, and may lose an answer.
RefundWrites ==
    /\ UNCHANGED <<gateway, transfers, ledger, posTx, deposit, provider, calls, job, late>>
    /\ \A p \in Payments :
        \/ status'[p] = status[p]
        \/ /\ status[p] \in {"completed", "partially_refunded"}
           /\ status'[p] \in {"partially_refunded", "refunded"}
    /\ status' \in [Payments -> Statuses]
    /\ lost \subseteq lost' /\ lost' \subseteq Payments
    /\ faults' \in Nat

RefundStep(r) == InitiateRefund(r) \/ CallRefund(r) \/ RecordRefund(r) \/ InterruptRefund(r)

LEMMA RefundWritesPaidOnly ==
    ASSUME TypeOK, RefundsAreTrue, StatusTellsRefunds, NEW r \in Refunds, RefundStep(r)
    PROVE  RefundWrites
  <1> DEFINE p == Of[r]
  <1>0. p \in Payments
    BY RefundsAssumption
  <1>1. ASSUME Loses(p) PROVE lost \subseteq lost' /\ lost' \subseteq Payments /\ faults' \in Nat
    BY <1>0, <1>1 DEF Loses, Fault, TypeOK
  <1>2. CASE InitiateRefund(r)
    BY <1>2 DEF InitiateRefund, vars, paymentVars, TypeOK, RefundWrites
  <1>3. CASE CallRefund(r)
    <2>1. /\ UNCHANGED <<gateway, transfers, status, ledger, posTx, deposit, provider, calls, job, late>>
          /\ UNCHANGED <<lost, faults>> \/ Loses(p)
      BY <1>3 DEF CallRefund
    <2> QED
      BY <1>1, <2>1 DEF TypeOK, RefundWrites
  <1>4. CASE InterruptRefund(r)
    <2>1. /\ UNCHANGED <<gateway, transfers, status, ledger, posTx, deposit, provider, calls, job, late>>
          /\ Loses(p)
      BY <1>4 DEF InterruptRefund
    <2> QED
      BY <1>1, <2>1 DEF TypeOK, RefundWrites
  <1>5. CASE RecordRefund(r)
    <2>1. UNCHANGED <<gateway, transfers, ledger, posTx, deposit, provider, calls, job, lost, late, faults>>
      BY <1>5 DEF RecordRefund
    <2>2. CASE UNCHANGED status
      BY <2>1, <2>2 DEF TypeOK, RefundWrites
    <2>3. CASE /\ rpc[r] = "yes"
               /\ status' = [status EXCEPT ![p] = RefundedStatus(With(p, {"completed"}) \cup {r})]
      <3>1. status'[p] \in {"partially_refunded", "refunded"}
        BY <1>0, <2>3 DEF RefundedStatus, TypeOK
      <3>2. \A q \in Payments : q # p => status'[q] = status[q]
        BY <2>3 DEF TypeOK
      <3>3. status' \in [Payments -> Statuses]
        <4>1. RefundedStatus(With(p, {"completed"}) \cup {r}) \in Statuses
          BY DEF RefundedStatus, Statuses
        <4> QED
          BY <2>3, <4>1 DEF TypeOK
      <3>4. status[p] \in {"completed", "partially_refunded", "refunded"}
        BY <2>3 DEF RefundsAreTrue, Paid
      <3>5. status'[p] = status[p] \/ status[p] # "refunded"
        <4>1. SUFFICES ASSUME status[p] = "refunded" PROVE status'[p] = "refunded"
          OBVIOUS
        <4> DEFINE C == With(p, {"completed"})
        <4>2. C \cup {r} \in SUBSET Refunds /\ C \in SUBSET (C \cup {r})
          BY DEF With
        <4>3. Total(C) = Amount
          BY <1>0, <4>1 DEF StatusTellsRefunds
        <4>4. Total(C \cup {r}) >= Amount
          BY <4>2, <4>3, TotalIsMonotone, TotalType, RefundsAssumption
        <4> QED
          BY <1>0, <2>3, <4>4 DEF RefundedStatus, TypeOK
      <3> QED
        BY <2>1, <3>1, <3>2, <3>3, <3>4, <3>5 DEF RefundWrites, TypeOK
    <2> QED
      BY <1>5, <2>2, <2>3 DEF RecordRefund
  <1> QED
    BY <1>2, <1>3, <1>4, <1>5 DEF RefundStep

\* The status of a row of the ledger is none that a refund sets.
LEMMA ToldValues ==
    ASSUME TypeOK, NEW p \in Payments, ledger[p] # <<>>
    PROVE  Told(p) \notin {"partially_refunded", "refunded"}
  <1>1. ledger[p] \in Seq(LedgerEvents)
    BY DEF TypeOK
  <1>2. Len(ledger[p]) \in 1 .. Len(ledger[p])
    BY <1>1
  <1>3. ledger[p][Len(ledger[p])] \in Entries
    BY <1>1, <1>2, EntriesAreEvents
  <1> QED
    BY <1>3, StatusAfterValues DEF Told, Entries

LEMMA RefundKeepsIInv ==
    ASSUME IInv, RefundWrites
    PROVE  IInv'
  <1> USE DEF RefundWrites
  <1>1. TypeOK'
    BY DEF IInv, TypeOK
  <1>2. AskedOnce'
    BY DEF IInv, AskedOnce, Asks, IsAt
  <1>3. LockIsExclusive' /\ UnderLock'
    BY DEF IInv, LockIsExclusive, UnderLock, Holds
  <1>4. NotAsked' /\ AnswersAreTrue'
    BY DEF IInv, NotAsked, AnswersAreTrue, Became, IsAt
  <1>5. BooksAreTrue'
    BY DEF IInv, BooksAreTrue, Paid
  <1>6. EndedAsRecorded'
    BY DEF IInv, EndedAsRecorded, Became, Paid, Locked
  <1>7. DepositIsPaid'
    BY DEF IInv, DepositIsPaid, Paid
  <1>8. LedgerTellsStatus'
    <2> SUFFICES ASSUME NEW p \in Payments
                 PROVE  IF ledger[p] = <<>> THEN status'[p] = "none"
                        ELSE \/ Told(p) = status'[p]
                             \/ Told(p) = "completed" /\ status'[p] \in Paid
                             \/ p \in transfers /\ status'[p] \in Paid
      BY DEF LedgerTellsStatus, Told
    <2> QED
      BY ToldValues DEF IInv, LedgerTellsStatus, Paid
  <1> QED
    BY <1>1, <1>2, <1>3, <1>4, <1>5, <1>6, <1>7, <1>8 DEF IInv

LEMMA RefundKeepsMoneyInv ==
    ASSUME MoneyInv, RefundWrites
    PROVE  MoneyInv'
  <1> USE DEF RefundWrites
  <1>1. ServedOnce'
    BY DEF MoneyInv, ServedOnce, Serving, Doing
  <1>2. StatusIsTrue'
    BY DEF MoneyInv, StatusIsTrue, Became, Verified, Paid
  <1>3. RefusalsAreTrue'
    BY DEF MoneyInv, RefusalsAreTrue, IsAt, Verified, Paid
  <1>4. FindingsAreTrue'
    BY DEF MoneyInv, FindingsAreTrue
  <1>5. HeldMoneyIsKnown'
    BY DEF MoneyInv, HeldMoneyIsKnown, Working, Paid
  <1> QED
    BY <1>1, <1>2, <1>3, <1>4, <1>5 DEF MoneyInv

-----------------------------------------------------------------------------
(* What the steps of the payments leave to the refunds. *)

LEMMA PaidStays ==
    ASSUME TypeOK, UnderLock, [Next]_vars, NEW p \in Payments, status[p] \in Paid
    PROVE  status'[p] = status[p]
  BY FinalStatus

\* Only refunds set these.
LEMMA NotRefundedByPayments ==
    ASSUME TypeOK, UnderLock, [Next]_vars, NEW p \in Payments,
           status'[p] \in {"partially_refunded", "refunded"}
    PROVE  status'[p] = status[p]
  BY StatusStep DEF StatusSet

LEMMA PaymentsKeepRefundInv ==
    ASSUME IInv, RefundInv, [Next]_vars, UNCHANGED refundVars
    PROVE  RefundInv'
  <1> USE DEF refundVars
  <1>0. TypeOK /\ UnderLock
    BY DEF IInv
  <1>1. RefundTypes'
    BY DEF RefundInv, RefundTypes
  <1>2. RefundsAreTrue'
    <2>1. \A r \in Refunds : Of[r] \in Payments
      BY RefundsAssumption
    <2>2. lost \subseteq lost'
      BY <1>0, LostStays
    <2> QED
      BY <1>0, <2>1, <2>2, PaidStays DEF RefundInv, RefundsAreTrue
  <1>3. RefundsWithinAmount'
    BY DEF RefundInv, RefundsWithinAmount, With
  <1>4. StatusTellsRefunds'
    <2> SUFFICES ASSUME NEW p \in Payments
                 PROVE  LET back == Total(With(p, {"completed"})) IN
                        /\ status'[p] = "refunded" <=> back = Amount
                        /\ status'[p] = "partially_refunded" <=> back > 0 /\ back < Amount
      BY DEF StatusTellsRefunds, With
    <2>1. ASSUME NEW s \in {"partially_refunded", "refunded"}
          PROVE  status'[p] = s <=> status[p] = s
      BY <1>0, PaidStays, NotRefundedByPayments DEF Paid
    <2> QED
      BY <2>1 DEF RefundInv, StatusTellsRefunds
  <1> QED
    BY <1>1, <1>2, <1>3, <1>4 DEF RefundInv

-----------------------------------------------------------------------------
(* The steps of a refund. *)

LEMMA WithType == \A p, statuses : With(p, statuses) \in SUBSET Refunds
  BY DEF With

LEMMA InitiateRefundStep ==
    ASSUME TypeOK, RefundInv, NEW r \in Refunds, InitiateRefund(r)
    PROVE  RefundInv'
  <1> DEFINE p == Of[r]
  <1>0. p \in Payments
    BY RefundsAssumption
  <1>1. /\ refund' = [refund EXCEPT ![r] = "pending"] /\ rpc' = [rpc EXCEPT ![r] = "calling"]
        /\ UNCHANGED <<status, lost, paidBack>>
        /\ refund[r] = "none" /\ status[p] \in Paid
        /\ Cents[r] <= Amount - Total(With(p, {"pending", "completed"}))
    BY DEF InitiateRefund, vars, paymentVars, Committed, Paid
  <1>2. refund \in [Refunds -> RefundStatuses] /\ rpc \in [Refunds -> CallStates]
    BY DEF RefundInv, RefundTypes
  <1>3. RefundTypes'
    BY <1>1, <1>2 DEF RefundInv, RefundTypes, RefundStatuses, CallStates
  <1>4. r \notin paidBack \/ p \in lost
    BY <1>1 DEF RefundInv, RefundsAreTrue
  <1>5. RefundsAreTrue'
    <2> SUFFICES ASSUME NEW x \in Refunds
                 PROVE  /\ rpc'[x] # "idle" => refund'[x] = "pending"
                        /\ rpc'[x] = "yes" \/ refund'[x] = "completed" => x \in paidBack'
                        /\ x \in paidBack' /\ Of[x] \notin lost' =>
                               refund'[x] = "completed" \/ rpc'[x] = "yes"
                        /\ refund'[x] # "none" => status'[Of[x]] \in Paid
      BY DEF RefundsAreTrue
    <2>1. CASE x = r
      BY <1>1, <1>2, <1>4, <2>1
    <2>2. CASE x # r
      BY <1>1, <1>2, <2>2 DEF RefundInv, RefundsAreTrue
    <2> QED
      BY <2>1, <2>2
  <1>6. RefundsWithinAmount'
    <2> SUFFICES ASSUME NEW q \in Payments
                 PROVE  Total(With(q, {"pending", "completed"})') <= Amount
      BY DEF RefundsWithinAmount, With
    <2> DEFINE C == With(q, {"pending", "completed"})
    <2>1. CASE q = p
      <3>1. C' = C \cup {r} /\ r \notin C
        BY <1>1, <1>2, <2>1 DEF With
      <3>2. Total(C') = Cents[r] + Total(C)
        BY <3>1, WithType, TotalWithOneMore
      <3>3. Total(C) \in Nat /\ Cents[r] \in Nat /\ Amount \in Nat
        BY WithType, TotalType, RefundsAssumption
      <3> QED
        BY <1>1, <2>1, <3>2, <3>3
    <2>2. CASE q # p
      <3>1. C' = C
        BY <1>1, <1>2, <2>2 DEF With
      <3> QED
        BY <3>1 DEF RefundInv, RefundsWithinAmount
    <2> QED
      BY <2>1, <2>2
  <1>7. StatusTellsRefunds'
    <2>1. \A q \in Payments : With(q, {"completed"})' = With(q, {"completed"})
      BY <1>1, <1>2 DEF With
    <2> QED
      BY <1>1, <2>1 DEF RefundInv, StatusTellsRefunds
  <1> QED
    BY <1>3, <1>5, <1>6, <1>7 DEF RefundInv

\* A call, its answer and its end, before anything is recorded.
LEMMA CallRefundStep ==
    ASSUME TypeOK, RefundInv, NEW r \in Refunds, CallRefund(r) \/ InterruptRefund(r)
    PROVE  RefundInv'
  <1> DEFINE p == Of[r]
  <1>0. p \in Payments
    BY RefundsAssumption
  <1>1. UNCHANGED <<status, refund>>
    BY DEF CallRefund, InterruptRefund
  <1>2. refund \in [Refunds -> RefundStatuses] /\ rpc \in [Refunds -> CallStates]
        /\ paidBack \subseteq Refunds
    BY DEF RefundInv, RefundTypes
  <1>3. \/ /\ rpc[r] = "calling" /\ rpc' = [rpc EXCEPT ![r] = "yes"]
           /\ paidBack' = paidBack \cup {r} /\ lost' = lost
        \/ /\ rpc[r] = "calling" /\ rpc' = [rpc EXCEPT ![r] = "no"]
           /\ paidBack' = paidBack /\ lost' = lost
        \/ /\ rpc[r] = "calling" /\ rpc' = [rpc EXCEPT ![r] = "no"]
           /\ paidBack' = paidBack \cup {r} /\ lost' = lost \cup {p}
        \/ /\ rpc[r] # "idle" /\ rpc' = [rpc EXCEPT ![r] = "idle"]
           /\ paidBack' = paidBack /\ lost' = lost \cup {p}
    BY DEF CallRefund, InterruptRefund, Loses
  <1>4. RefundTypes'
    BY <1>1, <1>2, <1>3 DEF RefundTypes, CallStates
  <1>5. RefundsAreTrue'
    <2> SUFFICES ASSUME NEW x \in Refunds
                 PROVE  /\ rpc'[x] # "idle" => refund'[x] = "pending"
                        /\ rpc'[x] = "yes" \/ refund'[x] = "completed" => x \in paidBack'
                        /\ x \in paidBack' /\ Of[x] \notin lost' =>
                               refund'[x] = "completed" \/ rpc'[x] = "yes"
                        /\ refund'[x] # "none" => status'[Of[x]] \in Paid
      BY DEF RefundsAreTrue
    <2>1. CASE x = r
      BY <1>1, <1>2, <1>3, <2>1 DEF RefundInv, RefundsAreTrue
    <2>2. CASE x # r
      BY <1>1, <1>2, <1>3, <2>2 DEF RefundInv, RefundsAreTrue
    <2> QED
      BY <2>1, <2>2
  <1>6. RefundsWithinAmount' /\ StatusTellsRefunds'
    BY <1>1 DEF RefundInv, RefundsWithinAmount, StatusTellsRefunds, With
  <1> QED
    BY <1>4, <1>5, <1>6 DEF RefundInv

\* recordRefundPosResult, when the provider has executed the refund.
LEMMA RecordYesStep ==
    ASSUME TypeOK, RefundInv, NEW r \in Refunds, RecordRefund(r), rpc[r] = "yes"
    PROVE  RefundInv'
  <1> DEFINE p == Of[r]
  <1> DEFINE C(q) == With(q, {"completed"})
  <1>0. p \in Payments
    BY RefundsAssumption
  <1>1. /\ refund' = [refund EXCEPT ![r] = "completed"] /\ rpc' = [rpc EXCEPT ![r] = "idle"]
        /\ status' = [status EXCEPT ![p] = RefundedStatus(C(p) \cup {r})]
        /\ UNCHANGED <<lost, paidBack>>
    BY DEF RecordRefund
  <1>2. refund \in [Refunds -> RefundStatuses] /\ rpc \in [Refunds -> CallStates]
    BY DEF RefundInv, RefundTypes
  <1>3. refund[r] = "pending" /\ r \in paidBack
    BY DEF RefundInv, RefundsAreTrue
  <1>4. /\ status'[p] = RefundedStatus(C(p) \cup {r})
        /\ \A q \in Payments : q # p => status'[q] = status[q]
    BY <1>0, <1>1 DEF TypeOK
  <1>5. RefundTypes'
    BY <1>1, <1>2 DEF RefundInv, RefundTypes, RefundStatuses, CallStates
  <1>6. RefundsAreTrue'
    <2> SUFFICES ASSUME NEW x \in Refunds
                 PROVE  /\ rpc'[x] # "idle" => refund'[x] = "pending"
                        /\ rpc'[x] = "yes" \/ refund'[x] = "completed" => x \in paidBack'
                        /\ x \in paidBack' /\ Of[x] \notin lost' =>
                               refund'[x] = "completed" \/ rpc'[x] = "yes"
                        /\ refund'[x] # "none" => status'[Of[x]] \in Paid
      BY DEF RefundsAreTrue
    <2>1. status'[p] \in Paid
      BY <1>4 DEF RefundedStatus, Paid
    <2>2. refund'[x] # "none" => status'[Of[x]] \in Paid
      <3>1. Of[x] \in Payments
        BY RefundsAssumption
      <3>2. refund'[x] # "none" => refund[x] # "none"
        BY <1>1, <1>2, <1>3
      <3> QED
        BY <1>4, <2>1, <3>1, <3>2 DEF RefundInv, RefundsAreTrue
    <2>3. CASE x = r
      BY <1>1, <1>2, <1>3, <2>2, <2>3
    <2>4. CASE x # r
      BY <1>1, <1>2, <2>2, <2>4 DEF RefundInv, RefundsAreTrue
    <2> QED
      BY <2>3, <2>4
  <1>7. RefundsWithinAmount'
    <2>1. \A q \in Payments : With(q, {"pending", "completed"})' = With(q, {"pending", "completed"})
      BY <1>1, <1>2, <1>3 DEF With
    <2> QED
      BY <2>1 DEF RefundInv, RefundsWithinAmount
  <1>8. StatusTellsRefunds'
    <2> SUFFICES ASSUME NEW q \in Payments
                 PROVE  /\ status'[q] = "refunded" <=> Total(C(q)') = Amount
                        /\ status'[q] = "partially_refunded" <=> Total(C(q)') > 0 /\ Total(C(q)') < Amount
      BY DEF StatusTellsRefunds, With
    <2>1. CASE q = p
      <3>1. C(p)' = C(p) \cup {r}
        BY <1>1, <1>2 DEF With
      <3>2. C(p)' \in SUBSET With(p, {"pending", "completed"}) /\ C(p)' # {}
        BY <1>1, <1>2, <1>3, <3>1 DEF With
      <3>3. Total(C(p)') \in Nat /\ Total(C(p)') > 0 /\ Total(C(p)') <= Amount
        <4>1. Total(C(p)') <= Total(With(p, {"pending", "completed"}))
          BY <3>2, WithType, TotalIsMonotone
        <4>2. Total(With(p, {"pending", "completed"})) <= Amount
          BY <1>0 DEF RefundInv, RefundsWithinAmount
        <4>3. C(p)' \in SUBSET Refunds
          BY <3>2, WithType
        <4> QED
          BY <3>2, <4>1, <4>2, <4>3, WithType, TotalType, TotalIsPositive, RefundsAssumption
      <3>4. status'[p] = IF Total(C(p)') >= Amount THEN "refunded" ELSE "partially_refunded"
        BY <1>4, <3>1 DEF RefundedStatus
      <3> HIDE DEF C
      <3> QED
        BY <2>1, <3>3, <3>4, RefundsAssumption
    <2>2. CASE q # p
      <3>1. C(q)' = C(q)
        BY <1>1, <1>2, <2>2 DEF With
      <3> QED
        BY <1>4, <2>2, <3>1 DEF RefundInv, StatusTellsRefunds
    <2> QED
      BY <2>1, <2>2
  <1> QED
    BY <1>5, <1>6, <1>7, <1>8 DEF RefundInv

\* recordRefundPosResult, when it has not, or says so.
LEMMA RecordNoStep ==
    ASSUME TypeOK, RefundInv, NEW r \in Refunds, RecordRefund(r), rpc[r] = "no"
    PROVE  RefundInv'
  <1>1. /\ refund' = [refund EXCEPT ![r] = "failed"] /\ rpc' = [rpc EXCEPT ![r] = "idle"]
        /\ UNCHANGED <<status, lost, paidBack>>
    BY DEF RecordRefund
  <1>2. refund \in [Refunds -> RefundStatuses] /\ rpc \in [Refunds -> CallStates]
    BY DEF RefundInv, RefundTypes
  <1>3. refund[r] = "pending"
    BY DEF RefundInv, RefundsAreTrue
  <1>4. RefundTypes'
    BY <1>1, <1>2 DEF RefundInv, RefundTypes, RefundStatuses, CallStates
  <1>5. RefundsAreTrue'
    <2> SUFFICES ASSUME NEW x \in Refunds
                 PROVE  /\ rpc'[x] # "idle" => refund'[x] = "pending"
                        /\ rpc'[x] = "yes" \/ refund'[x] = "completed" => x \in paidBack'
                        /\ x \in paidBack' /\ Of[x] \notin lost' =>
                               refund'[x] = "completed" \/ rpc'[x] = "yes"
                        /\ refund'[x] # "none" => status'[Of[x]] \in Paid
      BY DEF RefundsAreTrue
    <2>1. CASE x = r
      BY <1>1, <1>2, <1>3, <2>1 DEF RefundInv, RefundsAreTrue
    <2>2. CASE x # r
      BY <1>1, <1>2, <2>2 DEF RefundInv, RefundsAreTrue
    <2> QED
      BY <2>1, <2>2
  <1>6. RefundsWithinAmount'
    <2> SUFFICES ASSUME NEW q \in Payments
                 PROVE  Total(With(q, {"pending", "completed"})') <= Amount
      BY DEF RefundsWithinAmount, With
    <2> DEFINE C == With(q, {"pending", "completed"})
    <2>1. C' \in SUBSET C
      BY <1>1, <1>2, <1>3 DEF With
    <2>2. Total(C') <= Total(C) /\ Total(C') \in Nat /\ Total(C) \in Nat
      BY <2>1, WithType, TotalIsMonotone, TotalType
    <2>3. Total(C) <= Amount
      BY DEF RefundInv, RefundsWithinAmount
    <2> QED
      BY <2>2, <2>3, RefundsAssumption
  <1>7. StatusTellsRefunds'
    <2>1. \A q \in Payments : With(q, {"completed"})' = With(q, {"completed"})
      BY <1>1, <1>2, <1>3 DEF With
    <2> QED
      BY <1>1, <2>1 DEF RefundInv, StatusTellsRefunds
  <1> QED
    BY <1>4, <1>5, <1>6, <1>7 DEF RefundInv

-----------------------------------------------------------------------------
(* The theorems. *)

RefundsInv == IInv /\ MoneyInv /\ RefundInv

LEMMA RefundsInitInv == RefundsInit => RefundsInv
  <1> SUFFICES ASSUME RefundsInit PROVE RefundsInv
    OBVIOUS
  <1>1. IInv /\ MoneyInv
    BY InitIInv, InitMoneyInv DEF RefundsInit
  <1>2. \A r \in Refunds : refund[r] = "none" /\ rpc[r] = "idle" /\ r \notin paidBack
    BY DEF RefundsInit
  <1>3. RefundTypes
    BY DEF RefundsInit, RefundTypes, RefundStatuses, CallStates
  <1>4. RefundsAreTrue
    BY <1>2 DEF RefundsAreTrue
  <1>5. \A p \in Payments : /\ With(p, {"pending", "completed"}) = {}
                            /\ With(p, {"completed"}) = {}
    BY <1>2 DEF With
  <1>6. \A p \in Payments : /\ Total(With(p, {"pending", "completed"})) = 0
                            /\ Total(With(p, {"completed"})) = 0
    BY <1>5, TotalOfRest
  <1>7. RefundsWithinAmount
    <2>1. 0 <= Amount
      BY RefundsAssumption
    <2> QED
      BY <1>6, <2>1 DEF RefundsWithinAmount
  <1>8. StatusTellsRefunds
    <2>1. \A p \in Payments : status[p] = "none"
      BY DEF RefundsInit, Init
    <2>2. 0 # Amount /\ ~(0 > 0)
      BY RefundsAssumption
    <2> QED
      BY <1>6, <2>1, <2>2, Zenon DEF StatusTellsRefunds
  <1> QED
    BY <1>1, <1>3, <1>4, <1>7, <1>8 DEF RefundsInv, RefundInv

\* The steps of both services.
LEMMA RefundsSteps ==
    ASSUME [RefundsNext]_<<vars, refundVars>>
    PROVE  \/ [Next]_vars /\ UNCHANGED refundVars
           \/ \E r \in Refunds : RefundStep(r)
  BY DEF RefundsNext, RefundStep

LEMMA RefundsInvStep ==
    ASSUME RefundsInv, [RefundsNext]_<<vars, refundVars>>
    PROVE  RefundsInv'
  <1>0. TypeOK
    BY DEF RefundsInv, IInv
  <1>1. CASE [Next]_vars /\ UNCHANGED refundVars
    BY <1>1, IInvStep, MoneyInvStep, PaymentsKeepRefundInv DEF RefundsInv
  <1>2. ASSUME NEW r \in Refunds, RefundStep(r) PROVE RefundsInv'
    <2>1. RefundWrites
      BY <1>0, <1>2, RefundWritesPaidOnly DEF RefundsInv, RefundInv
    <2>2. IInv' /\ MoneyInv'
      BY <2>1, RefundKeepsIInv, RefundKeepsMoneyInv DEF RefundsInv
    <2>3. RecordRefund(r) => rpc[r] \in {"yes", "no"}
      BY DEF RecordRefund
    <2>4. RefundInv'
      BY <1>0, <1>2, <2>3, InitiateRefundStep, CallRefundStep, RecordYesStep, RecordNoStep
      DEF RefundsInv, RefundStep
    <2> QED
      BY <2>2, <2>4 DEF RefundsInv
  <1> QED
    BY <1>1, <1>2, RefundsSteps

\* The inductive invariant of payments that are refunded.
THEOREM RefundsInvHolds == RefundsSpec => []RefundsInv
  BY RefundsInitInv, RefundsInvStep, PTL DEF RefundsSpec

\* However many refunds of a payment are asked for at a time, and whichever of
\* their calls fail, those that are executed or may yet be stay within what was
\* paid.
THEOREM RefundsStayWithinAmount == RefundsSpec => []RefundsWithinAmount
  <1>1. RefundsInv => RefundsWithinAmount
    BY DEF RefundsInv, RefundInv
  <1> QED
    BY <1>1, RefundsInvHolds, PTL

\* "refunded" and "partially_refunded" tell what has been given back.
THEOREM StatusTellsWhatIsBack == RefundsSpec => []StatusTellsRefunds
  <1>1. RefundsInv => StatusTellsRefunds
    BY DEF RefundsInv, RefundInv
  <1> QED
    BY <1>1, RefundsInvHolds, PTL

\* The provider has paid back what is recorded as completed; and until an answer
\* about the payment is lost, nothing else, but what is about to be recorded.
THEOREM PaidBackIsOnRecord == RefundsSpec => []PaidBackIsRecorded
  <1>1. RefundsInv => PaidBackIsRecorded
    <2> SUFFICES ASSUME RefundsInv, NEW p \in Payments
                 PROVE  /\ With(p, {"completed"}) \subseteq paidBack
                        /\ p \notin lost =>
                            /\ Total({r \in paidBack : Of[r] = p}) <= Amount
                            /\ \A r \in paidBack :
                                 Of[r] = p /\ refund[r] # "completed" => rpc[r] = "yes"
      BY DEF PaidBackIsRecorded
    <2>1. RefundTypes /\ RefundsAreTrue /\ RefundsWithinAmount
      BY DEF RefundsInv, RefundInv
    <2>2. With(p, {"completed"}) \subseteq paidBack
      BY <2>1 DEF RefundsAreTrue, With
    <2>3. ASSUME p \notin lost, NEW r \in paidBack, Of[r] = p
          PROVE  refund[r] = "completed" \/ (rpc[r] = "yes" /\ refund[r] = "pending")
      <3>1. r \in Refunds
        BY <2>1 DEF RefundTypes
      <3>2. refund[r] = "completed" \/ rpc[r] = "yes"
        BY <2>1, <2>3, <3>1 DEF RefundsAreTrue
      <3>3. rpc[r] = "yes" => refund[r] = "pending"
        BY <2>1, <3>1 DEF RefundsAreTrue
      <3> QED
        BY <3>2, <3>3
    <2>4. ASSUME p \notin lost PROVE Total({r \in paidBack : Of[r] = p}) <= Amount
      <3> DEFINE B == {r \in paidBack : Of[r] = p}
                 C == With(p, {"pending", "completed"})
      <3>1. B \in SUBSET C /\ C \in SUBSET Refunds
        BY <2>1, <2>3, <2>4 DEF With, RefundTypes
      <3>2. Total(C) <= Amount
        BY <2>1 DEF RefundsWithinAmount
      <3>3. Total(B) <= Total(C) /\ Total(B) \in Nat /\ Total(C) \in Nat
        BY <3>1, TotalIsMonotone, TotalType
      <3> QED
        BY <3>2, <3>3, RefundsAssumption
    <2> QED
      BY <2>2, <2>3, <2>4
  <1> QED
    BY <1>1, RefundsInvHolds, PTL

\* All that is proved of the payments holds when they are refunded.
THEOREM RefundsKeepPayments ==
    RefundsSpec => [](TypeOK /\ OneProvisionPerKey /\ EndedAsRecorded /\ DepositIsPaid
                      /\ LedgerTellsStatus /\ HeldMoneyIsKnown)
  <1>1. RefundsInv => TypeOK /\ OneProvisionPerKey /\ EndedAsRecorded /\ DepositIsPaid
                      /\ LedgerTellsStatus /\ HeldMoneyIsKnown
    BY DEF RefundsInv, IInv, MoneyInv, AskedOnce, OneProvisionPerKey
  <1> QED
    BY <1>1, RefundsInvHolds, PTL

\* enforce_payment_status_transition refuses no step of a refund either.
THEOREM TriggerIsSilentOnRefunds == RefundsSpec => TriggerNeverRaises
  <1>1. ASSUME RefundsInv, [RefundsNext]_<<vars, refundVars>>
        PROVE  [\A p \in Payments :
                   \/ status'[p] = status[p]
                   \/ <<status[p], status'[p]>> \in Transitions
                   \/ p \in transfers /\ status[p] = "pending" /\ status'[p] = "completed"]_vars
    <2>1. CASE [Next]_vars
      BY <1>1, <2>1, StatusMoves DEF RefundsInv, IInv
    <2>2. ASSUME NEW r \in Refunds, RefundStep(r), NEW p \in Payments
          PROVE  \/ status'[p] = status[p]
                 \/ <<status[p], status'[p]>> \in Transitions
      <3>1. RefundWrites
        BY <1>1, <2>2, RefundWritesPaidOnly DEF RefundsInv, RefundInv, IInv
      <3> QED
        BY <3>1 DEF RefundWrites, Transitions
    <2> QED
      BY <1>1, <2>1, <2>2, RefundsSteps
  <1> QED
    BY <1>1, RefundsInvHolds, PTL DEF RefundsSpec, TriggerNeverRaises

=============================================================================
