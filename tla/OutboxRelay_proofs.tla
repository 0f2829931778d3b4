-------------------------- MODULE OutboxRelay_proofs --------------------------
(***************************************************************************)
(* Proofs about OutboxRelay, for any events, calls, replicas and pools.    *)
(***************************************************************************)
EXTENDS OutboxRelay, TLAPS

\* What relay r is busy with.
Trying(r, e) == pc[r] \in {"calling", "failed"} /\ IsCurrent(r, e)

\* A relay has a batch between fetching and unlocking only, and its events are
\* in the table.
BatchIsOpen ==
    \A r \in Replicas :
        /\ pc[r] \in {"idle", "reclaiming", "fetching", "unlocking"} => todo[r] = {}
        /\ \A e \in todo[r] : status[e] # "unwritten"

\* The calls before the one a relay is at have been made.
CallsMade ==
    \A r \in Replicas, e \in Events : pc[r] = "calling" /\ IsCurrent(r, e) =>
        \A c \in DOMAIN Calls[e] : c < at[r] => handled[e][c] > 0

\* Who is in a tick has the lock.
LockHeld ==
    ~lockLost => \A r \in Replicas : pc[r] # "idle" => lock # None /\ lock.by = r

\* Events are committed in the order of their sequence.
CommitOrder ==
    \A d, e \in Events : d < e /\ status[e] # "unwritten" => status[d] # "unwritten"

\* An event that has left pending, or is being tried, has been tried.
Tried ==
    \A e \in Events :
        /\ status[e] \in {"processing", "processed", "dead_letter"} => attempts[e] > 0
        /\ \A r \in Replicas : Trying(r, e) => attempts[e] > 0

\* Before an event of a batch come those of the batch and those that were tried.
BatchOrder ==
    \A r \in Replicas : \A e \in todo[r] : \A d \in Events :
        d < e => d \in todo[r] \/ attempts[d] > 0

\* What is in a batch is not settled, while one relay works at a time, but for the
\* event whose UPDATE to processed lost its answer.
BatchIsUnsettled ==
    ~lockLost => \A r \in Replicas : \A e \in todo[r] :
        status[e] \in Settled => e \in unsure /\ pc[r] = "failed" /\ IsCurrent(r, e)

IInv ==
    /\ TypeOK
    /\ BatchIsOpen /\ LockHeld /\ OneRelayAtATime
    /\ CallsMade /\ ProcessedWasDelivered
    /\ CommitOrder /\ Tried /\ BatchOrder /\ FirstAttemptsInOrder
    /\ BatchIsUnsettled

-----------------------------------------------------------------------------
LEMMA InitIInv == Init => IInv
  <1> SUFFICES ASSUME Init PROVE IInv
    OBVIOUS
  <1>1. TypeOK
    <2>1. DOMAIN handled = Events /\ \A e \in Events : handled[e] \in [DOMAIN Calls[e] -> Nat]
      BY DEF Init
    <2>2. /\ status \in [Events -> Statuses] /\ attempts \in [Events -> Nat] /\ stale \subseteq Events
          /\ lock \in Lock \cup {None} /\ at \in [Replicas -> Nat \ {0}] /\ faults \in Nat
      BY DEF Init, Statuses
    <2>3. /\ pc \in [Replicas -> {"idle", "reclaiming", "fetching", "next", "calling",
                                  "failed", "unlocking"}]
          /\ todo \in [Replicas -> SUBSET Events]
          /\ seen \in [Replicas -> [Events -> Nat]]
      BY DEF Init
    <2>4. lockLost \in BOOLEAN /\ unsure \subseteq Events
      BY DEF Init
    <2> QED
      BY <2>1, <2>2, <2>3, <2>4 DEF TypeOK
  <1>2. BatchIsOpen /\ LockHeld /\ OneRelayAtATime /\ BatchIsUnsettled
    BY DEF Init, BatchIsOpen, LockHeld, OneRelayAtATime, BatchIsUnsettled
  <1>3. CallsMade /\ ProcessedWasDelivered
    BY DEF Init, CallsMade, ProcessedWasDelivered
  <1>4. CommitOrder /\ Tried /\ BatchOrder /\ FirstAttemptsInOrder
    BY DEF Init, CommitOrder, Tried, Trying, BatchOrder, FirstAttemptsInOrder
  <1> QED
    BY <1>1, <1>2, <1>3, <1>4 DEF IInv

\* One call takes effect once more.
LEMMA HandledOnceMore ==
    ASSUME TypeOK, NEW e \in Events, NEW c \in DOMAIN Calls[e],
           handled' = [handled EXCEPT ![e][c] = @ + 1]
    PROVE  /\ DOMAIN handled' = Events
           /\ \A d \in Events : handled'[d] \in [DOMAIN Calls[d] -> Nat]
           /\ handled'[e][c] = handled[e][c] + 1
           /\ \A d \in Events : \A b \in DOMAIN Calls[d] :
                  handled'[d][b] # handled[d][b] => d = e /\ b = c
  <1>1. /\ DOMAIN handled = Events
        /\ \A d \in Events : handled[d] \in [DOMAIN Calls[d] -> Nat]
    BY DEF TypeOK
  <1>2. [handled[e] EXCEPT ![c] = @ + 1] \in [DOMAIN Calls[e] -> Nat]
    BY <1>1
  <1>3. handled' = [handled EXCEPT ![e] = [handled[e] EXCEPT ![c] = @ + 1]]
    OBVIOUS
  <1>4. /\ handled'[e] = [handled[e] EXCEPT ![c] = @ + 1]
        /\ \A d \in Events \ {e} : handled'[d] = handled[d]
        /\ DOMAIN handled' = Events
    BY <1>1, <1>3
  <1> QED
    BY <1>1, <1>2, <1>4

LEMMA TypeStep ==
    ASSUME TypeOK, [Next]_relayVars
    PROVE  TypeOK'
  <1> USE DEF Statuses
  <1>1. CASE UNCHANGED relayVars
    BY <1>1 DEF relayVars, TypeOK
  <1>2. ASSUME NEW e \in Events, Commit(e) \/ Age(e) PROVE TypeOK'
    BY <1>2 DEF Commit, Age, TypeOK
  <1>3. ASSUME NEW r \in Replicas, Tick(r) PROVE TypeOK'
    <2>1. lock' \in Lock
      BY <1>3, RelayAssumption DEF Tick, TakeLock, TypeOK, Lock
    <2> QED
      BY <1>3, <2>1 DEF Tick, TypeOK
  <1>4. ASSUME NEW r \in Replicas, Reclaim(r) PROVE TypeOK'
    BY <1>4 DEF Reclaim, TypeOK
  <1>5. ASSUME NEW r \in Replicas, Fetch(r) PROVE TypeOK'
    <2>1. PICK B \in SUBSET Events :
            /\ todo' = [todo EXCEPT ![r] = B]
            /\ seen' = [seen EXCEPT ![r] =
                           [e \in Events |-> IF e \in B THEN attempts[e] ELSE 0]]
      BY <1>5 DEF Fetch
    <2>2. [e \in Events |-> IF e \in B THEN attempts[e] ELSE 0] \in [Events -> Nat]
      BY DEF TypeOK
    <2>3. seen' \in [Replicas -> [Events -> Nat]]
      BY <2>1, <2>2 DEF TypeOK
    <2> QED
      BY <1>5, <2>1, <2>3 DEF Fetch, TypeOK
  <1>6. ASSUME NEW r \in Replicas, Mark(r) PROVE TypeOK'
    BY <1>6 DEF Mark, UpdateToProcessing, NewAttempts, TypeOK
  <1>7. ASSUME NEW r \in Replicas, NEW e \in Events, Call(r, e) PROVE TypeOK'
    <2>1. /\ at[r] \in DOMAIN Calls[e]
          /\ handled' \in {handled, [handled EXCEPT ![e][at[r]] = @ + 1]}
          /\ at' \in {at, [at EXCEPT ![r] = @ + 1]}
          /\ pc' \in {pc, [pc EXCEPT ![r] = "failed"]}
          /\ UNCHANGED <<status, attempts, stale, lock, todo, seen, faults, lockLost, unsure>>
      BY <1>7 DEF Call, CallSucceeds, CallFails, Throws
    <2>2. DOMAIN handled' = Events /\ \A d \in Events : handled'[d] \in [DOMAIN Calls[d] -> Nat]
      BY <2>1, HandledOnceMore DEF TypeOK
    <2>3. at' \in [Replicas -> Nat \ {0}]
      <3>1. at[r] + 1 \in Nat \ {0} /\ at \in [Replicas -> Nat \ {0}]
        BY DEF TypeOK
      <3> QED
        BY <2>1, <3>1
    <2>4. pc' \in [Replicas -> {"idle", "reclaiming", "fetching", "next", "calling",
                                "failed", "unlocking"}]
      BY <2>1 DEF TypeOK
    <2> QED
      BY <2>1, <2>2, <2>3, <2>4 DEF TypeOK
  <1>8. ASSUME NEW r \in Replicas, RecordProcessed(r) PROVE TypeOK'
    BY <1>8 DEF RecordProcessed, TypeOK
  <1>9. ASSUME NEW r \in Replicas, RecordFailed(r) PROVE TypeOK'
    BY <1>9 DEF RecordFailed, FailedStatus, TypeOK
  <1>10. ASSUME NEW r \in Replicas, Unlock(r) PROVE TypeOK'
    <2>1. lock' \in Lock \cup {None}
      <3>1. ASSUME lock \in Lock, lock.depth # 1 PROVE [lock EXCEPT !.depth = @ - 1] \in Lock
        <4>1. lock.depth \in 1..LockDepth /\ LockDepth \in Nat
          BY <3>1, RelayAssumption DEF Lock
        <4>2. lock.depth - 1 \in 1..LockDepth
          BY <3>1, <4>1
        <4> QED
          BY <3>1, <4>2 DEF Lock
      <3> QED
        BY <1>10, <3>1 DEF Unlock, TypeOK
    <2> QED
      BY <1>10, <2>1 DEF Unlock, TypeOK
  <1>11. ASSUME NEW r \in Replicas, QueryFails(r) PROVE TypeOK'
    <2>1. /\ UNCHANGED <<status, attempts, stale, handled, lock, seen, at, lockLost>>
          /\ faults' \in Nat /\ unsure' \subseteq Events
      BY <1>11 DEF QueryFails, Fault, TypeOK
    <2>2. /\ pc' \in {[pc EXCEPT ![r] = "failed"], [pc EXCEPT ![r] = "unlocking"]}
          /\ todo' \in {todo, [todo EXCEPT ![r] = {}]}
      BY <1>11 DEF QueryFails
    <2> QED
      BY <2>1, <2>2 DEF TypeOK
  <1>12. ASSUME NEW r \in Replicas, ConnectionCloses(r) PROVE TypeOK'
    <2>1. /\ lock' = None
          /\ UNCHANGED <<status, attempts, stale, handled, pc, todo, seen, at, unsure>>
      BY <1>12 DEF ConnectionCloses
    <2>2. faults' \in Nat
      BY <1>12 DEF ConnectionCloses, Fault, TypeOK
    <2>3. lockLost' \in BOOLEAN
      BY <1>12 DEF ConnectionCloses, TypeOK
    <2> QED
      BY <2>1, <2>2, <2>3 DEF TypeOK
  <1>13. ASSUME NEW r \in Replicas, Crash(r) PROVE TypeOK'
    <2>1. /\ lock' \in Lock \cup {None} /\ faults' \in Nat /\ unsure' \subseteq Events
          /\ UNCHANGED <<status, attempts, stale, handled, lockLost>>
      BY <1>13 DEF Crash, Fault, TypeOK
    <2>2. /\ pc' \in [Replicas -> {"idle", "reclaiming", "fetching", "next", "calling",
                                   "failed", "unlocking"}]
          /\ todo' \in [Replicas -> SUBSET Events]
          /\ seen' \in [Replicas -> [Events -> Nat]]
          /\ at' \in [Replicas -> Nat \ {0}]
      BY <1>13 DEF Crash, TypeOK
    <2> QED
      BY <2>1, <2>2 DEF TypeOK
  <1>14. ASSUME NEW r \in Replicas, TickUnanswered(r) PROVE TypeOK'
    <2>1. lock' \in Lock
      BY <1>14, RelayAssumption DEF TickUnanswered, TakeLock, TypeOK, Lock
    <2> QED
      BY <1>14, <2>1 DEF TickUnanswered, Fault, TypeOK
  <1>15. ASSUME NEW r \in Replicas, MarkUnanswered(r) PROVE TypeOK'
    <2>1. /\ status' \in [Events -> Statuses] /\ attempts' \in [Events -> Nat]
          /\ stale' \subseteq Events
      BY <1>15 DEF MarkUnanswered, UpdateToProcessing, NewAttempts, TypeOK
    <2> QED
      BY <1>15, <2>1 DEF MarkUnanswered, Fault, TypeOK
  <1>16. ASSUME NEW r \in Replicas, ProcessedUnanswered(r) PROVE TypeOK'
    BY <1>16 DEF ProcessedUnanswered, Fault, TypeOK
  <1> QED
    BY <1>1, <1>2, <1>3, <1>4, <1>5, <1>6, <1>7, <1>8, <1>9, <1>10, <1>11, <1>12, <1>13, <1>14,
       <1>15, <1>16 DEF Next, RelayStep, FaultStep

-----------------------------------------------------------------------------
(* What an action leaves alone. *)

\* Only these change a batch.
LEMMA TodoStep ==
    ASSUME TypeOK, [Next]_relayVars, NEW r \in Replicas, todo'[r] # todo[r]
    PROVE  \/ Fetch(r) \/ RecordProcessed(r) \/ RecordFailed(r)
           \/ (QueryFails(r) \/ MarkUnanswered(r)) /\ todo'[r] = {} /\ pc'[r] = "unlocking"
           \/ Crash(r)
  <1>1. ASSUME NEW q \in Replicas, Fetch(q) \/ RecordProcessed(q) \/ RecordFailed(q) \/ Crash(q)
        PROVE  q = r
    BY <1>1 DEF Fetch, RecordProcessed, RecordFailed, Crash, TypeOK
  <1>2. ASSUME NEW q \in Replicas, QueryFails(q) \/ MarkUnanswered(q)
        PROVE  q = r /\ todo'[r] = {} /\ pc'[r] = "unlocking"
    BY <1>2 DEF QueryFails, MarkUnanswered, TypeOK
  <1>3. ASSUME NEW q \in Replicas,
               \/ Tick(q) \/ Reclaim(q) \/ Mark(q) \/ Unlock(q) \/ ConnectionCloses(q)
               \/ TickUnanswered(q) \/ ProcessedUnanswered(q) \/ \E e \in Events : Call(q, e)
        PROVE  FALSE
    BY <1>3 DEF Tick, Reclaim, Mark, Unlock, ConnectionCloses, TickUnanswered,
        ProcessedUnanswered, Call, CallSucceeds, CallFails
  <1>4. ASSUME NEW e \in Events, Commit(e) \/ Age(e) PROVE FALSE
    BY <1>4 DEF Commit, Age
  <1> QED
    BY <1>1, <1>2, <1>3, <1>4 DEF Next, RelayStep, FaultStep, relayVars

\* No event goes back to being unwritten, and to processed only from a relay that
\* made all of its calls.
LEMMA StatusStep ==
    ASSUME TypeOK, [Next]_relayVars, NEW e \in Events, status'[e] # status[e]
    PROVE  \/ Commit(e)
           \/ status[e] = "processing" /\ status'[e] = "pending" /\ UNCHANGED <<attempts, todo, at>>
                /\ \E r \in Replicas : Reclaim(r)
           \/ \E r \in Replicas :
                /\ IsCurrent(r, e)
                /\ \/ (Mark(r) \/ MarkUnanswered(r)) /\ status'[e] = "processing"
                   \/ /\ RecordProcessed(r) \/ (ProcessedUnanswered(r) /\ e \in unsure')
                      /\ status'[e] = "processed" /\ at[r] \notin DOMAIN Calls[e]
                   \/ RecordFailed(r) /\ status'[e] \in {"pending", "dead_letter"}
  <1>1. ASSUME NEW d \in Events, Commit(d) PROVE d = e
    BY <1>1 DEF Commit, TypeOK
  <1>2. ASSUME NEW r \in Replicas, Reclaim(r)
        PROVE  /\ status[e] = "processing" /\ status'[e] = "pending"
               /\ UNCHANGED <<attempts, todo, at>>
    BY <1>2 DEF Reclaim, Reclaimed
  <1>3. ASSUME NEW r \in Replicas, Mark(r) \/ MarkUnanswered(r)
        PROVE  IsCurrent(r, e) /\ status'[e] = "processing"
    BY <1>3 DEF Mark, MarkUnanswered, UpdateToProcessing, TypeOK
  <1>4. ASSUME NEW r \in Replicas, RecordProcessed(r)
        PROVE  IsCurrent(r, e) /\ status'[e] = "processed" /\ at[r] \notin DOMAIN Calls[e]
    BY <1>4 DEF RecordProcessed, TypeOK
  <1>5. ASSUME NEW r \in Replicas, RecordFailed(r)
        PROVE  IsCurrent(r, e) /\ status'[e] \in {"pending", "dead_letter"}
    BY <1>5 DEF RecordFailed, FailedStatus, TypeOK
  <1>6. ASSUME NEW r \in Replicas, ProcessedUnanswered(r)
        PROVE  /\ IsCurrent(r, e) /\ e \in unsure'
               /\ status'[e] = "processed" /\ at[r] \notin DOMAIN Calls[e]
    BY <1>6 DEF ProcessedUnanswered, TypeOK
  <1>7. ASSUME NEW r \in Replicas,
               \/ Tick(r) \/ Fetch(r) \/ Unlock(r) \/ QueryFails(r) \/ TickUnanswered(r)
               \/ ConnectionCloses(r) \/ Crash(r) \/ \E d \in Events : Call(r, d)
        PROVE  FALSE
    BY <1>7 DEF Tick, Fetch, Unlock, QueryFails, TickUnanswered, ConnectionCloses, Crash, Call,
        CallSucceeds, CallFails
  <1>8. ASSUME NEW d \in Events, Age(d) PROVE FALSE
    BY <1>8 DEF Age
  <1> QED
    BY <1>1, <1>2, <1>3, <1>4, <1>5, <1>6, <1>7, <1>8 DEF Next, RelayStep, FaultStep, relayVars

\* Attempts are counted when an event is marked only, and there is one then.
LEMMA AttemptsStep ==
    ASSUME TypeOK, [Next]_relayVars, NEW e \in Events
    PROVE  \/ attempts'[e] = attempts[e]
           \/ /\ attempts'[e] > 0
              /\ \E r \in Replicas : UpdateToProcessing(r) /\ IsCurrent(r, e)
  <1>1. ASSUME NEW r \in Replicas, UpdateToProcessing(r), attempts'[e] # attempts[e]
        PROVE  attempts'[e] > 0 /\ IsCurrent(r, e)
    <2>1. PICK d \in Events : IsCurrent(r, d) /\ attempts' = [attempts EXCEPT ![d] = NewAttempts(r, d)]
      BY <1>1 DEF UpdateToProcessing
    <2>2. d = e
      BY <1>1, <2>1 DEF TypeOK
    <2>3. seen[r][d] \in Nat /\ attempts'[d] = seen[r][d] + 1
      BY <2>1 DEF TypeOK, NewAttempts
    <2> QED
      BY <2>1, <2>2, <2>3
  <1>2. ASSUME NEW r \in Replicas,
               \/ Tick(r) \/ Reclaim(r) \/ Fetch(r) \/ RecordProcessed(r) \/ RecordFailed(r)
               \/ Unlock(r) \/ QueryFails(r) \/ TickUnanswered(r) \/ ProcessedUnanswered(r)
               \/ ConnectionCloses(r) \/ Crash(r) \/ \E d \in Events : Call(r, d)
        PROVE  attempts' = attempts
    BY <1>2 DEF Tick, Reclaim, Fetch, RecordProcessed, RecordFailed, Unlock, QueryFails,
        TickUnanswered, ProcessedUnanswered, ConnectionCloses, Crash, Call, CallSucceeds, CallFails
  <1>3. ASSUME NEW d \in Events, Commit(d) \/ Age(d) PROVE attempts' = attempts
    BY <1>3 DEF Commit, Age
  <1> QED
    BY <1>1, <1>2, <1>3 DEF Next, RelayStep, FaultStep, Mark, MarkUnanswered, relayVars

\* A batch stays, is dropped, is fetched, or loses the event that was tried.
LEMMA BatchStep ==
    ASSUME TypeOK, [Next]_relayVars, NEW r \in Replicas
    PROVE  \/ todo'[r] = todo[r]
           \/ todo'[r] = {} /\ pc'[r] \in {"idle", "unlocking"}
           \/ /\ Fetch(r) /\ IsBatch(todo'[r]) /\ todo'[r] \subseteq Events
              /\ UNCHANGED <<status, attempts, lock, lockLost>>
           \/ \E e \in Events : /\ Trying(r, e) /\ todo'[r] = todo[r] \ {e} /\ attempts' = attempts
                                /\ pc'[r] = "next"
  <1>1. ASSUME Fetch(r)
        PROVE  /\ IsBatch(todo'[r]) /\ todo'[r] \subseteq Events
               /\ UNCHANGED <<status, attempts, lock, lockLost>>
    <2>1. PICK B \in SUBSET Events : IsBatch(B) /\ todo' = [todo EXCEPT ![r] = B]
      BY <1>1 DEF Fetch
    <2>2. todo'[r] = B
      BY <2>1 DEF TypeOK
    <2>3. UNCHANGED <<status, attempts, lock, lockLost>>
      BY <1>1 DEF Fetch
    <2> QED
      BY <2>1, <2>2, <2>3
  <1>2. ASSUME RecordProcessed(r) \/ RecordFailed(r)
        PROVE  \E e \in Events : /\ Trying(r, e) /\ todo'[r] = todo[r] \ {e} /\ attempts' = attempts
                                 /\ pc'[r] = "next"
    BY <1>2 DEF RecordProcessed, RecordFailed, Trying, TypeOK
  <1>3. ASSUME Crash(r) PROVE todo'[r] = {} /\ pc'[r] = "idle"
    BY <1>3 DEF Crash, TypeOK
  <1> QED
    BY <1>1, <1>2, <1>3, TodoStep

\* Events stay in the table.
LEMMA StaysWritten ==
    ASSUME TypeOK, [Next]_relayVars, NEW e \in Events, status[e] # "unwritten"
    PROVE  status'[e] # "unwritten"
  BY StatusStep DEF Commit

LEMMA CommitOrderStep ==
    ASSUME TypeOK, BatchIsOpen, CommitOrder, [Next]_relayVars
    PROVE  CommitOrder'
  <1> SUFFICES ASSUME NEW d \in Events, NEW e \in Events, d < e, status'[e] # "unwritten"
               PROVE  status'[d] # "unwritten"
    BY DEF CommitOrder
  <1>1. CASE status[e] # "unwritten"
    BY <1>1, StaysWritten DEF CommitOrder
  <1>2. CASE status[e] = "unwritten"
    <2>1. ASSUME NEW r \in Replicas, IsCurrent(r, e) PROVE FALSE
      BY <1>2, <2>1 DEF BatchIsOpen, IsCurrent
    <2>2. Commit(e)
      BY <1>2, <2>1, StatusStep
    <2>3. status[d] # "unwritten"
      BY <2>2 DEF Commit
    <2> QED
      BY <2>3, StaysWritten
  <1> QED
    BY <1>1, <1>2

LEMMA BatchIsOpenStep ==
    ASSUME TypeOK, BatchIsOpen, [Next]_relayVars
    PROVE  BatchIsOpen'
  <1> SUFFICES ASSUME NEW r \in Replicas
               PROVE  /\ pc'[r] \in {"idle", "reclaiming", "fetching", "unlocking"} => todo'[r] = {}
                      /\ \A e \in todo'[r] : status'[e] # "unwritten"
    BY DEF BatchIsOpen
  <1> DEFINE closed == {"idle", "reclaiming", "fetching", "unlocking"}
  <1>1. ASSUME NEW e \in todo'[r] PROVE status'[e] # "unwritten"
    <2>1. CASE e \in todo[r]
      BY <2>1, StaysWritten DEF BatchIsOpen, TypeOK
    <2>2. CASE e \notin todo[r]
      BY <1>1, <2>2, BatchStep DEF IsBatch, Pending
    <2> QED
      BY <2>1, <2>2
  <1>2. ASSUME pc'[r] \in closed PROVE todo'[r] = {}
    <2>1. CASE todo'[r] = todo[r]
      <3>1. CASE pc[r] \in closed
        BY <2>1, <3>1 DEF BatchIsOpen
      <3>2. CASE pc[r] \notin closed
        <4>1. ASSUME NEW q \in Replicas, RelayStep(q) \/ FaultStep(q)
              PROVE  q = r
          BY <1>2, <3>2, <4>1 DEF RelayStep, FaultStep, Tick, Reclaim, Fetch, Mark, RecordProcessed,
              RecordFailed, Unlock, QueryFails, TickUnanswered, MarkUnanswered,
              ProcessedUnanswered, ConnectionCloses, Crash, TypeOK
        <4>2. ASSUME \/ Tick(r) \/ Reclaim(r) \/ Fetch(r) \/ Mark(r) \/ RecordProcessed(r)
                     \/ RecordFailed(r) \/ ConnectionCloses(r) \/ TickUnanswered(r)
                     \/ ProcessedUnanswered(r)
              PROVE  FALSE
          BY <1>2, <3>2, <4>2 DEF Tick, Reclaim, Fetch, Mark, RecordProcessed, RecordFailed,
              ConnectionCloses, TickUnanswered, TakeLock, ProcessedUnanswered, TypeOK
        <4>3. ASSUME Unlock(r) PROVE todo'[r] = {}
          BY <2>1, <3>2, <4>3 DEF Unlock
        <4>4. ASSUME QueryFails(r) \/ MarkUnanswered(r) \/ Crash(r) PROVE todo'[r] = {}
          BY <1>2, <3>2, <4>4 DEF QueryFails, MarkUnanswered, Crash, TypeOK
        <4>5. ASSUME NEW q \in Replicas, NEW e \in Events, Call(q, e) PROVE FALSE
          BY <1>2, <3>2, <4>5 DEF Call, CallSucceeds, CallFails, Throws, TypeOK
        <4>6. ASSUME NEW e \in Events, Commit(e) \/ Age(e) PROVE FALSE
          BY <1>2, <3>2, <4>6 DEF Commit, Age
        <4> QED
          BY <1>2, <3>2, <4>1, <4>2, <4>3, <4>4, <4>5, <4>6 DEF Next, RelayStep, FaultStep, relayVars
      <3> QED
        BY <3>1, <3>2
    <2>2. CASE todo'[r] # todo[r]
      <3>1. ASSUME Fetch(r) \/ (\E e \in Events : pc'[r] = "next") PROVE FALSE
        BY <1>2, <3>1 DEF Fetch, TypeOK
      <3> QED
        BY <2>2, <3>1, BatchStep
    <2> QED
      BY <2>1, <2>2
  <1> QED
    BY <1>1, <1>2

\* Mark counts an attempt of the one event the relay is at.
LEMMA MarkStep ==
    ASSUME TypeOK, NEW r \in Replicas, NEW e \in Events, UpdateToProcessing(r), IsCurrent(r, e)
    PROVE  /\ attempts' = [attempts EXCEPT ![e] = NewAttempts(r, e)]
           /\ status' = [status EXCEPT ![e] = "processing"]
           /\ attempts'[e] > 0
           /\ Mark(r) => at'[r] = 1 /\ pc'[r] = "calling"
  <1>1. PICK d \in Events : /\ IsCurrent(r, d)
                            /\ attempts' = [attempts EXCEPT ![d] = NewAttempts(r, d)]
                            /\ status' = [status EXCEPT ![d] = "processing"]
    BY DEF UpdateToProcessing
  <1>2. d = e
    BY <1>1, RelayAssumption DEF IsCurrent
  <1>3. NewAttempts(r, e) > 0
    BY DEF NewAttempts, TypeOK
  <1>4. Mark(r) => at'[r] = 1 /\ pc'[r] = "calling"
    BY DEF Mark, TypeOK
  <1> QED
    BY <1>1, <1>2, <1>3, <1>4 DEF TypeOK

\* A relay that is at an event was at it, or marks it now.
LEMMA TryingStep ==
    ASSUME TypeOK, [Next]_relayVars, NEW r \in Replicas, pc'[r] \in {"calling", "failed"}
    PROVE  todo'[r] = todo[r] /\ (pc[r] \in {"calling", "failed"} \/ Mark(r))
  <1>1. todo'[r] = todo[r]
    <2>1. ASSUME Fetch(r) PROVE FALSE
      BY <2>1 DEF Fetch, TypeOK
    <2> QED
      BY <2>1, BatchStep
  <1>2. ASSUME NEW q \in Replicas, pc[r] \notin {"calling", "failed"}, RelayStep(q) \/ FaultStep(q)
        PROVE  Mark(r)
    BY <1>2 DEF RelayStep, FaultStep, Tick, Reclaim, Fetch, Mark, RecordProcessed,
        RecordFailed, Unlock, QueryFails, TickUnanswered, MarkUnanswered, ProcessedUnanswered,
        ConnectionCloses, Crash, TypeOK
  <1>3. ASSUME NEW q \in Replicas, NEW e \in Events, Call(q, e)
        PROVE  pc[r] \in {"calling", "failed"}
    BY <1>3 DEF Call, CallSucceeds, CallFails, Throws, TypeOK
  <1>4. ASSUME NEW e \in Events, Commit(e) \/ Age(e) PROVE pc' = pc
    BY <1>4 DEF Commit, Age
  <1> QED
    BY <1>1, <1>2, <1>3, <1>4 DEF Next, relayVars

LEMMA TriedStep ==
    ASSUME TypeOK, Tried, [Next]_relayVars
    PROVE  Tried'
  <1> SUFFICES ASSUME NEW e \in Events
               PROVE  /\ status'[e] \in {"processing", "processed", "dead_letter"} => attempts'[e] > 0
                      /\ \A r \in Replicas : Trying(r, e)' => attempts'[e] > 0
    BY DEF Tried
  <1>1. attempts[e] > 0 => attempts'[e] > 0
    BY AttemptsStep
  <1>2. ASSUME status'[e] \in {"processing", "processed", "dead_letter"} PROVE attempts'[e] > 0
    <2>1. CASE status'[e] = status[e]
      BY <1>1, <1>2, <2>1 DEF Tried
    <2>2. CASE status'[e] # status[e]
      <3>1. ASSUME Commit(e) PROVE FALSE
        BY <1>2, <3>1 DEF Commit, TypeOK
      <3>2. ASSUME NEW r \in Replicas, IsCurrent(r, e),
                   RecordProcessed(r) \/ ProcessedUnanswered(r) \/ RecordFailed(r)
            PROVE  attempts'[e] > 0
        BY <1>1, <3>2 DEF Tried, Trying, RecordProcessed, ProcessedUnanswered, RecordFailed
      <3>3. ASSUME NEW r \in Replicas, IsCurrent(r, e), Mark(r) \/ MarkUnanswered(r)
            PROVE  attempts'[e] > 0
        BY <3>3, MarkStep DEF Mark, MarkUnanswered
      <3> QED
        BY <1>2, <2>2, <3>1, <3>2, <3>3, StatusStep
    <2> QED
      BY <2>1, <2>2
  <1>3. ASSUME NEW r \in Replicas, Trying(r, e)' PROVE attempts'[e] > 0
    <2>1. /\ pc'[r] \in {"calling", "failed"}
          /\ e \in todo'[r] /\ \A d \in todo'[r] : e <= d
      BY <1>3 DEF Trying, IsCurrent
    <2>2. IsCurrent(r, e) /\ (pc[r] \in {"calling", "failed"} \/ Mark(r))
      BY <2>1, TryingStep DEF IsCurrent
    <2> QED
      BY <1>1, <2>2, MarkStep DEF Tried, Trying, Mark
  <1> QED
    BY <1>2, <1>3

LEMMA BatchOrderStep ==
    ASSUME TypeOK, BatchIsOpen, CommitOrder, Tried, BatchOrder, [Next]_relayVars
    PROVE  BatchOrder'
  <1> SUFFICES ASSUME NEW r \in Replicas, NEW e \in todo'[r], NEW d \in Events, d < e
               PROVE  d \in todo'[r] \/ attempts'[d] > 0
    BY DEF BatchOrder
  <1>1. attempts[d] > 0 => attempts'[d] > 0
    BY AttemptsStep
  <1>2. CASE todo'[r] = todo[r]
    BY <1>1, <1>2 DEF BatchOrder
  <1>3. CASE IsBatch(todo'[r]) /\ todo'[r] \subseteq Events
    <2>1. status[e] = "pending" /\ (status[d] = "pending" => d \in todo'[r])
      BY <1>3 DEF IsBatch, Pending
    <2>2. status[d] # "unwritten"
      BY <1>3, <2>1 DEF CommitOrder
    <2> QED
      BY <1>1, <2>1, <2>2 DEF Tried, TypeOK, Statuses
  <1>4. ASSUME NEW f \in Events, Trying(r, f), todo'[r] = todo[r] \ {f}
        PROVE  d \in todo'[r] \/ attempts'[d] > 0
    BY <1>1, <1>4 DEF BatchOrder, Tried
  <1> QED
    BY <1>2, <1>3, <1>4, BatchStep

LEMMA FirstAttemptsInOrderStep ==
    ASSUME TypeOK, BatchOrder, FirstAttemptsInOrder, [Next]_relayVars
    PROVE  FirstAttemptsInOrder'
  <1> SUFFICES ASSUME NEW d \in Events, NEW e \in Events, d < e, attempts'[e] > 0
               PROVE  attempts'[d] > 0
    BY DEF FirstAttemptsInOrder
  <1>1. attempts[d] > 0 => attempts'[d] > 0
    BY AttemptsStep
  <1>2. CASE attempts'[e] = attempts[e]
    BY <1>1, <1>2 DEF FirstAttemptsInOrder
  <1>3. ASSUME NEW r \in Replicas, IsCurrent(r, e) PROVE attempts'[d] > 0
    <2>1. d \notin todo[r]
      BY <1>3, RelayAssumption DEF IsCurrent
    <2> QED
      BY <1>1, <1>3, <2>1 DEF BatchOrder, IsCurrent
  <1> QED
    BY <1>2, <1>3, AttemptsStep
-----------------------------------------------------------------------------
(* The lock, and the calls. *)

LEMMA LockHeldStep ==
    ASSUME TypeOK, LockHeld, [Next]_relayVars
    PROVE  LockHeld'
  <1> SUFFICES ASSUME ~lockLost', NEW r \in Replicas, pc'[r] # "idle"
               PROVE  lock' # None /\ lock'.by = r
    BY DEF LockHeld
  <1>1. ASSUME NEW q \in Replicas, Tick(q) PROVE lock' # None /\ lock'.by = r
    <2>1. lockLost' = lockLost
      BY <1>1 DEF Tick
    <2>2. PICK c \in Connections :
            /\ LockIsFree(q, c)
            /\ lock' = [by |-> q, on |-> c,
                        depth |-> IF lock = None THEN 1
                                  ELSE IF lock.depth < LockDepth THEN lock.depth + 1
                                  ELSE LockDepth]
            /\ pc' = [pc EXCEPT ![q] = "reclaiming"]
      BY <1>1 DEF Tick, TakeLock
    <2>3. r = q
      BY <2>1, <2>2 DEF LockHeld, LockIsFree, TypeOK
    <2>4. lock'.by = q
      BY <2>2
    <2>5. lock' \in Lock
      BY <2>2, RelayAssumption DEF TypeOK, Lock
    <2> QED
      BY <2>3, <2>4, <2>5, NoLockAssumption
  <1>2. ASSUME NEW q \in Replicas, Unlock(q) PROVE lock' # None /\ lock'.by = r
    BY <1>2 DEF Unlock, LockHeld, TypeOK
  <1>3. ASSUME NEW q \in Replicas, ConnectionCloses(q) PROVE FALSE
    BY <1>3 DEF ConnectionCloses, LockHeld, TypeOK
  <1>4. ASSUME NEW q \in Replicas, Crash(q) PROVE lock' # None /\ lock'.by = r
    BY <1>4 DEF Crash, LockHeld, TypeOK
  <1>5. ASSUME lock' = lock, lockLost' = lockLost, pc[r] # "idle"
        PROVE  lock' # None /\ lock'.by = r
    BY <1>5 DEF LockHeld
  <1>6. ASSUME NEW q \in Replicas,
               \/ Reclaim(q) \/ Fetch(q) \/ Mark(q) \/ RecordProcessed(q) \/ RecordFailed(q)
               \/ QueryFails(q) \/ MarkUnanswered(q) \/ ProcessedUnanswered(q)
        PROVE  lock' # None /\ lock'.by = r
    BY <1>5, <1>6 DEF Reclaim, Fetch, Mark, UpdateToProcessing, RecordProcessed, RecordFailed,
        QueryFails, MarkUnanswered, ProcessedUnanswered, TypeOK
  <1>7. ASSUME NEW q \in Replicas, NEW e \in Events, Call(q, e)
        PROVE  lock' # None /\ lock'.by = r
    BY <1>5, <1>7 DEF Call, CallSucceeds, CallFails, Throws, TypeOK
  <1>8. ASSUME NEW e \in Events, Commit(e) \/ Age(e) PROVE lock' # None /\ lock'.by = r
    BY <1>5, <1>8 DEF Commit, Age
  <1>9. ASSUME NEW q \in Replicas, TickUnanswered(q) PROVE lock' # None /\ lock'.by = r
    <2>1. PICK c \in Connections :
            /\ LockIsFree(q, c)
            /\ lock' = [by |-> q, on |-> c,
                        depth |-> IF lock = None THEN 1
                                  ELSE IF lock.depth < LockDepth THEN lock.depth + 1
                                  ELSE LockDepth]
      BY <1>9 DEF TickUnanswered, TakeLock
    <2>2. UNCHANGED <<pc, lockLost>>
      BY <1>9 DEF TickUnanswered
    <2>3. lock # None /\ lock.by = r
      BY <2>2 DEF LockHeld
    <2>4. r = q
      BY <2>1, <2>3 DEF LockIsFree
    <2>5. lock'.by = q
      BY <2>1
    <2>6. lock' \in Lock
      BY <2>1, RelayAssumption DEF TypeOK, Lock
    <2> QED
      BY <2>4, <2>5, <2>6, NoLockAssumption
  <1> QED
    BY <1>1, <1>2, <1>3, <1>4, <1>5, <1>6, <1>7, <1>8, <1>9
    DEF Next, RelayStep, FaultStep, relayVars

\* Who is in a tick holds the one lock there is.
LEMMA LockIsExclusive == LockHeld => OneRelayAtATime
  BY DEF LockHeld, OneRelayAtATime

\* What has taken effect stays so.
LEMMA HandledStep ==
    ASSUME TypeOK, [Next]_relayVars, NEW e \in Events, NEW c \in DOMAIN Calls[e], handled[e][c] > 0
    PROVE  handled'[e][c] > 0
  <1>1. ASSUME NEW r \in Replicas, NEW d \in Events, Call(r, d) PROVE handled'[e][c] > 0
    <2>1. CASE handled' = handled
      BY <2>1
    <2>2. CASE handled' = [handled EXCEPT ![d][at[r]] = @ + 1] /\ at[r] \in DOMAIN Calls[d]
      <3>1. CASE handled'[e][c] = handled[e][c]
        BY <3>1
      <3>2. CASE d = e /\ at[r] = c
        <4>1. handled[e][c] \in Nat
          BY DEF TypeOK
        <4>2. handled'[e][c] = handled[e][c] + 1
          BY <2>2, <3>2, HandledOnceMore
        <4> QED
          BY <4>1, <4>2
      <3> QED
        BY <2>2, <3>1, <3>2, HandledOnceMore
    <2> QED
      BY <1>1, <2>1, <2>2 DEF Call, CallSucceeds, CallFails
  <1>2. ASSUME NEW r \in Replicas, RelayStep(r) \/ FaultStep(r) PROVE handled' = handled
    BY <1>2 DEF RelayStep, FaultStep, Tick, Reclaim, Fetch, Mark, RecordProcessed, RecordFailed,
        Unlock, QueryFails, TickUnanswered, MarkUnanswered, ProcessedUnanswered,
        ConnectionCloses, Crash
  <1>3. ASSUME NEW d \in Events, Commit(d) \/ Age(d) PROVE handled' = handled
    BY <1>3 DEF Commit, Age
  <1> QED
    BY <1>1, <1>2, <1>3 DEF Next, relayVars

\* A relay goes on to the next call of its event when this one has succeeded.
LEMMA AtStep ==
    ASSUME TypeOK, [Next]_relayVars, NEW r \in Replicas, NEW e \in Events, IsCurrent(r, e),
           pc[r] \in {"calling", "failed"}, pc'[r] = "calling"
    PROVE  /\ pc[r] = "calling"
           /\ \/ at'[r] = at[r]
              \/ /\ at[r] \in DOMAIN Calls[e] /\ at'[r] = at[r] + 1
                 /\ handled'[e][at[r]] > 0
  <1>1. ASSUME NEW q \in Replicas, RelayStep(q) \/ FaultStep(q)
        PROVE  pc[r] = "calling" /\ at'[r] = at[r]
    BY <1>1 DEF RelayStep, FaultStep, Tick, Reclaim, Fetch, Mark, UpdateToProcessing,
        RecordProcessed, RecordFailed, Unlock, QueryFails, TickUnanswered, MarkUnanswered,
        ProcessedUnanswered, ConnectionCloses, Crash, TypeOK
  <1>2. ASSUME NEW q \in Replicas, NEW d \in Events, Call(q, d), q # r
        PROVE  pc[r] = "calling" /\ at'[r] = at[r]
    BY <1>2 DEF Call, CallSucceeds, CallFails, Throws, TypeOK
  <1>3. ASSUME NEW d \in Events, Call(r, d)
        PROVE  /\ pc[r] = "calling"
               /\ at[r] \in DOMAIN Calls[e] /\ at'[r] = at[r] + 1
               /\ handled'[e][at[r]] > 0
    <2>1. pc[r] = "calling" /\ IsCurrent(r, d)
      BY <1>3 DEF Call, CallSucceeds, CallFails
    <2>2. d = e
      BY <2>1, RelayAssumption DEF IsCurrent
    <2>3. CallSucceeds(r, e)
      BY <1>3, <2>2 DEF Call, CallFails, Throws, TypeOK
    <2>4. /\ at[r] \in DOMAIN Calls[e] /\ at' = [at EXCEPT ![r] = @ + 1]
          /\ handled' = [handled EXCEPT ![e][at[r]] = @ + 1]
      BY <2>3 DEF CallSucceeds
    <2>5. handled'[e][at[r]] = handled[e][at[r]] + 1 /\ handled[e][at[r]] \in Nat
      BY <2>4, HandledOnceMore DEF TypeOK
    <2> QED
      BY <2>1, <2>4, <2>5 DEF TypeOK
  <1>4. ASSUME NEW d \in Events, Commit(d) \/ Age(d) PROVE pc' = pc /\ at' = at
    BY <1>4 DEF Commit, Age
  <1> QED
    BY <1>1, <1>2, <1>3, <1>4 DEF Next, relayVars

LEMMA CallsMadeStep ==
    ASSUME TypeOK, CallsMade, [Next]_relayVars
    PROVE  CallsMade'
  <1> SUFFICES ASSUME NEW r \in Replicas, NEW e \in Events, pc'[r] = "calling", IsCurrent(r, e)',
                      NEW c \in DOMAIN Calls[e], c < at'[r]
               PROVE  handled'[e][c] > 0
    BY DEF CallsMade
  <1>1. c \in Nat \ {0}
    BY RelayAssumption
  <1>2. IsCurrent(r, e) /\ (pc[r] \in {"calling", "failed"} \/ Mark(r))
    BY TryingStep DEF IsCurrent
  <1>3. ASSUME Mark(r) PROVE FALSE
    <2>1. UpdateToProcessing(r)
      BY <1>3 DEF Mark
    <2>2. at'[r] = 1
      BY <1>2, <1>3, <2>1, MarkStep
    <2> QED
      BY <1>1, <2>2
  <1>4. CASE at'[r] = at[r] /\ pc[r] = "calling"
    BY <1>2, <1>4, HandledStep DEF CallsMade
  <1>5. CASE at'[r] = at[r] + 1 /\ pc[r] = "calling" /\ handled'[e][at[r]] > 0
    <2>1. c < at[r] \/ c = at[r]
      <3>1. at[r] \in Nat /\ c < at[r] + 1
        BY <1>5 DEF TypeOK
      <3> QED
        BY <1>1, <3>1
    <2> QED
      BY <1>2, <1>5, <2>1, HandledStep DEF CallsMade
  <1> QED
    BY <1>2, <1>3, <1>4, <1>5, AtStep

LEMMA ProcessedStep ==
    ASSUME TypeOK, CallsMade, ProcessedWasDelivered, [Next]_relayVars
    PROVE  ProcessedWasDelivered'
  <1> SUFFICES ASSUME NEW e \in Events, status'[e] = "processed", NEW c \in DOMAIN Calls[e]
               PROVE  handled'[e][c] > 0
    BY DEF ProcessedWasDelivered
  <1>1. CASE status[e] = "processed"
    BY <1>1, HandledStep DEF ProcessedWasDelivered
  <1>2. CASE status[e] # "processed"
    <2>1. ~Commit(e)
      BY DEF Commit, TypeOK
    <2>2. PICK r \in Replicas :
            /\ IsCurrent(r, e) /\ at[r] \notin DOMAIN Calls[e]
            /\ RecordProcessed(r) \/ ProcessedUnanswered(r)
      BY <1>2, <2>1, StatusStep
    <2>3. c < at[r]
      <3>1. DOMAIN Calls[e] = 1..Len(Calls[e]) /\ Len(Calls[e]) \in Nat
        BY RelayAssumption
      <3>2. at[r] \in Nat \ {0}
        BY DEF TypeOK
      <3> QED
        BY <2>2, <3>1, <3>2
    <2>4. pc[r] = "calling"
      BY <2>2 DEF RecordProcessed, ProcessedUnanswered
    <2>5. handled[e][c] > 0
      BY <2>2, <2>3, <2>4 DEF CallsMade
    <2> QED
      BY <2>5, HandledStep
  <1> QED
    BY <1>1, <1>2

\* Only what ends its relay's attempt is no longer in doubt.
LEMMA UnsureStep ==
    ASSUME TypeOK, [Next]_relayVars, NEW e \in unsure, e \notin unsure'
    PROVE  \E r \in Replicas :
               /\ e \in todo[r] /\ e \notin todo'[r] /\ pc[r] # "idle"
               /\ RecordFailed(r) \/ QueryFails(r) \/ Crash(r)
  <1>1. ASSUME NEW r \in Replicas, RecordFailed(r) \/ QueryFails(r) \/ Crash(r)
        PROVE  e \in todo[r] /\ e \notin todo'[r] /\ pc[r] # "idle"
    BY <1>1 DEF RecordFailed, QueryFails, Crash, IsCurrent, TypeOK
  <1>2. ASSUME NEW r \in Replicas,
               \/ Tick(r) \/ Reclaim(r) \/ Fetch(r) \/ Mark(r) \/ RecordProcessed(r) \/ Unlock(r)
               \/ TickUnanswered(r) \/ MarkUnanswered(r) \/ ProcessedUnanswered(r)
               \/ ConnectionCloses(r) \/ \E d \in Events : Call(r, d)
        PROVE  FALSE
    BY <1>2 DEF Tick, Reclaim, Fetch, Mark, RecordProcessed, Unlock, TickUnanswered,
        MarkUnanswered, ProcessedUnanswered, ConnectionCloses, Call, CallSucceeds, CallFails
  <1>3. ASSUME NEW d \in Events, Commit(d) \/ Age(d) PROVE FALSE
    BY <1>3 DEF Commit, Age
  <1> QED
    BY <1>1, <1>2, <1>3 DEF Next, RelayStep, FaultStep, relayVars

\* A relay leaves the catch block with the event it is at.
LEMMA FailedStep ==
    ASSUME TypeOK, BatchIsOpen, [Next]_relayVars, NEW r \in Replicas, NEW e \in todo'[r],
           e \in todo[r], IsCurrent(r, e), pc[r] = "failed"
    PROVE  pc'[r] = "failed" /\ IsCurrent(r, e)'
  <1>1. todo'[r] = todo[r]
    <2>1. ASSUME Fetch(r) PROVE FALSE
      BY <2>1 DEF Fetch
    <2>2. ASSUME NEW f \in Events, Trying(r, f), todo'[r] = todo[r] \ {f} PROVE FALSE
      <3>1. e \in Nat /\ f \in Nat /\ e <= f /\ f <= e
        BY <2>2, RelayAssumption DEF Trying, IsCurrent, TypeOK
      <3> QED
        BY <2>2, <3>1
    <2> QED
      BY <2>1, <2>2, BatchStep
  <1>2. ASSUME NEW q \in Replicas, q # r, RelayStep(q) \/ FaultStep(q) \/ \E d \in Events : Call(q, d)
        PROVE  pc'[r] = pc[r]
    BY <1>2 DEF RelayStep, FaultStep, Tick, Reclaim, Fetch, Mark, RecordProcessed, RecordFailed,
        Unlock, QueryFails, TickUnanswered, MarkUnanswered, ProcessedUnanswered,
        ConnectionCloses, Crash, Call, CallSucceeds, CallFails, Throws, TypeOK
  <1>3. ASSUME RelayStep(r) \/ FaultStep(r), pc'[r] # "failed" PROVE FALSE
    <2>1. CASE RelayStep(r)
      BY <1>1, <2>1 DEF RelayStep, Tick, TakeLock, Reclaim, Fetch, Mark, UpdateToProcessing,
         RecordProcessed, RecordFailed, IsCurrent, Unlock, TypeOK
    <2>2. CASE FaultStep(r)
      BY <1>1, <1>3, <2>2 DEF FaultStep, QueryFails, TickUnanswered, TakeLock, MarkUnanswered,
         UpdateToProcessing, ProcessedUnanswered, ConnectionCloses, Crash, TypeOK
    <2> QED
      BY <1>3, <2>1, <2>2
  <1>4. ASSUME NEW d \in Events, Call(r, d) PROVE FALSE
    BY <1>4 DEF Call, CallSucceeds, CallFails
  <1>5. ASSUME NEW d \in Events, Commit(d) \/ Age(d) PROVE pc' = pc
    BY <1>5 DEF Commit, Age
  <1>6. pc'[r] = "failed"
    BY <1>2, <1>3, <1>4, <1>5 DEF Next, relayVars
  <1> QED
    BY <1>1, <1>6 DEF IsCurrent

LEMMA BatchIsUnsettledStep ==
    ASSUME TypeOK, BatchIsOpen, OneRelayAtATime, BatchIsUnsettled, [Next]_relayVars
    PROVE  BatchIsUnsettled'
  <1> SUFFICES ASSUME ~lockLost', NEW r \in Replicas, NEW e \in todo'[r], status'[e] \in Settled
               PROVE  e \in unsure' /\ pc'[r] = "failed" /\ IsCurrent(r, e)'
    BY DEF BatchIsUnsettled
  <1>1. ~lockLost
    <2>1. ASSUME NEW q \in Replicas, RelayStep(q) \/ FaultStep(q) \/ \E d \in Events : Call(q, d)
          PROVE  lockLost => lockLost'
      BY <2>1 DEF RelayStep, FaultStep, Tick, Reclaim, Fetch, Mark, RecordProcessed, RecordFailed,
          Unlock, QueryFails, TickUnanswered, MarkUnanswered, ProcessedUnanswered,
          ConnectionCloses, Crash, Call, CallSucceeds, CallFails
    <2>2. ASSUME NEW d \in Events, Commit(d) \/ Age(d) PROVE lockLost => lockLost'
      BY <2>2 DEF Commit, Age
    <2> QED
      BY <2>1, <2>2 DEF Next, relayVars
  <1>2. CASE IsBatch(todo'[r]) /\ UNCHANGED status
    BY <1>2 DEF IsBatch, Pending, Settled
  <1>3. CASE e \in todo[r]
    <2>1. e \in Events /\ pc[r] # "idle"
      BY <1>3 DEF TypeOK, BatchIsOpen
    <2>2. ASSUME NEW q \in Replicas, pc[q] # "idle" PROVE q = r
      BY <1>1, <2>1, <2>2 DEF OneRelayAtATime
    <2>3. CASE status'[e] = status[e]
      <3>1. e \in unsure /\ pc[r] = "failed" /\ IsCurrent(r, e)
        BY <1>1, <1>3, <2>3 DEF BatchIsUnsettled
      <3>2. e \in unsure'
        BY <2>2, <3>1, UnsureStep
      <3> QED
        BY <1>3, <3>1, <3>2, FailedStep
    <2>4. CASE status'[e] # status[e]
      <3>1. ASSUME NEW q \in Replicas, IsCurrent(q, e), RecordProcessed(q) \/ RecordFailed(q)
            PROVE  FALSE
        <4>1. q = r
          BY <2>2, <3>1 DEF RecordProcessed, RecordFailed
        <4>2. PICK d \in Events : IsCurrent(r, d) /\ todo'[r] = todo[r] \ {d}
          BY <3>1, <4>1 DEF RecordProcessed, RecordFailed, TypeOK
        <4>3. d = e
          BY <2>1, <3>1, <4>1, <4>2, RelayAssumption DEF IsCurrent
        <4> QED
          BY <4>2, <4>3
      <3>2. ASSUME NEW q \in Replicas, IsCurrent(q, e), ProcessedUnanswered(q), e \in unsure'
            PROVE  e \in unsure' /\ pc'[r] = "failed" /\ IsCurrent(r, e)'
        BY <2>2, <3>2 DEF ProcessedUnanswered, IsCurrent, TypeOK
      <3>3. status'[e] \notin {"pending", "processing"} /\ ~Commit(e)
        BY <2>1 DEF Settled, Commit, TypeOK
      <3> QED
        BY <2>1, <2>4, <3>1, <3>2, <3>3, StatusStep
    <2> QED
      BY <2>3, <2>4
  <1> QED
    BY <1>2, <1>3, BatchStep

-----------------------------------------------------------------------------
(* The theorems. *)

\* The inductive invariant of a relay holds in every state: what OutboxRelay
\* reaches, whatever crashes, fails or is repeated.
THEOREM IInvHolds == Spec => []IInv
  <1>1. ASSUME IInv, [Next]_relayVars PROVE IInv'
    <2>1. TypeOK' /\ BatchIsOpen' /\ CommitOrder' /\ Tried'
      BY <1>1, TypeStep, BatchIsOpenStep, CommitOrderStep, TriedStep DEF IInv
    <2>2. LockHeld' /\ OneRelayAtATime'
      BY <1>1, LockHeldStep DEF IInv, LockHeld, OneRelayAtATime
    <2>3. CallsMade' /\ ProcessedWasDelivered'
      BY <1>1, CallsMadeStep, ProcessedStep DEF IInv
    <2>4. BatchOrder' /\ FirstAttemptsInOrder'
      BY <1>1, BatchOrderStep, FirstAttemptsInOrderStep DEF IInv
    <2>5. BatchIsUnsettled'
      BY <1>1, BatchIsUnsettledStep DEF IInv
    <2> QED
      BY <2>1, <2>2, <2>3, <2>4, <2>5 DEF IInv
  <1> QED
    BY InitIInv, <1>1, PTL DEF Spec

\* The state of the relays and of outbox_events has its types.
THEOREM RelayTypeOK == Spec => []TypeOK
  BY IInvHolds, PTL DEF IInv

\* At-least-once delivery: processEvent marks an event as processed only after
\* dispatch has returned, and no replica, crash or reclaim does it for it.
THEOREM AtLeastOnce == Spec => []ProcessedWasDelivered
  BY IInvHolds, PTL DEF IInv

\* pg_try_advisory_lock lets one replica into a tick, for every pool, as long as
\* no pool closes the connection of a tick that goes on.
THEOREM OneRelay == Spec => []OneRelayAtATime
  BY IInvHolds, PTL DEF IInv

\* fetchPendingEvents keeps the first attempts of an auction's events in order.
THEOREM FirstAttempts == Spec => []FirstAttemptsInOrder
  BY IInvHolds, PTL DEF IInv

\* Nothing that is processed or dead is taken up again while the lock holds, but
\* what processEvent's catch block takes for failed because an answer was lost.
THEOREM SettledStays == Spec => SettledStaysSettled
  <1>1. ASSUME IInv, [Next]_relayVars
        PROVE  [~lockLost => \A e \in Events \ unsure :
                   status[e] \in Settled => status'[e] = status[e]]_relayVars
    <2> SUFFICES ASSUME ~lockLost, NEW e \in Events \ unsure, status[e] \in Settled,
                        status'[e] # status[e]
                 PROVE  FALSE
      OBVIOUS
    <2>1. ASSUME NEW r \in Replicas, IsCurrent(r, e) PROVE FALSE
      BY <1>1, <2>1 DEF IInv, BatchIsUnsettled, IsCurrent
    <2>2. ~Commit(e) /\ status[e] # "processing"
      BY DEF Settled, Commit
    <2> QED
      BY <1>1, <2>1, <2>2, StatusStep DEF IInv
  <1> QED
    BY <1>1, IInvHolds, PTL DEF Spec, SettledStaysSettled

-----------------------------------------------------------------------------
(* How often an event is repeated. *)

InBound(e) == attempts[e] <= MaxAttempts + faults

\* An event that may be tried again has an attempt left: it was given back after
\* too few of them, or a fault has raised the bound.
AttemptLeft(e) ==
    (\A r \in Replicas : ~Trying(r, e)) /\ status[e] \notin Settled
        => attempts[e] < MaxAttempts + faults

\* Mark writes the attempts it read plus one; nobody else has counted meanwhile.
Counted(e) ==
    \A r \in Replicas : e \in todo[r] =>
        attempts[e] = IF Trying(r, e) THEN seen[r][e] + 1 ELSE seen[r][e]

\* The call a relay is at, and the later ones, are yet to be made this time.
CallsCounted(e) ==
    \A c \in DOMAIN Calls[e] :
        /\ handled[e][c] <= attempts[e]
        /\ \A r \in Replicas : pc[r] = "calling" /\ IsCurrent(r, e) /\ at[r] <= c
              => handled[e][c] < attempts[e]

Repetition(e) == InBound(e) /\ AttemptLeft(e) /\ Counted(e) /\ CallsCounted(e)

RepetitionInv == ~lockLost => \A e \in Events : Repetition(e)

\* The relay that is at an event is at one, and no other relay is.
LEMMA OneIsTried ==
    ASSUME IInv, ~lockLost, NEW r \in Replicas, pc[r] # "idle"
    PROVE  /\ \A q \in Replicas : q # r => todo[q] = {} /\ pc[q] = "idle"
           /\ \A d, e \in Events : IsCurrent(r, d) /\ IsCurrent(r, e) => d = e
  <1>1. \A q \in Replicas : q # r => pc[q] = "idle"
    BY DEF IInv, OneRelayAtATime
  <1>2. \A d, e \in Events : IsCurrent(r, d) /\ IsCurrent(r, e) => d = e
    BY RelayAssumption DEF IsCurrent
  <1> QED
    BY <1>1, <1>2 DEF IInv, BatchIsOpen

\* Steps that neither try an event nor touch a batch.
LEMMA QuietStep ==
    ASSUME TypeOK, NEW e \in Events, Repetition(e), UNCHANGED <<attempts, handled, todo>>,
           faults' \in {faults, faults + 1},
           \A r \in Replicas : \/ todo[r] = {}
                               \/ pc'[r] = pc[r] /\ seen'[r] = seen[r] /\ at'[r] = at[r],
           status'[e] \notin Settled => status[e] \notin Settled
    PROVE  Repetition(e)'
  <1>1. \A r \in Replicas : /\ IsCurrent(r, e)' <=> IsCurrent(r, e)
                            /\ Trying(r, e)' <=> Trying(r, e)
    BY DEF Trying, IsCurrent
  <1>2. InBound(e)' /\ AttemptLeft(e)'
    <2>1. attempts[e] \in Nat /\ faults \in Nat /\ MaxAttempts \in Nat
      BY RelayAssumption DEF TypeOK
    <2> QED
      BY <1>1, <2>1 DEF Repetition, InBound, AttemptLeft
  <1>3. Counted(e)'
    BY <1>1 DEF Repetition, Counted
  <1>4. CallsCounted(e)'
    BY <1>1 DEF Repetition, CallsCounted, IsCurrent
  <1> QED
    BY <1>2, <1>3, <1>4 DEF Repetition

\* A relay drops its batch, by a fault.
LEMMA DropStep ==
    ASSUME TypeOK, NEW e \in Events, Repetition(e), NEW r \in Replicas,
           UNCHANGED <<attempts, handled, status>>, faults' = faults + 1, todo'[r] = {},
           \A q \in Replicas : q # r => todo[q] = {} /\ todo'[q] = {}
    PROVE  Repetition(e)'
  <1>1. \A q \in Replicas : ~IsCurrent(q, e)' /\ ~Trying(q, e)' /\ e \notin todo'[q]
    BY DEF IsCurrent, Trying
  <1>2. attempts[e] \in Nat /\ faults \in Nat /\ MaxAttempts \in Nat
    BY RelayAssumption DEF TypeOK
  <1>3. InBound(e)' /\ AttemptLeft(e)'
    BY <1>2 DEF Repetition, InBound, AttemptLeft
  <1>4. Counted(e)'
    BY <1>1 DEF Counted
  <1>5. CallsCounted(e)'
    BY <1>1 DEF Repetition, CallsCounted
  <1> QED
    BY <1>3, <1>4, <1>5 DEF Repetition

\* A relay fetches events that nobody has in a batch.
LEMMA FetchRepetition ==
    ASSUME IInv, ~lockLost, NEW e \in Events, Repetition(e), NEW r \in Replicas, Fetch(r)
    PROVE  Repetition(e)'
  <1>1. pc[r] = "fetching" /\ UNCHANGED <<status, attempts, handled, at, faults>>
        /\ pc' = [pc EXCEPT ![r] = "next"]
    BY DEF Fetch
  <1>2. PICK B \in SUBSET Events :
          /\ todo' = [todo EXCEPT ![r] = B]
          /\ seen' = [seen EXCEPT ![r] = [d \in Events |-> IF d \in B THEN attempts[d] ELSE 0]]
    BY DEF Fetch
  <1>3. \A q \in Replicas : ~Trying(q, e) /\ ~Trying(q, e)'
    BY <1>1, <1>2, OneIsTried DEF Trying, IInv, TypeOK
  <1>4. InBound(e)' /\ AttemptLeft(e)'
    BY <1>1, <1>3 DEF Repetition, InBound, AttemptLeft
  <1>5. Counted(e)'
    <2> SUFFICES ASSUME NEW q \in Replicas, e \in todo'[q] PROVE attempts'[e] = seen'[q][e]
      BY <1>3 DEF Counted
    <2>1. q = r /\ e \in B
      BY <1>1, <1>2, OneIsTried DEF IInv, TypeOK
    <2> QED
      BY <1>1, <1>2, <2>1 DEF IInv, TypeOK
  <1>6. CallsCounted(e)'
    BY <1>1, <1>3 DEF Repetition, CallsCounted, Trying
  <1> QED
    BY <1>4, <1>5, <1>6 DEF Repetition

\* Mark uses up an attempt of the event it marks.
LEMMA MarkRepetition ==
    ASSUME IInv, ~lockLost, NEW e \in Events, Repetition(e), NEW r \in Replicas, Mark(r)
    PROVE  Repetition(e)'
  <1>1. /\ UpdateToProcessing(r)
        /\ \E d \in Events : IsCurrent(r, d)
    BY DEF Mark, UpdateToProcessing
  <1> PICK d \in Events : IsCurrent(r, d)
    BY <1>1
  <1>2. /\ attempts' = [attempts EXCEPT ![d] = NewAttempts(r, d)]
        /\ status' = [status EXCEPT ![d] = "processing"]
        /\ at'[r] = 1 /\ pc'[r] = "calling"
    BY <1>1, MarkStep DEF IInv
  <1>3. pc[r] = "next" /\ UNCHANGED <<handled, todo, seen, faults>>
        /\ \A q \in Replicas : q # r => pc'[q] = pc[q]
    BY DEF Mark, UpdateToProcessing, IInv, TypeOK
  <1>4. /\ \A q \in Replicas : q # r => todo[q] = {} /\ pc[q] = "idle"
        /\ IsCurrent(r, e) => e = d
    BY <1>1, <1>3, OneIsTried
  <1>5. /\ \A q \in Replicas : ~Trying(q, e)
        /\ \A q \in Replicas : q # r => ~Trying(q, e)' /\ ~IsCurrent(q, e)'
        /\ IsCurrent(r, e)' <=> e = d
    BY <1>1, <1>3, <1>4 DEF Trying, IsCurrent
  <1>6. attempts[e] \in Nat /\ faults \in Nat /\ MaxAttempts \in Nat \ {0}
        /\ \A c \in DOMAIN Calls[e] : handled[e][c] \in Nat /\ c \in Nat \ {0}
    BY RelayAssumption DEF IInv, TypeOK
  <1>7. CASE e = d
    <2>1. e \in todo[r] /\ status[e] \notin Settled
      BY <1>3, <1>7 DEF IsCurrent, IInv, BatchIsUnsettled
    <2>2. attempts[e] = seen[r][e] /\ attempts[e] < MaxAttempts + faults
      BY <1>5, <2>1 DEF Repetition, Counted, AttemptLeft
    <2>3. attempts'[e] = attempts[e] + 1
      BY <1>2, <1>7, <2>2 DEF NewAttempts, IInv, TypeOK
    <2>4. Trying(r, e)'
      BY <1>2, <1>5, <1>7 DEF Trying
    <2>5. InBound(e)' /\ AttemptLeft(e)'
      BY <1>3, <1>6, <2>2, <2>3, <2>4 DEF InBound, AttemptLeft
    <2>6. Counted(e)'
      BY <1>3, <1>4, <2>2, <2>3, <2>4 DEF Counted
    <2>7. CallsCounted(e)'
      <3>1. \A c \in DOMAIN Calls[e] : handled'[e][c] < attempts'[e]
        BY <1>3, <1>6, <2>3 DEF Repetition, CallsCounted
      <3> QED
        BY <1>3, <1>6, <2>3, <3>1 DEF CallsCounted
    <2> QED
      BY <2>5, <2>6, <2>7 DEF Repetition
  <1>8. CASE e # d
    <2>1. attempts'[e] = attempts[e] /\ status'[e] = status[e]
      BY <1>2, <1>8 DEF IInv, TypeOK
    <2>2. \A q \in Replicas : ~Trying(q, e)' /\ ~IsCurrent(q, e)'
      BY <1>5, <1>8 DEF Trying
    <2>3. InBound(e)' /\ AttemptLeft(e)'
      BY <1>3, <1>5, <2>1 DEF Repetition, InBound, AttemptLeft
    <2>4. Counted(e)'
      BY <1>3, <1>5, <2>1, <2>2 DEF Repetition, Counted
    <2>5. CallsCounted(e)'
      BY <1>3, <2>1, <2>2 DEF Repetition, CallsCounted
    <2> QED
      BY <2>3, <2>4, <2>5 DEF Repetition
  <1> QED
    BY <1>7, <1>8

\* A call takes effect at most once an attempt.
LEMMA CallRepetition ==
    ASSUME IInv, ~lockLost, NEW e \in Events, Repetition(e),
           NEW r \in Replicas, NEW d \in Events, Call(r, d)
    PROVE  Repetition(e)'
  <1>1. /\ pc[r] = "calling" /\ IsCurrent(r, d) /\ at[r] \in DOMAIN Calls[d]
        /\ UNCHANGED <<status, attempts, todo, seen, faults>>
        /\ \/ handled' = handled
           \/ handled' = [handled EXCEPT ![d][at[r]] = @ + 1]
        /\ \/ pc' = pc /\ at' = [at EXCEPT ![r] = @ + 1]
           \/ pc' = [pc EXCEPT ![r] = "failed"] /\ at' = at
    BY DEF Call, CallSucceeds, CallFails, Throws
  <1>2. /\ \A q \in Replicas : q # r => todo[q] = {}
        /\ IsCurrent(r, e) => e = d
    BY <1>1, OneIsTried
  <1>3. /\ \A q \in Replicas : IsCurrent(q, e)' <=> IsCurrent(q, e)
        /\ \A q \in Replicas : q # r => ~IsCurrent(q, e)
    BY <1>1, <1>2 DEF IsCurrent
  <1>4. \A q \in Replicas : Trying(q, e)' <=> Trying(q, e)
    BY <1>1, <1>3 DEF Trying, IInv, TypeOK
  <1>5. InBound(e)' /\ AttemptLeft(e)'
    BY <1>1, <1>4 DEF Repetition, InBound, AttemptLeft
  <1>6. Counted(e)'
    BY <1>1, <1>4 DEF Repetition, Counted
  <1>7. CallsCounted(e)'
    <2> SUFFICES ASSUME NEW c \in DOMAIN Calls[e]
                 PROVE  /\ handled'[e][c] <= attempts[e]
                        /\ pc'[r] = "calling" /\ IsCurrent(r, e) /\ at'[r] <= c
                              => handled'[e][c] < attempts[e]
      BY <1>1, <1>3 DEF CallsCounted
    <2>1. handled[e][c] \in Nat /\ attempts[e] \in Nat /\ at[r] \in Nat /\ c \in Nat
      BY RelayAssumption DEF IInv, TypeOK
    <2>2. CASE e = d /\ c = at[r]
      <3>1. handled[e][c] < attempts[e]
        BY <1>1, <2>1, <2>2 DEF Repetition, CallsCounted
      <3>2. handled'[e][c] \in {handled[e][c], handled[e][c] + 1}
        BY <1>1, <2>2, HandledOnceMore DEF IInv
      <3>3. pc'[r] = "calling" => at'[r] = at[r] + 1
        BY <1>1 DEF IInv, TypeOK
      <3>4. ~(pc'[r] = "calling" /\ at'[r] <= c)
        BY <2>1, <2>2, <3>3
      <3>5. handled'[e][c] <= attempts[e]
        BY <2>1, <3>1, <3>2
      <3> QED
        BY <3>4, <3>5
    <2>3. CASE ~(e = d /\ c = at[r])
      <3>1. handled'[e][c] = handled[e][c]
        BY <1>1, <2>3, HandledOnceMore DEF IInv
      <3>2. pc'[r] = "calling" /\ at'[r] <= c => pc[r] = "calling" /\ at[r] <= c
        BY <1>1, <2>1 DEF IInv, TypeOK
      <3> QED
        BY <3>1, <3>2 DEF Repetition, CallsCounted
    <2> QED
      BY <2>2, <2>3
  <1> QED
    BY <1>5, <1>6, <1>7 DEF Repetition

\* An event that is given back has attempts left.
LEMMA RecordRepetition ==
    ASSUME IInv, ~lockLost, NEW e \in Events, Repetition(e), NEW r \in Replicas,
           RecordProcessed(r) \/ RecordFailed(r)
    PROVE  Repetition(e)'
  <1>1. /\ pc[r] \in {"calling", "failed"} /\ pc' = [pc EXCEPT ![r] = "next"]
        /\ UNCHANGED <<attempts, handled, seen, at, faults>>
    BY DEF RecordProcessed, RecordFailed
  <1>2. PICK d \in Events :
          /\ IsCurrent(r, d) /\ todo' = [todo EXCEPT ![r] = @ \ {d}]
          /\ status' = [status EXCEPT ![d] = "processed"]
             \/ status' = [status EXCEPT ![d] = FailedStatus(r, d)]
    BY DEF RecordProcessed, RecordFailed
  <1>3. /\ \A q \in Replicas : q # r => todo[q] = {} /\ pc[q] = "idle"
        /\ IsCurrent(r, e) => e = d
    BY <1>1, <1>2, OneIsTried
  <1>4. /\ \A q \in Replicas : q # r => todo'[q] = {} /\ pc'[q] = "idle"
        /\ pc'[r] = "next" /\ todo'[r] = todo[r] \ {d}
    BY <1>1, <1>2, <1>3 DEF IInv, TypeOK
  <1>5. \A q \in Replicas : ~Trying(q, e)' /\ pc'[q] # "calling"
    BY <1>4 DEF Trying
  <1>6. InBound(e)' /\ CallsCounted(e)'
    BY <1>1, <1>5 DEF Repetition, InBound, CallsCounted
  <1>7. attempts[e] \in Nat /\ faults \in Nat /\ MaxAttempts \in Nat \ {0}
    BY RelayAssumption DEF IInv, TypeOK
  <1>8. CASE e = d
    <2>1. Trying(r, e) /\ e \in todo[r]
      BY <1>1, <1>2, <1>8 DEF Trying, IsCurrent
    <2>2. attempts[e] = NewAttempts(r, e)
      BY <2>1 DEF Repetition, Counted, NewAttempts
    <2>3. status'[e] \in Settled \/ attempts[e] < MaxAttempts
      BY <1>2, <1>7, <1>8, <2>2 DEF FailedStatus, Settled, IInv, TypeOK
    <2>4. AttemptLeft(e)'
      BY <1>1, <1>7, <2>3 DEF AttemptLeft
    <2>5. Counted(e)'
      BY <1>3, <1>4, <1>8 DEF Counted
    <2> QED
      BY <1>6, <2>4, <2>5 DEF Repetition
  <1>9. CASE e # d
    <2>1. \A q \in Replicas : ~Trying(q, e)
      BY <1>3, <1>9 DEF Trying, IsCurrent
    <2>2. status'[e] = status[e]
      BY <1>2, <1>9 DEF IInv, TypeOK
    <2>3. AttemptLeft(e)'
      BY <1>1, <2>1, <2>2 DEF Repetition, AttemptLeft
    <2>4. Counted(e)'
      BY <1>1, <1>3, <1>4, <1>5, <2>1 DEF Repetition, Counted
    <2> QED
      BY <1>6, <2>3, <2>4 DEF Repetition
  <1> QED
    BY <1>8, <1>9

LEMMA FaultRepetition ==
    ASSUME IInv, ~lockLost, ~lockLost', NEW e \in Events, Repetition(e), NEW r \in Replicas,
           FaultStep(r)
    PROVE  Repetition(e)'
  <1> DEFINE CatchesFault ==
        /\ pc[r] = "calling" /\ pc' = [pc EXCEPT ![r] = "failed"]
        /\ faults' = faults + 1 /\ UNCHANGED <<attempts, handled, todo, seen, at>>
        /\ status'[e] \notin Settled => status[e] \notin Settled
  <1>1. CASE CatchesFault
    <2>1. \A q \in Replicas : IsCurrent(q, e)' <=> IsCurrent(q, e)
      BY <1>1 DEF IsCurrent
    <2>2. \A q \in Replicas : /\ Trying(q, e)' <=> Trying(q, e)
                              /\ pc'[q] = "calling" => pc[q] = "calling"
      BY <1>1, <2>1 DEF Trying, IInv, TypeOK
    <2>3. attempts[e] \in Nat /\ faults \in Nat /\ MaxAttempts \in Nat
      BY RelayAssumption DEF IInv, TypeOK
    <2>4. InBound(e)' /\ AttemptLeft(e)'
      BY <1>1, <2>2, <2>3 DEF Repetition, InBound, AttemptLeft
    <2>5. Counted(e)'
      BY <1>1, <2>2 DEF Repetition, Counted
    <2>6. CallsCounted(e)'
      BY <1>1, <2>1, <2>2 DEF Repetition, CallsCounted
    <2> QED
      BY <2>4, <2>5, <2>6 DEF Repetition
  <1>2. CASE QueryFails(r)
    <2>1. /\ pc[r] # "idle" /\ faults' = faults + 1
          /\ UNCHANGED <<status, attempts, handled, seen, at>>
      BY <1>2 DEF QueryFails, Fault
    <2>2. CatchesFault \/ todo' = [todo EXCEPT ![r] = {}]
      BY <1>2, <2>1 DEF QueryFails
    <2>3. ASSUME todo' = [todo EXCEPT ![r] = {}] PROVE Repetition(e)'
      <3>1. todo'[r] = {} /\ \A q \in Replicas : q # r => todo[q] = {} /\ todo'[q] = {}
        BY <2>1, <2>3, OneIsTried DEF IInv, TypeOK
      <3> QED
        BY <2>1, <3>1, DropStep DEF IInv
    <2> QED
      BY <1>1, <2>2, <2>3
  <1>3. CASE Crash(r)
    <2>1. /\ pc[r] # "idle" /\ faults' = faults + 1 /\ todo' = [todo EXCEPT ![r] = {}]
          /\ UNCHANGED <<status, attempts, handled>>
      BY <1>3 DEF Crash, Fault
    <2>2. todo'[r] = {} /\ \A q \in Replicas : q # r => todo[q] = {} /\ todo'[q] = {}
      BY <2>1, OneIsTried DEF IInv, TypeOK
    <2> QED
      BY <2>1, <2>2, DropStep DEF IInv
  <1>4. CASE ConnectionCloses(r)
    <2>1. UNCHANGED <<status, attempts, handled, faults, pc, todo, seen, at>>
      BY <1>4 DEF ConnectionCloses
    <2> QED
      BY <2>1, QuietStep DEF IInv
  <1>5. CASE TickUnanswered(r)
    <2>1. UNCHANGED <<status, attempts, handled, pc, todo, seen, at>> /\ faults' = faults + 1
      BY <1>5 DEF TickUnanswered, Fault
    <2> QED
      BY <2>1, QuietStep DEF IInv
  <1>6. CASE MarkUnanswered(r)
    <2>1. /\ pc[r] = "next" /\ faults' = faults + 1 /\ UNCHANGED handled
          /\ todo' = [todo EXCEPT ![r] = {}]
          /\ UpdateToProcessing(r) /\ \E d \in Events : IsCurrent(r, d)
      BY <1>6 DEF MarkUnanswered, UpdateToProcessing, Fault
    <2> PICK d \in Events : IsCurrent(r, d)
      BY <2>1
    <2>2. /\ attempts' = [attempts EXCEPT ![d] = NewAttempts(r, d)]
          /\ status' = [status EXCEPT ![d] = "processing"]
      BY <2>1, MarkStep DEF IInv
    <2>3. /\ \A q \in Replicas : q # r => todo[q] = {} /\ pc[q] = "idle"
          /\ \A q \in Replicas : todo'[q] = {}
      BY <2>1, OneIsTried DEF IInv, TypeOK
    <2>4. \A q \in Replicas : ~Trying(q, e) /\ ~Trying(q, e)' /\ ~IsCurrent(q, e)' /\ e \notin todo'[q]
      BY <2>1, <2>3 DEF Trying, IsCurrent
    <2>5. attempts[e] \in Nat /\ faults \in Nat /\ MaxAttempts \in Nat \ {0}
          /\ \A c \in DOMAIN Calls[e] : handled[e][c] \in Nat
      BY RelayAssumption DEF IInv, TypeOK
    <2>6. ASSUME e = d
          PROVE  attempts'[e] = attempts[e] + 1 /\ attempts[e] < MaxAttempts + faults
      <3>1. e \in todo[r] /\ status[e] \notin Settled
        BY <2>1, <2>6 DEF IsCurrent, IInv, BatchIsUnsettled
      <3>2. attempts[e] = seen[r][e] /\ attempts[e] < MaxAttempts + faults
        BY <2>4, <3>1 DEF Repetition, Counted, AttemptLeft
      <3> QED
        BY <2>2, <2>6, <3>2 DEF NewAttempts, IInv, TypeOK
    <2>7. e # d => attempts'[e] = attempts[e] /\ status'[e] = status[e]
      BY <2>2 DEF IInv, TypeOK
    <2>8. InBound(e)' /\ AttemptLeft(e)'
      BY <2>1, <2>4, <2>5, <2>6, <2>7 DEF Repetition, InBound, AttemptLeft
    <2>9. Counted(e)'
      BY <2>4 DEF Counted
    <2>10. CallsCounted(e)'
      <3>1. attempts'[e] >= attempts[e] /\ attempts'[e] \in Nat
        BY <2>5, <2>6, <2>7
      <3>2. \A c \in DOMAIN Calls[e] : handled'[e][c] <= attempts'[e]
        BY <2>1, <2>5, <3>1 DEF Repetition, CallsCounted
      <3> QED
        BY <2>4, <3>2 DEF CallsCounted
    <2> QED
      BY <2>8, <2>9, <2>10 DEF Repetition
  <1>7. CASE ProcessedUnanswered(r)
    <2>1. CatchesFault
      BY <1>7 DEF ProcessedUnanswered, Fault, Settled, IInv, TypeOK
    <2> QED
      BY <1>1, <2>1
  <1> QED
    BY <1>2, <1>3, <1>4, <1>5, <1>6, <1>7 DEF FaultStep

\* An event is tried at most max_attempts times and once more for every fault,
\* and a consumer sees it at most once an attempt, while the lock holds.
THEOREM RepetitionBounded == Spec => []RepetitionIsBounded
  <1>1. Init => RepetitionInv
    <2> SUFFICES ASSUME Init, NEW e \in Events PROVE Repetition(e)
      BY DEF RepetitionInv
    <2>1. /\ attempts[e] = 0 /\ faults = 0 /\ MaxAttempts \in Nat \ {0}
          /\ \A c \in DOMAIN Calls[e] : handled[e][c] = 0
          /\ \A r \in Replicas : todo[r] = {} /\ pc[r] = "idle"
      BY RelayAssumption DEF Init
    <2> QED
      BY <2>1 DEF Repetition, InBound, AttemptLeft, Counted, CallsCounted
  <1>2. ASSUME IInv, RepetitionInv, [Next]_relayVars PROVE RepetitionInv'
    <2> SUFFICES ASSUME ~lockLost', NEW e \in Events PROVE Repetition(e)'
      BY DEF RepetitionInv
    <2>1. ~lockLost
      BY <1>2 DEF Next, RelayStep, FaultStep, Commit, Age, Tick, Reclaim, Fetch, Mark,
         RecordProcessed, RecordFailed, Unlock, QueryFails, TickUnanswered, MarkUnanswered,
         ProcessedUnanswered, ConnectionCloses, Crash, Call, CallSucceeds, CallFails, relayVars
    <2>2. Repetition(e)
      BY <1>2, <2>1 DEF RepetitionInv
    <2>3. ASSUME NEW d \in Events, Commit(d) \/ Age(d) PROVE Repetition(e)'
      <3>1. UNCHANGED <<attempts, handled, faults, pc, todo, seen, at>>
        BY <2>3 DEF Commit, Age
      <3>2. status'[e] \notin Settled => status[e] \notin Settled
        BY <1>2, <2>3 DEF Commit, Age, Settled, IInv, TypeOK
      <3>3. TypeOK /\ faults' \in {faults, faults + 1}
        BY <1>2, <3>1 DEF IInv
      <3>4. \A r \in Replicas : pc'[r] = pc[r] /\ seen'[r] = seen[r] /\ at'[r] = at[r]
        BY <3>1
      <3> QED
        BY <2>2, <3>1, <3>2, <3>3, <3>4, QuietStep
    <2>4. ASSUME NEW r \in Replicas, Tick(r) \/ Reclaim(r) \/ Unlock(r) PROVE Repetition(e)'
      <3>1. todo[r] = {} /\ UNCHANGED <<attempts, handled, faults, todo>>
        BY <1>2, <2>4 DEF Tick, TakeLock, Reclaim, Unlock, IInv, BatchIsOpen
      <3>2. \A q \in Replicas : q # r =>
              pc'[q] = pc[q] /\ seen'[q] = seen[q] /\ at'[q] = at[q]
        BY <1>2, <2>4 DEF Tick, Reclaim, Unlock, IInv, TypeOK
      <3>3. status'[e] \notin Settled => status[e] \notin Settled
        BY <1>2, <2>4 DEF Tick, Reclaim, Reclaimed, Unlock, Settled, IInv, TypeOK
      <3> QED
        BY <1>2, <2>2, <3>1, <3>2, <3>3, QuietStep DEF IInv
    <2>5. CASE UNCHANGED relayVars
      BY <1>2, <2>2, <2>5, QuietStep DEF relayVars, IInv
    <2> QED
      BY <1>2, <2>1, <2>2, <2>3, <2>4, <2>5, FetchRepetition, MarkRepetition,
         RecordRepetition, CallRepetition, FaultRepetition DEF Next, RelayStep
  <1>3. RepetitionInv => RepetitionIsBounded
    BY DEF RepetitionInv, Repetition, InBound, CallsCounted, RepetitionIsBounded
  <1> QED
    BY <1>1, <1>2, <1>3, IInvHolds, PTL DEF Spec

=============================================================================
