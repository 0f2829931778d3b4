----------------------------- MODULE OutboxRelay -----------------------------
(***************************************************************************)
(* The transactional outbox of one auction and the OutboxRelayWorker of    *)
(* every replica.  A relay takes a PostgreSQL advisory lock, puts back     *)
(* what a dead relay left in processing, fetches a batch of pending        *)
(* events and makes the consumers' calls for each of them.                 *)
(*                                                                         *)
(* The lock belongs to the database session that took it.  A relay asks    *)
(* for it, and gives it back, on whichever connection its pool hands out:  *)
(* the unlock may run on another one and leave the lock where it is, and   *)
(* a connection that the pool closes takes the lock with it.               *)
(***************************************************************************)
EXTENDS Integers, Sequences, FiniteSets

CONSTANTS
    Events,       \* the events of the auction, by their sequence
    Calls,        \* what dispatch calls for each event, in order
    Replicas,     \* OutboxRelayWorker instances
    Connections,  \* the connections in a replica's pool
    None,         \* nobody holds the lock
    BatchSize,    \* OUTBOX_BATCH_SIZE
    MaxAttempts,  \* max_attempts
    LockDepth,    \* bound: times the model counts a session taking the lock
    MaxFaults     \* bound: crashes, failed queries, lost answers and lost locks

ASSUME RelayAssumption ==
    /\ Events \subseteq Nat /\ IsFiniteSet(Events)
    /\ \A e \in Events : Calls[e] \in Seq(STRING)
    /\ BatchSize \in Nat \ {0} /\ MaxAttempts \in Nat \ {0}
    /\ LockDepth \in Nat \ {0} /\ MaxFaults \in Nat

Lock == [by : Replicas, on : Connections, depth : 1..LockDepth]

ASSUME NoLockAssumption == None \notin Lock

VARIABLES
    status,    \* of each event; "unwritten" until its transaction commits
    attempts,  \* attempts column
    stale,     \* the events whose last_attempt_at is over 30 seconds old
    handled,   \* how often each call of each event has taken effect
    lock,      \* the session lock ADVISORY_LOCK_ID, or None
    pc,        \* where each relay is in tick
    todo,      \* the events of its batch a relay has not finished
    seen,      \* attempts in the entities a relay fetched
    at,        \* the call a relay is at
    faults,    \* crashes, failed queries, lost answers and lost locks so far
    lockLost,  \* a connection was closed while the tick it locked for went on
    unsure     \* history: the processed events whose relay was told otherwise

relayVars == <<status, attempts, stale, handled, lock, pc, todo, seen, at,
               faults, lockLost, unsure>>

Statuses == {"unwritten", "pending", "processing", "processed", "dead_letter"}
Settled == {"processed", "dead_letter"}

Init ==
    /\ status = [e \in Events |-> "unwritten"]
    /\ attempts = [e \in Events |-> 0]
    /\ stale = {}
    /\ handled = [e \in Events |-> [c \in DOMAIN Calls[e] |-> 0]]
    /\ lock = None
    /\ pc = [r \in Replicas |-> "idle"]
    /\ todo = [r \in Replicas |-> {}]
    /\ seen = [r \in Replicas |-> [e \in Events |-> 0]]
    /\ at = [r \in Replicas |-> 1]
    /\ faults = 0
    /\ lockLost = FALSE
    /\ unsure = {}

-----------------------------------------------------------------------------
(* The writers. *)

\* A transaction that wrote an event commits.  The transactions of one auction
\* hold its row lock when they draw the sequence, so they commit in its order.
Commit(e) ==
    /\ status[e] = "unwritten"
    /\ \A d \in Events : d < e => status[d] # "unwritten"
    /\ status' = [status EXCEPT ![e] = "pending"]
    /\ UNCHANGED <<attempts, stale, handled, lock, pc, todo, seen, at, faults,
                   lockLost, unsure>>

\* Thirty seconds go by.
Age(e) ==
    /\ status[e] = "processing" /\ e \notin stale
    /\ stale' = stale \cup {e}
    /\ UNCHANGED <<status, attempts, handled, lock, pc, todo, seen, at, faults,
                   lockLost, unsure>>

-----------------------------------------------------------------------------
(* The relay. *)

\* pg_try_advisory_lock answers yes to the session that has the lock already.
\* Mutant: the lock is not looked at.
LockIsFreeAlways(r, c) == TRUE
LockIsFree(r, c) == lock # None => lock.by = r /\ lock.on = c

\* The session on connection c takes the lock.  It counts how often it did; past
\* LockDepth the model stops counting, which frees the lock sooner.
TakeLock(r, c) ==
    /\ pc[r] = "idle"
    /\ LockIsFree(r, c)
    /\ lock' = [by |-> r, on |-> c,
                depth |-> IF lock = None THEN 1
                          ELSE IF lock.depth < LockDepth THEN lock.depth + 1
                          ELSE LockDepth]

\* A tick gets the lock.
Tick(r) ==
    /\ \E c \in Connections : TakeLock(r, c)
    /\ pc' = [pc EXCEPT ![r] = "reclaiming"]
    /\ UNCHANGED <<status, attempts, stale, handled, todo, seen, at, faults,
                   lockLost, unsure>>

\* Which events go back to pending.
\* Mutant: none do.
NoneReclaimed == {}
\* Mutant: their status is not looked at.
ReclaimedByAge == stale
Reclaimed == {e \in stale : status[e] = "processing"}

\* reclaimStaleProcessing
Reclaim(r) ==
    /\ pc[r] = "reclaiming"
    /\ status' = [e \in Events |-> IF e \in Reclaimed THEN "pending" ELSE status[e]]
    /\ pc' = [pc EXCEPT ![r] = "fetching"]
    /\ UNCHANGED <<attempts, stale, handled, lock, todo, seen, at, faults, lockLost,
                   unsure>>

Pending == {e \in Events : status[e] = "pending"}

\* The first BatchSize pending events in the order of their sequence.
\* Mutant: the query has no ORDER BY.
AnyBatch(B) ==
    /\ B \subseteq Pending
    /\ Cardinality(B) = BatchSize \/ (Cardinality(B) < BatchSize /\ B = Pending)
IsBatch(B) ==
    /\ B \subseteq Pending
    /\ \A e \in B, d \in Pending : d < e => d \in B
    /\ Cardinality(B) = BatchSize \/ (Cardinality(B) < BatchSize /\ B = Pending)

Fetch(r) ==
    /\ pc[r] = "fetching"
    /\ \E B \in SUBSET Events :
        /\ IsBatch(B)
        /\ todo' = [todo EXCEPT ![r] = B]
        /\ seen' = [seen EXCEPT ![r] =
                       [e \in Events |-> IF e \in B THEN attempts[e] ELSE 0]]
    /\ pc' = [pc EXCEPT ![r] = "next"]
    /\ UNCHANGED <<status, attempts, stale, handled, lock, at, faults, lockLost, unsure>>

\* e is the event of the batch relay r is at.
IsCurrent(r, e) == e \in todo[r] /\ \A d \in todo[r] : e <= d

\* processEvent counts the attempt from the entity it fetched.
NewAttempts(r, e) == seen[r][e] + 1

\* The UPDATE that marks the event, whatever its status is by now.
UpdateToProcessing(r) ==
    /\ pc[r] = "next"
    /\ \E e \in Events :
        /\ IsCurrent(r, e)
        /\ status' = [status EXCEPT ![e] = "processing"]
        /\ attempts' = [attempts EXCEPT ![e] = NewAttempts(r, e)]
        /\ stale' = stale \ {e}

\* processEvent marks the event and dispatches it.
Mark(r) ==
    /\ UpdateToProcessing(r)
    /\ pc' = [pc EXCEPT ![r] = "calling"]
    /\ at' = [at EXCEPT ![r] = 1]
    /\ UNCHANGED <<handled, lock, todo, seen, faults, lockLost, unsure>>

\* A consumer's call succeeds and dispatch goes on to the next one.
CallSucceeds(r, e) ==
    /\ pc[r] = "calling" /\ IsCurrent(r, e) /\ at[r] \in DOMAIN Calls[e]
    /\ handled' = [handled EXCEPT ![e][at[r]] = @ + 1]
    /\ at' = [at EXCEPT ![r] = @ + 1]
    /\ UNCHANGED <<status, attempts, stale, lock, pc, todo, seen, faults, lockLost,
                   unsure>>

\* Where a failed call leaves the relay.
\* Mutant: dispatch goes on with the next consumer.
GoesOn(r) == UNCHANGED pc /\ at' = [at EXCEPT ![r] = @ + 1]
Throws(r) == pc' = [pc EXCEPT ![r] = "failed"] /\ UNCHANGED at

\* A broadcast to the web sockets cannot fail.  A call to the notification
\* service fails: it is refused, or its answer is late and the call has taken
\* effect all the same.
CallFails(r, e, tookEffect) ==
    /\ pc[r] = "calling" /\ IsCurrent(r, e) /\ at[r] \in DOMAIN Calls[e]
    /\ Calls[e][at[r]] # "websocket"
    /\ handled' = IF tookEffect THEN [handled EXCEPT ![e][at[r]] = @ + 1] ELSE handled
    /\ Throws(r)
    /\ UNCHANGED <<status, attempts, stale, lock, todo, seen, faults, lockLost,
                   unsure>>

\* Every consumer has handled the event.
RecordProcessed(r) ==
    /\ pc[r] = "calling"
    /\ \E e \in Events :
        /\ IsCurrent(r, e)
        /\ at[r] \notin DOMAIN Calls[e]
        /\ status' = [status EXCEPT ![e] = "processed"]
        /\ todo' = [todo EXCEPT ![r] = @ \ {e}]
    /\ pc' = [pc EXCEPT ![r] = "next"]
    /\ UNCHANGED <<attempts, stale, handled, lock, seen, at, faults, lockLost,
                   unsure>>

\* Mutant: one attempt too many.
FailedStatusLate(r, e) ==
    IF NewAttempts(r, e) > MaxAttempts THEN "dead_letter" ELSE "pending"
FailedStatus(r, e) ==
    IF NewAttempts(r, e) >= MaxAttempts THEN "dead_letter" ELSE "pending"

\* The catch block: dead letter, or another attempt.
RecordFailed(r) ==
    /\ pc[r] = "failed"
    /\ \E e \in Events :
        /\ IsCurrent(r, e)
        /\ status' = [status EXCEPT ![e] = FailedStatus(r, e)]
        /\ todo' = [todo EXCEPT ![r] = @ \ {e}]
        /\ unsure' = unsure \ {e}
    /\ pc' = [pc EXCEPT ![r] = "next"]
    /\ UNCHANGED <<attempts, stale, handled, lock, seen, at, faults, lockLost>>

\* The finally block unlocks on connection c.  On another session than the one
\* that has the lock pg_advisory_unlock answers no, and does nothing; nor does a
\* query that fails, whose error is logged.
Unlock(r) ==
    \E c \in Connections :
        /\ \/ pc[r] = "unlocking"
           \/ pc[r] = "next" /\ todo[r] = {}
        /\ \/ lock' = lock
           \/ lock' = IF lock = None \/ lock.by # r \/ lock.on # c THEN lock
                      ELSE IF lock.depth = 1 THEN None
                      ELSE [lock EXCEPT !.depth = @ - 1]
        /\ pc' = [pc EXCEPT ![r] = "idle"]
        /\ seen' = [seen EXCEPT ![r] = [e \in Events |-> 0]]
        /\ at' = [at EXCEPT ![r] = 1]
        /\ UNCHANGED <<status, attempts, stale, handled, todo, faults, lockLost, unsure>>

-----------------------------------------------------------------------------
(* Faults. *)

Fault == faults < MaxFaults /\ faults' = faults + 1

\* A query fails and has no effect.  Out of the try block of processEvent the tick
\* ends; the query that marks the event as processed is inside of it.
QueryFails(r) ==
    /\ Fault
    /\ \/ /\ pc[r] = "calling"
          /\ \E e \in Events : IsCurrent(r, e) /\ at[r] \notin DOMAIN Calls[e]
          /\ pc' = [pc EXCEPT ![r] = "failed"]
          /\ UNCHANGED todo
       \/ /\ \/ pc[r] \in {"reclaiming", "fetching", "failed"}
             \/ pc[r] = "next" /\ todo[r] # {}
          /\ pc' = [pc EXCEPT ![r] = "unlocking"]
          /\ todo' = [todo EXCEPT ![r] = {}]
    /\ unsure' = unsure \ (todo[r] \ todo'[r])
    /\ UNCHANGED <<status, attempts, stale, handled, lock, seen, at, lockLost>>

\* A query takes effect and its answer is lost: the relay goes on as if it had
\* failed.  Of the reclaiming and of the catch block's own UPDATE this is the step
\* followed by a QueryFails, or by the end of the batch; the others follow.

\* The session has the lock, and the tick returns without it.
TickUnanswered(r) ==
    /\ Fault
    /\ \E c \in Connections : TakeLock(r, c)
    /\ UNCHANGED <<status, attempts, stale, handled, pc, todo, seen, at, lockLost,
                   unsure>>

\* The event is marked and not dispatched; the tick ends.
MarkUnanswered(r) ==
    /\ Fault
    /\ UpdateToProcessing(r)
    /\ pc' = [pc EXCEPT ![r] = "unlocking"]
    /\ todo' = [todo EXCEPT ![r] = {}]
    /\ UNCHANGED <<handled, lock, seen, at, lockLost, unsure>>

\* The event is processed, and the catch block takes over.
ProcessedUnanswered(r) ==
    /\ Fault
    /\ pc[r] = "calling"
    /\ \E e \in Events :
        /\ IsCurrent(r, e)
        /\ at[r] \notin DOMAIN Calls[e]
        /\ status' = [status EXCEPT ![e] = "processed"]
        /\ unsure' = unsure \cup {e}
    /\ pc' = [pc EXCEPT ![r] = "failed"]
    /\ UNCHANGED <<attempts, stale, handled, lock, todo, seen, at, lockLost>>

\* The pool closes the connection that has the lock (idle for ten seconds, or
\* broken), and the session ends.
ConnectionCloses(r) ==
    /\ lock # None /\ lock.by = r
    /\ lock' = None
    /\ IF pc[r] = "idle" THEN UNCHANGED <<faults, lockLost>>
       ELSE Fault /\ lockLost' = TRUE
    /\ UNCHANGED <<status, attempts, stale, handled, pc, todo, seen, at, unsure>>

\* A replica dies, its connections with it, and starts again.
Crash(r) ==
    /\ pc[r] # "idle"
    /\ Fault
    /\ lock' = IF lock # None /\ lock.by = r THEN None ELSE lock
    /\ pc' = [pc EXCEPT ![r] = "idle"]
    /\ todo' = [todo EXCEPT ![r] = {}]
    /\ seen' = [seen EXCEPT ![r] = [e \in Events |-> 0]]
    /\ at' = [at EXCEPT ![r] = 1]
    /\ unsure' = unsure \ todo[r]
    /\ UNCHANGED <<status, attempts, stale, handled, lockLost>>

-----------------------------------------------------------------------------
\* What a relay does of its own accord, but for its calls.
RelayStep(r) ==
    \/ Tick(r) \/ Reclaim(r) \/ Fetch(r) \/ Mark(r)
    \/ RecordProcessed(r) \/ RecordFailed(r) \/ Unlock(r)

Call(r, e) ==
    CallSucceeds(r, e) \/ \E tookEffect \in BOOLEAN : CallFails(r, e, tookEffect)

FaultStep(r) ==
    \/ QueryFails(r) \/ TickUnanswered(r) \/ MarkUnanswered(r) \/ ProcessedUnanswered(r)
    \/ ConnectionCloses(r) \/ Crash(r)

Next ==
    \/ \E e \in Events : Commit(e) \/ Age(e)
    \/ \E r \in Replicas : RelayStep(r) \/ FaultStep(r)
    \/ \E r \in Replicas, e \in Events : Call(r, e)

Spec == Init /\ [][Next]_relayVars

\* Timers fire: a relay asks for the lock every 200 ms, in the end on the
\* connection that has it, and thirty seconds go by.  Calls end, by their timeout
\* at the latest.  Nothing makes a writer commit, and nothing must fail.
RelayFairness ==
    /\ \A r \in Replicas :
        /\ WF_relayVars(RelayStep(r))
        /\ \A e \in Events : WF_relayVars(Call(r, e))
    /\ \A e \in Events : WF_relayVars(Age(e))

FairSpec == Spec /\ RelayFairness

-----------------------------------------------------------------------------
(* Properties. *)

TypeOK ==
    /\ status \in [Events -> Statuses]
    /\ attempts \in [Events -> Nat]
    /\ stale \subseteq Events
    /\ DOMAIN handled = Events
    /\ \A e \in Events : handled[e] \in [DOMAIN Calls[e] -> Nat]
    /\ lock \in Lock \cup {None}
    /\ pc \in [Replicas -> {"idle", "reclaiming", "fetching", "next", "calling",
                            "failed", "unlocking"}]
    /\ todo \in [Replicas -> SUBSET Events]
    /\ seen \in [Replicas -> [Events -> Nat]]
    /\ at \in [Replicas -> Nat \ {0}]
    /\ faults \in Nat
    /\ lockLost \in BOOLEAN
    /\ unsure \subseteq Events

\* "Provides at-least-once delivery": an event is processed only if each of its
\* consumers has handled it, whoever crashed, reclaimed or repeated it meanwhile.
ProcessedWasDelivered ==
    \A e \in Events : status[e] = "processed" =>
        \A c \in DOMAIN Calls[e] : handled[e][c] > 0

\* "Advisory lock: single instance across all replicas": it is, although the
\* lock is taken and released on any connection, until a connection is closed
\* under a tick.
OneRelayAtATime ==
    ~lockLost => \A q, r \in Replicas : pc[q] # "idle" /\ pc[r] # "idle" => q = r

\* "Monotonic ordering for relay consumption": no event of an auction is tried
\* before the earlier ones have been.  This is all of the order that is kept: a
\* failed event is tried again after later ones.
FirstAttemptsInOrder ==
    \A d, e \in Events : d < e /\ attempts[e] > 0 => attempts[d] > 0

\* While one relay works at a time, what is processed or dead stays so, and is
\* not dispatched again.  The one event this does not hold of is processed by an
\* UPDATE whose answer was lost, until the relay that made it has written the
\* failure over it: from then on, and if that relay never does, it holds again.
SettledStaysSettled ==
    [][~lockLost => \A e \in Events \ unsure :
           status[e] \in Settled => status'[e] = status[e]]_relayVars

\* A consumer sees an event once more for every attempt, and an attempt over
\* max_attempts takes a fault: reclaiming an event does not look at them.
RepetitionIsBounded ==
    ~lockLost => \A e \in Events :
        /\ attempts[e] <= MaxAttempts + faults
        /\ \A c \in DOMAIN Calls[e] : handled[e][c] <= attempts[e]

\* Every committed event is processed in the end, or ends as a dead letter: a
\* relay that died with it does not keep it.
EventSettles ==
    \A e \in Events : status[e] = "pending" ~> status[e] \in Settled

=============================================================================
