------------------------------ MODULE Listings ------------------------------
(***************************************************************************)
(* Parcels and their reservations: ParcelService and ReservationService.   *)
(* Some calls lock the row they are about; others read an entity, change   *)
(* it and save() it.  TypeORM's save() reads the row once more and then    *)
(* writes the columns in which the entity differs from it, the ones the    *)
(* call never touched included.                                            *)
(***************************************************************************)
EXTENDS Integers, Sequences, FiniteSets

CONSTANTS
    Parcels,
    Reservations,    \* the rows of parcel_reservations
    Users,           \* who reserves
    Calls,           \* requests that may be under way at a time
    Replicas,        \* of the monolith, each with its cron job
    None,
    MaxReservations, \* active reservations a user may have
    MaxChanges       \* bound: status changes of each parcel

Rows == Parcels \cup Reservations

ASSUME ListingsAssumption ==
    /\ None \notin Rows \cup Users \cup [user : Users, parcel : Parcels]
    /\ IsFiniteSet(Reservations)
    /\ Parcels \cap Reservations = {}
    /\ MaxReservations \in Nat \ {0} /\ MaxChanges \in [Parcels -> Nat]

VARIABLES
    status,   \* the status column of each row; "none" until it is inserted
    holder,   \* the user and the parcel of each reservation
    overdue,  \* the reservations with expires_at in the past
    history,  \* parcel_status_history: the statuses each parcel came to
    job,      \* what each call is doing
    expiring, \* the reservations the cron job of each replica is to save, and
              \* whether save() has compared them yet
    raced     \* the users of whom two requests to reserve overlapped

listingVars == <<status, holder, overdue, history, job, expiring, raced>>

AllowedTransitions ==
    {<<"draft", "active">>, <<"active", "deposit_taken">>, <<"active", "withdrawn">>,
     <<"deposit_taken", "sold">>, <<"deposit_taken", "active">>,
     <<"deposit_taken", "withdrawn">>, <<"withdrawn", "active">>}

ParcelStatuses == {"draft", "active", "deposit_taken", "sold", "withdrawn"}
ReservationStatuses == {"active", "cancelled", "expired"}

Jobs == [op : {"update", "cancel", "reserve"}, on : Rows,
         as : Users \cup ParcelStatuses \cup {"cancelled"},
         at : {"read", "differs", "checked"}]

Idle == [op |-> "idle", on |-> None, as |-> "none", at |-> "none"]

Init ==
    /\ status = [x \in Rows |-> "none"]
    /\ holder = [r \in Reservations |-> None]
    /\ overdue = {}
    /\ history = [p \in Parcels |-> <<>>]
    /\ job = [c \in Calls |-> Idle]
    /\ expiring = [w \in Replicas |-> [rows |-> {}, compared |-> FALSE]]
    /\ raced = {}

-----------------------------------------------------------------------------
Return(c) == job' = [job EXCEPT ![c] = Idle]

\* A reservation under way holds the row lock of its parcel.
\* Mutant: SELECT without FOR UPDATE.
LockedNever(x) == FALSE
Locked(x) == \E c \in Calls : job[c].op = "reserve" /\ job[c].on = x

\* Parcels are created as drafts, singly or imported.
Create(p) ==
    /\ status[p] = "none"
    /\ status' = [status EXCEPT ![p] = "draft"]
    /\ UNCHANGED <<holder, overdue, history, job, expiring, raced>>

\* Mutant: the history row is not written.
Unrecorded(p, to) == UNCHANGED history
Recorded(p, to) == history' = [history EXCEPT ![p] = Append(@, to)]

\* updateStatus, in one transaction that locks the row.  Reservations of the
\* parcel are left as they are.
UpdateStatus(p, to) ==
    /\ ~Locked(p)
    /\ <<status[p], to>> \in AllowedTransitions
    /\ Len(history[p]) < MaxChanges[p]
    /\ status' = [status EXCEPT ![p] = to]
    /\ Recorded(p, to)
    /\ UNCHANGED <<holder, overdue, job, expiring, raced>>

-----------------------------------------------------------------------------
(* The calls that save what they read: update and cancel. *)

\* Which rows each of them accepts.
Accepts(op, x) ==
    \/ op = "update" /\ x \in Parcels /\ status[x] # "none"
    \/ op = "cancel" /\ x \in Reservations /\ status[x] = "active"

\* The status of the entity it saves: update has no status among its fields and
\* saves the one it read.
Saved(op, x) == IF op = "cancel" THEN "cancelled" ELSE status[x]

Read(c, op, x) ==
    /\ job[c] = Idle
    /\ Accepts(op, x)
    /\ job' = [job EXCEPT ![c] = [op |-> op, on |-> x, as |-> Saved(op, x), at |-> "read"]]
    /\ UNCHANGED <<status, holder, overdue, history, expiring, raced>>

\* save() compares.
Compare(c) ==
    /\ job[c].at = "read"
    /\ IF status[job[c].on] = job[c].as THEN Return(c)
       ELSE job' = [job EXCEPT ![c].at = "differs"]
    /\ UNCHANGED <<status, holder, overdue, history, expiring, raced>>

\* save() writes.
Write(c) ==
    /\ job[c].at = "differs" /\ ~Locked(job[c].on)
    /\ status' = [status EXCEPT ![job[c].on] = job[c].as]
    /\ Return(c)
    /\ UNCHANGED <<holder, overdue, history, expiring, raced>>

-----------------------------------------------------------------------------
(* Reservations. *)

ActiveOf(u) == {r \in Reservations : status[r] = "active" /\ holder[r].user = u}

\* Mutant: a reservation that is overdue does not count, in the query or the index.
ReservedInTime(p) == \E r \in Reservations \ overdue :
    status[r] = "active" /\ holder[r].parcel = p
Reserved(p) == \E r \in Reservations : status[r] = "active" /\ holder[r].parcel = p

\* Mutant: one too many.
UpToLimit(u) == Cardinality(ActiveOf(u)) <= MaxReservations
BelowLimit(u) == Cardinality(ActiveOf(u)) < MaxReservations

\* reserve locks the parcel and finds that it may.  It counts last, and what it
\* saw before is kept as it is by the lock: so this is one step.
BeginReserve(c, u, p) ==
    /\ job[c] = Idle
    /\ ~Locked(p) /\ status[p] = "active"
    /\ ~Reserved(p) /\ BelowLimit(u)
    /\ job' = [job EXCEPT ![c] = [op |-> "reserve", on |-> p, as |-> u, at |-> "checked"]]
    /\ raced' = IF \E d \in Calls : job[d].op = "reserve" /\ job[d].as = u
                THEN raced \cup {u} ELSE raced
    /\ UNCHANGED <<status, holder, overdue, history, expiring>>

\* The row is inserted, if the unique index allows it, and the lock released.
EndReserve(c, r) ==
    /\ job[c].op = "reserve"
    /\ status[r] = "none"
    /\ ~Reserved(job[c].on)
    /\ status' = [status EXCEPT ![r] = "active"]
    /\ holder' = [holder EXCEPT ![r] = [user |-> job[c].as, parcel |-> job[c].on]]
    /\ Return(c)
    /\ UNCHANGED <<overdue, history, expiring, raced>>

\* 48 hours go by.
Elapse(r) ==
    /\ status[r] = "active" /\ r \notin overdue
    /\ overdue' = overdue \cup {r}
    /\ UNCHANGED <<status, holder, history, job, expiring, raced>>

\* What the cron job looks for.
Stale == {r \in overdue : status[r] = "active"}

\* expireStaleReservations reads, and saves in one transaction.
FindStale(w) ==
    /\ expiring[w].rows = {} /\ Stale # {}
    /\ expiring' = [expiring EXCEPT ![w] = [rows |-> Stale, compared |-> FALSE]]
    /\ UNCHANGED <<status, holder, overdue, history, job, raced>>

Unsaved(w) == {r \in expiring[w].rows : status[r] # "expired"}

CompareStale(w) ==
    /\ expiring[w].rows # {} /\ ~expiring[w].compared
    /\ expiring' = [expiring EXCEPT ![w] = [rows |-> Unsaved(w), compared |-> Unsaved(w) # {}]]
    /\ UNCHANGED <<status, holder, overdue, history, job, raced>>

SaveStale(w) ==
    /\ expiring[w].compared
    /\ status' = [x \in Rows |-> IF x \in expiring[w].rows THEN "expired" ELSE status[x]]
    /\ expiring' = [expiring EXCEPT ![w] = [rows |-> {}, compared |-> FALSE]]
    /\ UNCHANGED <<holder, overdue, history, job, raced>>

-----------------------------------------------------------------------------
\* A query fails or the replica dies: the transaction is rolled back.
CallFails(c) ==
    /\ job[c] # Idle
    /\ Return(c)
    /\ UNCHANGED <<status, holder, overdue, history, expiring, raced>>

ExpiryFails(w) ==
    /\ expiring[w].rows # {}
    /\ expiring' = [expiring EXCEPT ![w] = [rows |-> {}, compared |-> FALSE]]
    /\ UNCHANGED <<status, holder, overdue, history, job, raced>>

Save(c) ==
    \/ \E op \in {"update", "cancel"}, x \in Rows : Read(c, op, x)
    \/ Compare(c) \/ Write(c)

Reserve(c) ==
    \/ \E u \in Users, p \in Parcels : BeginReserve(c, u, p)
    \/ \E r \in Reservations : EndReserve(c, r)

Next ==
    \/ \E p \in Parcels : Create(p)
    \/ \E p \in Parcels, to \in ParcelStatuses : UpdateStatus(p, to)
    \/ \E c \in Calls : Save(c) \/ Reserve(c) \/ CallFails(c)
    \/ \E r \in Reservations : Elapse(r)
    \/ \E w \in Replicas : FindStale(w) \/ CompareStale(w) \/ SaveStale(w) \/ ExpiryFails(w)

Spec == Init /\ [][Next]_listingVars

-----------------------------------------------------------------------------
(* Properties. *)

TypeOK ==
    /\ status \in [Rows -> {"none"} \cup ParcelStatuses \cup ReservationStatuses]
    /\ holder \in [Reservations -> [user : Users, parcel : Parcels] \cup {None}]
    /\ overdue \subseteq Reservations
    /\ history \in [Parcels -> Seq(ParcelStatuses)]
    /\ job \in [Calls -> Jobs \cup {Idle}]
    /\ expiring \in [Replicas -> [rows : SUBSET Reservations, compared : BOOLEAN]]
    /\ raced \subseteq Users

\* "Only one active reservation per parcel", however requests overlap, also while
\* an overdue one has not been swept yet.  Nothing makes a reservation active
\* again that was cancelled or expired, whoever saves an old entity of it.
OneReservationPerParcel ==
    \A q, r \in Reservations :
        status[q] = "active" /\ status[r] = "active" /\ holder[q].parcel = holder[r].parcel
            => q = r

\* A parcel is active when a reservation of it is committed, although its status
\* was looked at before: neither a change of status nor an edit gets in between.
ReservedWhileActive ==
    [][\A r \in Reservations : status[r] = "none" /\ status'[r] = "active"
        => status[holder'[r].parcel] = "active"]_listingVars

\* "max 3": a user has no more active reservations than allowed, unless two of
\* the user's requests overlapped.  The lock is on the parcel, not on the user.
LimitKeptInTurn ==
    \A u \in Users \ raced : Cardinality(ActiveOf(u)) <= MaxReservations

\* An edit may write an old status back over a newer one, but no parcel gets a
\* status that its history does not tell of; so none is sold of which no deposit
\* was ever taken.
StatusWasRecorded ==
    \A p \in Parcels :
        status[p] \in {"none", "draft"} \/ \E i \in DOMAIN history[p] : history[p][i] = status[p]

=============================================================================
