--------------------------- MODULE Listings_proofs ---------------------------
(***************************************************************************)
(* Proofs about Listings, for any parcels, users, reservations, calls and  *)
(* replicas, and any limits.                                               *)
(***************************************************************************)
EXTENDS Listings, FiniteSetTheorems, TLAPS

\* Which statuses the rows of each table have, and what a call may be about.
Shape ==
    /\ \A p \in Parcels : status[p] \in {"none"} \cup ParcelStatuses
    /\ \A r \in Reservations :
        /\ status[r] \in {"none"} \cup ReservationStatuses
        /\ status[r] = "active" => holder[r] # None
    /\ \A c \in Calls :
        /\ job[c].op = "update" => job[c].on \in Parcels /\ job[c].as \in ParcelStatuses
        /\ job[c].op = "cancel" => job[c].on \in Reservations /\ job[c].as = "cancelled"
        /\ job[c].op = "reserve" =>
            job[c].on \in Parcels /\ job[c].as \in Users /\ job[c].at = "checked"

\* A reservation under way keeps its parcel on the market.
LockKeepsActive == \A c \in Calls : job[c].op = "reserve" => status[job[c].on] = "active"

\* What an edit is going to write back has been in the history.
EditsAreOld ==
    \A c \in Calls : job[c].op = "update" =>
        job[c].as = "draft" \/ \E i \in DOMAIN history[job[c].on] :
                                  history[job[c].on][i] = job[c].as

\* c is about to insert a reservation of u.
Reserving(c, u) == job[c].op = "reserve" /\ job[c].as = u

\* Of a user whose requests did not overlap at most one is under way, and there
\* is room for it.
RoomForOne ==
    \A u \in Users \ raced : \A c \in Calls : Reserving(c, u) =>
        /\ \A d \in Calls : Reserving(d, u) => d = c
        /\ BelowLimit(u)

IInv ==
    /\ TypeOK /\ Shape
    /\ OneReservationPerParcel
    /\ LockKeepsActive
    /\ EditsAreOld /\ StatusWasRecorded
    /\ RoomForOne /\ LimitKeptInTurn

-----------------------------------------------------------------------------
LEMMA InitIInv == Init => IInv
  <1> SUFFICES ASSUME Init PROVE IInv
    OBVIOUS
  <1>1. TypeOK
    BY ListingsAssumption DEF Init, TypeOK, Rows
  <1>2. Shape
    BY DEF Init, Shape, Rows, Idle
  <1>3. OneReservationPerParcel /\ StatusWasRecorded
    BY DEF Init, OneReservationPerParcel, StatusWasRecorded, Rows
  <1>4. LockKeepsActive /\ EditsAreOld /\ RoomForOne
    BY DEF Init, LockKeepsActive, EditsAreOld, RoomForOne, Reserving, Idle
  <1>5. LimitKeptInTurn
    <2> SUFFICES ASSUME NEW u \in Users
                 PROVE  Cardinality(ActiveOf(u)) <= MaxReservations
      BY DEF LimitKeptInTurn
    <2>1. ActiveOf(u) = {}
      BY DEF Init, ActiveOf, Rows
    <2> QED
      BY <2>1, FS_EmptySet, ListingsAssumption
  <1> QED
    BY <1>1, <1>2, <1>3, <1>4, <1>5 DEF IInv

LEMMA TypeStep ==
    ASSUME TypeOK, Shape, [Next]_listingVars
    PROVE  TypeOK'
  <1> USE DEF Rows
  <1>1. CASE UNCHANGED listingVars
    BY <1>1 DEF listingVars, TypeOK
  <1>2. ASSUME NEW p \in Parcels, Create(p) PROVE TypeOK'
    BY <1>2 DEF Create, TypeOK, ParcelStatuses
  <1>3. ASSUME NEW p \in Parcels, NEW to \in ParcelStatuses, UpdateStatus(p, to)
        PROVE  TypeOK'
    <2>1. history' \in [Parcels -> Seq(ParcelStatuses)]
      BY <1>3 DEF UpdateStatus, Recorded, TypeOK
    <2> QED
      BY <1>3, <2>1 DEF UpdateStatus, TypeOK
  <1>4. ASSUME NEW c \in Calls, Save(c) PROVE TypeOK'
    <2>1. ASSUME NEW op \in {"update", "cancel"}, NEW x \in Rows, Read(c, op, x)
          PROVE  TypeOK'
      <3>1. Saved(op, x) \in Users \cup ParcelStatuses \cup {"cancelled"}
        BY <2>1 DEF Read, Accepts, Saved, Shape
      <3> QED
        BY <2>1, <3>1 DEF Read, TypeOK, Jobs
    <2>2. CASE Compare(c)
      <3>1. job[c] \in Jobs
        BY <2>2 DEF Compare, TypeOK, Idle
      <3>2. [job[c] EXCEPT !.at = "differs"] \in Jobs
        BY <3>1 DEF Jobs
      <3>3. job' \in [Calls -> Jobs \cup {Idle}]
        BY <2>2, <3>2 DEF Compare, Return, TypeOK
      <3> QED
        BY <2>2, <3>3 DEF Compare, TypeOK
    <2>3. CASE Write(c)
      <3>1. /\ job[c].op \in {"update", "cancel", "reserve"}
            /\ job[c].on \in Rows
        BY <2>3 DEF Write, TypeOK, Jobs, Idle
      <3>2. job[c].as \in ParcelStatuses \cup {"cancelled"}
        BY <2>3, <3>1 DEF Write, Shape
      <3> QED
        BY <2>3, <3>1, <3>2 DEF Write, Return, TypeOK, ReservationStatuses
    <2> QED
      BY <1>4, <2>1, <2>2, <2>3 DEF Save
  <1>5. ASSUME NEW c \in Calls, Reserve(c) PROVE TypeOK'
    <2>1. ASSUME NEW u \in Users, NEW p \in Parcels, BeginReserve(c, u, p) PROVE TypeOK'
      BY <2>1 DEF BeginReserve, TypeOK, Jobs
    <2>2. ASSUME NEW r \in Reservations, EndReserve(c, r) PROVE TypeOK'
      <3>1. job[c].on \in Parcels /\ job[c].as \in Users
        BY <2>2 DEF EndReserve, Shape
      <3> QED
        BY <2>2, <3>1 DEF EndReserve, Return, TypeOK, ReservationStatuses
    <2> QED
      BY <1>5, <2>1, <2>2 DEF Reserve
  <1>6. ASSUME NEW c \in Calls, CallFails(c) PROVE TypeOK'
    BY <1>6 DEF CallFails, Return, TypeOK
  <1>7. ASSUME NEW r \in Reservations, Elapse(r) PROVE TypeOK'
    BY <1>7 DEF Elapse, TypeOK
  <1>8. ASSUME NEW w \in Replicas, FindStale(w) \/ CompareStale(w) \/ ExpiryFails(w)
        PROVE  TypeOK'
    <2>1. expiring' \in [Replicas -> [rows : SUBSET Reservations, compared : BOOLEAN]]
      <3>1. Stale \subseteq Reservations /\ Unsaved(w) \subseteq Reservations
        BY DEF TypeOK, Stale, Unsaved
      <3>2. (Unsaved(w) # {}) \in BOOLEAN
        OBVIOUS
      <3>3. /\ [rows |-> Unsaved(w), compared |-> Unsaved(w) # {}]
                    \in [rows : SUBSET Reservations, compared : BOOLEAN]
            /\ [rows |-> Stale, compared |-> FALSE]
                    \in [rows : SUBSET Reservations, compared : BOOLEAN]
        BY <3>1, <3>2, Zenon
      <3>4. PICK e \in [rows : SUBSET Reservations, compared : BOOLEAN] :
                expiring' = [expiring EXCEPT ![w] = e]
        BY <1>8, <3>3 DEF FindStale, CompareStale, ExpiryFails
      <3> QED
        BY <3>4 DEF TypeOK
    <2> QED
      BY <1>8, <2>1 DEF FindStale, CompareStale, ExpiryFails, TypeOK
  <1>9. ASSUME NEW w \in Replicas, SaveStale(w) PROVE TypeOK'
    BY <1>9 DEF SaveStale, TypeOK, ReservationStatuses
  <1> QED
    BY <1>1, <1>2, <1>3, <1>4, <1>5, <1>6, <1>7, <1>8, <1>9 DEF Next

\* What a call does to the rows and to itself, but for a reservation.
LEMMA SaveEffect ==
    ASSUME TypeOK, Shape, NEW c \in Calls, Save(c) \/ CallFails(c)
    PROVE  /\ UNCHANGED <<holder, history, raced>>
           /\ \A d \in Calls \ {c} : job'[d] = job[d]
           /\ job'[c].op \in {"idle", "update", "cancel"}
           /\ \/ UNCHANGED status
              \/ /\ job[c].at = "differs" /\ ~Locked(job[c].on)
                 /\ job[c].op \in {"update", "cancel"}
                 /\ status' = [status EXCEPT ![job[c].on] = job[c].as]
  <1>1. ASSUME NEW op \in {"update", "cancel"}, NEW x \in Rows, Read(c, op, x)
        PROVE  /\ UNCHANGED <<holder, history, raced, status>>
               /\ \A d \in Calls \ {c} : job'[d] = job[d]
               /\ job'[c].op \in {"idle", "update", "cancel"}
    BY <1>1 DEF Read, TypeOK
  <1>2. ASSUME job[c].at \in {"read", "differs"}
        PROVE  job[c] \in Jobs /\ job[c].op \in {"update", "cancel"}
    BY <1>2 DEF TypeOK, Jobs, Idle, Shape
  <1>3. CASE Compare(c)
    BY <1>2, <1>3 DEF Compare, Return, TypeOK, Idle, Jobs
  <1>4. CASE Write(c)
    BY <1>2, <1>4 DEF Write, Return, TypeOK, Idle
  <1>5. CASE CallFails(c)
    BY <1>5 DEF CallFails, Return, TypeOK, Idle
  <1> QED
    BY <1>1, <1>3, <1>4, <1>5 DEF Save

LEMMA ShapeStep ==
    ASSUME TypeOK, Shape, [Next]_listingVars
    PROVE  Shape'
  <1> USE DEF Rows
  <1> DEFINE Fits(c) ==
        /\ job[c].op = "update" => job[c].on \in Parcels /\ job[c].as \in ParcelStatuses
        /\ job[c].op = "cancel" => job[c].on \in Reservations /\ job[c].as = "cancelled"
        /\ job[c].op = "reserve" =>
            job[c].on \in Parcels /\ job[c].as \in Users /\ job[c].at = "checked"
  <1>1. CASE UNCHANGED listingVars
    BY <1>1 DEF listingVars, Shape
  <1>2. ASSUME NEW p \in Parcels, Create(p) PROVE Shape'
    BY <1>2, ListingsAssumption DEF Create, Shape, TypeOK, ParcelStatuses
  <1>3. ASSUME NEW p \in Parcels, NEW to \in ParcelStatuses, UpdateStatus(p, to)
        PROVE  Shape'
    BY <1>3, ListingsAssumption DEF UpdateStatus, Shape, TypeOK
  <1>4. ASSUME NEW c \in Calls, Save(c) \/ CallFails(c) PROVE Shape'
    <2>1. Fits(c)'
      <3>1. ASSUME NEW op \in {"update", "cancel"}, NEW x \in Rows, Read(c, op, x)
            PROVE  Fits(c)'
        BY <3>1 DEF Read, Accepts, Saved, TypeOK, Shape
      <3>2. CASE Compare(c)
        BY <3>2 DEF Compare, Return, TypeOK, Shape, Idle, Jobs
      <3>3. CASE Write(c) \/ CallFails(c)
        BY <3>3 DEF Write, CallFails, Return, TypeOK, Idle
      <3> QED
        BY <1>4, <3>1, <3>2, <3>3 DEF Save
    <2>2. \A d \in Calls : Fits(d)'
      BY <1>4, <2>1, SaveEffect DEF Shape
    <2>3. /\ \A p \in Parcels : status'[p] \in {"none"} \cup ParcelStatuses
          /\ \A r \in Reservations :
                /\ status'[r] \in {"none"} \cup ReservationStatuses
                /\ status'[r] = "active" => holder'[r] # None
      <3>1. CASE UNCHANGED status
        BY <1>4, <3>1, SaveEffect DEF Shape
      <3>2. CASE status' = [status EXCEPT ![job[c].on] = job[c].as]
                 /\ job[c].op \in {"update", "cancel"}
        <4>1. \A p \in Parcels : status'[p] \in {"none"} \cup ParcelStatuses
          BY <3>2, ListingsAssumption DEF Shape, TypeOK
        <4>2. \A r \in Reservations :
                /\ status'[r] \in {"none"} \cup ReservationStatuses
                /\ status'[r] = "active" => status[r] = "active"
          BY <3>2, ListingsAssumption DEF Shape, TypeOK, ReservationStatuses
        <4> QED
          BY <1>4, <4>1, <4>2, SaveEffect DEF Shape
      <3> QED
        BY <1>4, <3>1, <3>2, SaveEffect
    <2> QED
      BY <2>2, <2>3 DEF Shape
  <1>5. ASSUME NEW c \in Calls, NEW u \in Users, NEW p \in Parcels, BeginReserve(c, u, p)
        PROVE  Shape'
    BY <1>5 DEF BeginReserve, TypeOK, Shape
  <1>6. ASSUME NEW c \in Calls, NEW r \in Reservations, EndReserve(c, r) PROVE Shape'
    <2>1. holder'[r] # None
      BY <1>6, ListingsAssumption DEF EndReserve, TypeOK, Shape
    <2> QED
      BY <1>6, <2>1, ListingsAssumption
      DEF EndReserve, Return, TypeOK, Shape, Idle, ReservationStatuses
  <1>7. ASSUME NEW r \in Reservations, Elapse(r) PROVE Shape'
    BY <1>7 DEF Elapse, Shape
  <1>8. ASSUME NEW w \in Replicas, FindStale(w) \/ CompareStale(w) \/ ExpiryFails(w)
        PROVE  Shape'
    BY <1>8 DEF FindStale, CompareStale, ExpiryFails, Shape
  <1>9. ASSUME NEW w \in Replicas, SaveStale(w) PROVE Shape'
    BY <1>9, ListingsAssumption DEF SaveStale, TypeOK, Shape, ReservationStatuses
  <1> QED
    BY <1>1, <1>2, <1>3, <1>4, <1>5, <1>6, <1>7, <1>8, <1>9 DEF Next, Reserve

\* A reservation becomes active in EndReserve only.
LEMMA ActiveShrinks ==
    ASSUME TypeOK, Shape, [Next]_listingVars,
           ~\E c \in Calls, r \in Reservations : EndReserve(c, r)
    PROVE  /\ \A r \in Reservations : status'[r] = "active" => status[r] = "active"
           /\ UNCHANGED holder
  <1> USE DEF Rows
  <1>1. ASSUME NEW c \in Calls, Save(c) \/ CallFails(c)
        PROVE  /\ \A r \in Reservations : status'[r] = "active" => status[r] = "active"
               /\ UNCHANGED holder
    <2>1. CASE UNCHANGED status
      BY <1>1, <2>1, SaveEffect
    <2>2. CASE status' = [status EXCEPT ![job[c].on] = job[c].as]
               /\ job[c].op \in {"update", "cancel"}
      <3>1. \A r \in Reservations : status'[r] = "active" => status[r] = "active"
        BY <2>2, ListingsAssumption DEF Shape, TypeOK
      <3> QED
        BY <1>1, <3>1, SaveEffect
    <2> QED
      BY <1>1, <2>1, <2>2, SaveEffect
  <1>2. ASSUME NEW w \in Replicas, SaveStale(w)
        PROVE  \A r \in Reservations : status'[r] = "active" => status[r] = "active"
    BY <1>2 DEF SaveStale
  <1>3. ASSUME NEW p \in Parcels, Create(p) \/ \E to \in ParcelStatuses : UpdateStatus(p, to)
        PROVE  \A r \in Reservations : status'[r] = status[r]
    BY <1>3, ListingsAssumption DEF Create, UpdateStatus, TypeOK
  <1>4. ASSUME NEW c \in Calls, Reserve(c) PROVE UNCHANGED <<status, holder>>
    BY <1>4 DEF Reserve, BeginReserve
  <1>5. \A r \in Reservations : status'[r] = "active" => status[r] = "active"
    BY <1>1, <1>2, <1>3, <1>4
    DEF Next, listingVars, Elapse, FindStale, CompareStale, ExpiryFails
  <1>6. UNCHANGED holder
    BY <1>1, <1>4 DEF Next, listingVars, Create, UpdateStatus, Elapse, FindStale, CompareStale,
        SaveStale, ExpiryFails
  <1> QED
    BY <1>5, <1>6

LEMMA EndReserveEffect ==
    ASSUME TypeOK, Shape, NEW c \in Calls, NEW r \in Reservations, EndReserve(c, r)
    PROVE  /\ status[r] = "none" /\ status'[r] = "active"
           /\ holder'[r] = [user |-> job[c].as, parcel |-> job[c].on]
           /\ \A x \in Rows \ {r} : status'[x] = status[x]
           /\ \A q \in Reservations \ {r} : holder'[q] = holder[q]
           /\ job' = [job EXCEPT ![c] = Idle]
           /\ UNCHANGED <<history, raced>>
  BY DEF EndReserve, Return, TypeOK, Rows

LEMMA OneStep ==
    ASSUME TypeOK, Shape, OneReservationPerParcel, [Next]_listingVars
    PROVE  OneReservationPerParcel'
  <1>1. ASSUME NEW c \in Calls, NEW r \in Reservations, EndReserve(c, r)
        PROVE  OneReservationPerParcel'
    <2>1. \A q \in Reservations : ~(status[q] = "active" /\ holder[q].parcel = job[c].on)
      BY <1>1 DEF EndReserve, Reserved
    <2>2. holder'[r] = [user |-> job[c].as, parcel |-> job[c].on]
      BY <1>1, EndReserveEffect
    <2>3. \A q \in Reservations \ {r} : status'[q] = status[q] /\ holder'[q] = holder[q]
      BY <1>1, EndReserveEffect DEF Rows
    <2> QED
      BY <2>1, <2>2, <2>3 DEF OneReservationPerParcel
  <1>2. CASE ~\E c \in Calls, r \in Reservations : EndReserve(c, r)
    BY <1>2, ActiveShrinks DEF OneReservationPerParcel
  <1> QED
    BY <1>1, <1>2

\* Only BeginReserve makes a call hold a lock, and no row changes while it does.
LEMMA LockStep ==
    ASSUME TypeOK, Shape, LockKeepsActive, [Next]_listingVars
    PROVE  LockKeepsActive'
  <1> USE DEF Rows
  <1>1. CASE UNCHANGED listingVars
    BY <1>1 DEF listingVars, LockKeepsActive
  <1>2. ASSUME NEW p \in Parcels, Create(p) \/ \E to \in ParcelStatuses : UpdateStatus(p, to)
        PROVE  LockKeepsActive'
    BY <1>2 DEF Create, UpdateStatus, Locked, LockKeepsActive, TypeOK, Shape
  <1>3. ASSUME NEW c \in Calls, Save(c) \/ CallFails(c) PROVE LockKeepsActive'
    <2> SUFFICES ASSUME NEW d \in Calls, job'[d].op = "reserve"
                 PROVE  status'[job'[d].on] = "active"
      BY DEF LockKeepsActive
    <2>1. d # c /\ job'[d] = job[d] /\ status[job[d].on] = "active" /\ job[d].on \in Parcels
      BY <1>3, SaveEffect DEF LockKeepsActive, Shape
    <2> QED
      BY <1>3, <2>1, SaveEffect DEF Locked, TypeOK
  <1>4. ASSUME NEW c \in Calls, NEW u \in Users, NEW p \in Parcels, BeginReserve(c, u, p)
        PROVE  LockKeepsActive'
    BY <1>4 DEF BeginReserve, LockKeepsActive, TypeOK
  <1>5. ASSUME NEW c \in Calls, NEW r \in Reservations, EndReserve(c, r) PROVE LockKeepsActive'
    <2> SUFFICES ASSUME NEW d \in Calls, job'[d].op = "reserve"
                 PROVE  status'[job'[d].on] = "active"
      BY DEF LockKeepsActive
    <2>1. job' = [job EXCEPT ![c] = Idle]
      BY <1>5, EndReserveEffect
    <2>2. job'[d] = job[d]
      BY <2>1 DEF TypeOK, Idle
    <2>3. job[d].on \in Parcels /\ status[job[d].on] = "active"
      BY <2>2 DEF LockKeepsActive, Shape
    <2>4. job[d].on \in Rows \ {r}
      BY <2>3, ListingsAssumption
    <2>5. status'[job[d].on] = status[job[d].on]
      BY <1>5, <2>4, EndReserveEffect
    <2> QED
      BY <2>2, <2>3, <2>5
  <1>6. ASSUME NEW w \in Replicas, SaveStale(w) PROVE LockKeepsActive'
    BY <1>6, ListingsAssumption DEF SaveStale, LockKeepsActive, TypeOK, Shape
  <1>7. CASE UNCHANGED <<status, job>>
    BY <1>7 DEF LockKeepsActive
  <1> QED
    BY <1>1, <1>2, <1>3, <1>4, <1>5, <1>6, <1>7
    DEF Next, Reserve, Elapse, FindStale, CompareStale, ExpiryFails

\* The history of p tells of status v.
Tells(p, v) == \E i \in DOMAIN history[p] : history[p][i] = v

\* A history forgets nothing, and tells of the status a parcel comes to.
LEMMA HistoryGrows ==
    ASSUME TypeOK, Shape, [Next]_listingVars
    PROVE  \A p \in Parcels : \A v : Tells(p, v) => Tells(p, v)'
  <1>1. CASE UNCHANGED history
    BY <1>1 DEF Tells
  <1>2. ASSUME NEW p \in Parcels, NEW to \in ParcelStatuses, UpdateStatus(p, to)
        PROVE  \A q \in Parcels : \A v : Tells(q, v) => Tells(q, v)'
    <2>1. history[p] \in Seq(ParcelStatuses) /\ history' = [history EXCEPT ![p] = Append(@, to)]
      BY <1>2 DEF UpdateStatus, Recorded, TypeOK
    <2>2. \A i \in DOMAIN history[p] :
            i \in DOMAIN Append(history[p], to) /\ Append(history[p], to)[i] = history[p][i]
      BY <2>1
    <2>3. /\ history'[p] = Append(history[p], to)
          /\ \A q \in Parcels \ {p} : history'[q] = history[q]
      BY <2>1 DEF TypeOK
    <2>4. \A v : Tells(p, v) => Tells(p, v)'
      BY <2>2, <2>3 DEF Tells
    <2>5. \A q \in Parcels \ {p} : \A v : Tells(q, v) => Tells(q, v)'
      BY <2>3 DEF Tells
    <2> QED
      BY <2>4, <2>5
  <1>3. ASSUME NEW c \in Calls, Save(c) PROVE UNCHANGED history
    BY <1>3, SaveEffect
  <1> QED
    BY <1>1, <1>2, <1>3
    DEF Next, listingVars, Create, Reserve, BeginReserve, EndReserve, CallFails, Elapse, FindStale,
        CompareStale, SaveStale, ExpiryFails

LEMMA EditsStep ==
    ASSUME TypeOK, Shape, EditsAreOld, StatusWasRecorded, [Next]_listingVars
    PROVE  EditsAreOld'
  <1> SUFFICES ASSUME NEW d \in Calls, job'[d].op = "update"
               PROVE  (job[d].as = "draft" \/ Tells(job[d].on, job[d].as))'
    BY DEF EditsAreOld, Tells
  <1>1. CASE job'[d].op = job[d].op /\ job'[d].on = job[d].on /\ job'[d].as = job[d].as
    <2>1. job[d].on \in Parcels /\ (job[d].as = "draft" \/ Tells(job[d].on, job[d].as))
      BY <1>1 DEF EditsAreOld, Tells, Shape
    <2> QED
      BY <1>1, <2>1, HistoryGrows DEF Tells
  <1>2. ASSUME NEW op \in {"update", "cancel"}, NEW x \in Rows, Read(d, op, x)
        PROVE  (job[d].as = "draft" \/ Tells(job[d].on, job[d].as))'
    <2>1. op = "update" /\ job'[d].on = x /\ job'[d].as = status[x] /\ UNCHANGED history
      BY <1>2 DEF Read, Saved, TypeOK
    <2>2. x \in Parcels /\ status[x] # "none"
      BY <1>2, <2>1 DEF Read, Accepts
    <2> QED
      BY <2>1, <2>2 DEF StatusWasRecorded, Tells
  <1>3. ASSUME NEW c \in Calls, c # d \/ ~\E op \in {"update", "cancel"}, x \in Rows : Read(d, op, x),
               Save(c) \/ CallFails(c)
        PROVE  job'[d].op = job[d].op /\ job'[d].on = job[d].on /\ job'[d].as = job[d].as
    <2>1. CASE c # d
      BY <1>3, <2>1, SaveEffect
    <2>2. CASE c = d
      <3>1. job[d] # Idle => job[d] \in Jobs
        BY DEF TypeOK
      <3> QED
        BY <1>3, <2>2, <3>1 DEF Save, Compare, Write, CallFails, Return, TypeOK, Idle, Jobs
    <2> QED
      BY <2>1, <2>2
  <1>4. ASSUME NEW c \in Calls, Reserve(c)
        PROVE  job'[d].op = job[d].op /\ job'[d].on = job[d].on /\ job'[d].as = job[d].as
    BY <1>4 DEF Reserve, BeginReserve, EndReserve, Return, TypeOK, Idle
  <1>5. CASE UNCHANGED job
    BY <1>1, <1>5
  <1> QED
    BY <1>1, <1>2, <1>3, <1>4, <1>5
    DEF Next, listingVars, Create, UpdateStatus, Save, Elapse, FindStale, CompareStale, SaveStale,
        ExpiryFails

LEMMA RecordedStep ==
    ASSUME TypeOK, Shape, EditsAreOld, StatusWasRecorded, [Next]_listingVars
    PROVE  StatusWasRecorded'
  <1> USE DEF Rows
  <1> DEFINE Known(p) == status[p] \in {"none", "draft"} \/ Tells(p, status[p])
  <1> SUFFICES ASSUME NEW p \in Parcels PROVE Known(p)'
    BY DEF StatusWasRecorded, Tells
  <1>1. CASE status'[p] = status[p]
    BY <1>1, HistoryGrows DEF StatusWasRecorded, Tells
  <1>2. ASSUME NEW q \in Parcels, Create(q) PROVE Known(p)' \/ status'[p] = status[p]
    BY <1>2 DEF Create, TypeOK
  <1>3. ASSUME NEW q \in Parcels, NEW to \in ParcelStatuses, UpdateStatus(q, to)
        PROVE  Known(p)' \/ status'[p] = status[p]
    <2>1. CASE q # p
      BY <1>3, <2>1 DEF UpdateStatus, TypeOK
    <2>2. CASE q = p
      <3>1. /\ history[p] \in Seq(ParcelStatuses)
            /\ status'[p] = to
            /\ history'[p] = Append(history[p], to)
        BY <1>3, <2>2 DEF UpdateStatus, Recorded, TypeOK
      <3>2. /\ Len(history[p]) + 1 \in DOMAIN Append(history[p], to)
            /\ Append(history[p], to)[Len(history[p]) + 1] = to
        BY <3>1
      <3> QED
        BY <3>1, <3>2 DEF Tells
    <2> QED
      BY <2>1, <2>2
  <1>4. ASSUME NEW c \in Calls, Save(c) \/ CallFails(c)
        PROVE  Known(p)' \/ status'[p] = status[p]
    <2>1. CASE status' = [status EXCEPT ![job[c].on] = job[c].as] /\ job[c].op \in {"update", "cancel"}
      <3>1. CASE job[c].op = "update" /\ job[c].on = p
        <4>1. status'[p] = job[c].as
          BY <2>1, <3>1 DEF TypeOK
        <4>2. job[c].as = "draft" \/ Tells(p, job[c].as)
          BY <3>1 DEF EditsAreOld, Tells
        <4> QED
          BY <4>1, <4>2, HistoryGrows
      <3>2. CASE job[c].on # p
        BY <2>1, <3>2 DEF TypeOK
      <3> QED
        BY <2>1, <3>1, <3>2, ListingsAssumption DEF Shape
    <2> QED
      BY <1>4, <2>1, SaveEffect
  <1>5. ASSUME NEW c \in Calls, Reserve(c) PROVE status'[p] = status[p]
    BY <1>5, ListingsAssumption DEF Reserve, BeginReserve, EndReserve, TypeOK
  <1>6. ASSUME NEW w \in Replicas, SaveStale(w) PROVE status'[p] = status[p]
    BY <1>6, ListingsAssumption DEF SaveStale, TypeOK
  <1> QED
    BY <1>1, <1>2, <1>3, <1>4, <1>5, <1>6
    DEF Next, listingVars, Elapse, FindStale, CompareStale, ExpiryFails

LEMMA ActiveFinite ==
    ASSUME NEW u
    PROVE  IsFiniteSet(ActiveOf(u)) /\ Cardinality(ActiveOf(u)) \in Nat
  <1>1. ActiveOf(u) \subseteq Reservations
    BY DEF ActiveOf
  <1> QED
    BY <1>1, ListingsAssumption, FS_Subset, FS_CardinalityType

\* Reservations of u become at most one more, and that by a call for u.
LEMMA ActiveGrowsByOne ==
    ASSUME TypeOK, Shape, [Next]_listingVars, NEW u
    PROVE  /\ IsFiniteSet(ActiveOf(u)') /\ Cardinality(ActiveOf(u)') \in Nat
           /\ \/ Cardinality(ActiveOf(u)') <= Cardinality(ActiveOf(u))
              \/ /\ Cardinality(ActiveOf(u)') <= Cardinality(ActiveOf(u)) + 1
                 /\ UNCHANGED raced
                 /\ \E c \in Calls : Reserving(c, u) /\ job' = [job EXCEPT ![c] = Idle]
  <1>1. IsFiniteSet(ActiveOf(u)') /\ Cardinality(ActiveOf(u)') \in Nat
    <2>1. ActiveOf(u)' \subseteq Reservations
      BY DEF ActiveOf
    <2> QED
      BY <2>1, ListingsAssumption, FS_Subset, FS_CardinalityType
  <1>2. CASE ActiveOf(u)' \subseteq ActiveOf(u)
    BY <1>1, <1>2, ActiveFinite, FS_Subset
  <1>3. CASE ~\E c \in Calls, r \in Reservations : EndReserve(c, r)
    <2>1. ActiveOf(u)' \subseteq ActiveOf(u)
      BY <1>3, ActiveShrinks DEF ActiveOf
    <2> QED
      BY <1>2, <2>1
  <1>4. ASSUME NEW c \in Calls, NEW r \in Reservations, EndReserve(c, r)
        PROVE  \/ ActiveOf(u)' \subseteq ActiveOf(u)
               \/ /\ Cardinality(ActiveOf(u)') <= Cardinality(ActiveOf(u)) + 1
                  /\ UNCHANGED raced
                  /\ Reserving(c, u) /\ job' = [job EXCEPT ![c] = Idle]
    <2>1. holder'[r] = [user |-> job[c].as, parcel |-> job[c].on]
      BY <1>4, EndReserveEffect
    <2>2. \A q \in Reservations \ {r} : status'[q] = status[q] /\ holder'[q] = holder[q]
      BY <1>4, EndReserveEffect DEF Rows
    <2>3. CASE job[c].as # u
      BY <2>1, <2>2, <2>3 DEF ActiveOf
    <2>4. CASE job[c].as = u
      <3>1. ActiveOf(u)' \subseteq ActiveOf(u) \cup {r}
        BY <2>2 DEF ActiveOf
      <3>2. /\ IsFiniteSet(ActiveOf(u) \cup {r})
            /\ Cardinality(ActiveOf(u) \cup {r}) <= Cardinality(ActiveOf(u)) + 1
            /\ Cardinality(ActiveOf(u) \cup {r}) \in Nat
        <4>1. /\ IsFiniteSet(ActiveOf(u) \cup {r})
              /\ \/ Cardinality(ActiveOf(u) \cup {r}) = Cardinality(ActiveOf(u))
                 \/ Cardinality(ActiveOf(u) \cup {r}) = Cardinality(ActiveOf(u)) + 1
          BY ActiveFinite, FS_AddElement
        <4> QED
          BY <4>1, ActiveFinite
      <3>3. Cardinality(ActiveOf(u)') <= Cardinality(ActiveOf(u) \cup {r})
        BY <3>1, <3>2, FS_Subset
      <3>4. Cardinality(ActiveOf(u)') <= Cardinality(ActiveOf(u)) + 1
        BY <1>1, <3>2, <3>3, ActiveFinite
      <3> QED
        BY <1>4, <2>4, <3>4, EndReserveEffect DEF Reserving, EndReserve
    <2> QED
      BY <2>3, <2>4
  <1> QED
    BY <1>1, <1>2, <1>3, <1>4

\* A call turns to reserving in BeginReserve only.
LEMMA ReservingStarts ==
    ASSUME TypeOK, Shape, [Next]_listingVars, NEW c \in Calls, NEW u, Reserving(c, u)'
    PROVE  \/ Reserving(c, u)
           \/ \E p \in Parcels : u \in Users /\ BeginReserve(c, u, p)
  <1>1. ASSUME NEW d \in Calls, Save(d) \/ CallFails(d) PROVE Reserving(c, u)
    BY <1>1, SaveEffect DEF Reserving
  <1>2. ASSUME NEW d \in Calls, NEW v \in Users, NEW p \in Parcels, BeginReserve(d, v, p)
        PROVE  Reserving(c, u) \/ (u \in Users /\ BeginReserve(c, u, p))
    <2>1. CASE d # c
      BY <1>2, <2>1 DEF BeginReserve, Reserving, TypeOK
    <2>2. CASE d = c
      <3>1. v = u
        BY <1>2, <2>2 DEF BeginReserve, Reserving, TypeOK
      <3> QED
        BY <1>2, <2>2, <3>1
    <2> QED
      BY <2>1, <2>2
  <1>3. ASSUME NEW d \in Calls, NEW r \in Reservations, EndReserve(d, r) PROVE Reserving(c, u)
    BY <1>3 DEF EndReserve, Return, Reserving, TypeOK, Idle
  <1>4. CASE UNCHANGED job
    BY <1>4 DEF Reserving
  <1> QED
    BY <1>1, <1>2, <1>3, <1>4
    DEF Next, listingVars, Create, UpdateStatus, Reserve, Elapse, FindStale, CompareStale,
        SaveStale, ExpiryFails

LEMMA RacedGrows ==
    ASSUME TypeOK, Shape, [Next]_listingVars
    PROVE  raced \subseteq raced'
  <1>1. ASSUME NEW c \in Calls, Save(c) PROVE UNCHANGED raced
    BY <1>1, SaveEffect
  <1> QED
    BY <1>1
    DEF Next, listingVars, Create, UpdateStatus, Reserve, BeginReserve, EndReserve, CallFails,
        Elapse, FindStale, CompareStale, SaveStale, ExpiryFails

LEMMA RoomStep ==
    ASSUME TypeOK, Shape, RoomForOne, LimitKeptInTurn, [Next]_listingVars
    PROVE  RoomForOne' /\ LimitKeptInTurn'
  <1> SUFFICES ASSUME NEW u \in Users, u \notin raced'
               PROVE  /\ \A c \in Calls : Reserving(c, u)' =>
                            /\ \A d \in Calls : Reserving(d, u)' => d = c
                            /\ Cardinality(ActiveOf(u)') < MaxReservations
                      /\ Cardinality(ActiveOf(u)') <= MaxReservations
    BY DEF RoomForOne, LimitKeptInTurn, BelowLimit
  <1>1. u \notin raced
    BY RacedGrows
  <1>2. /\ \A c \in Calls : Reserving(c, u) =>
              /\ \A d \in Calls : Reserving(d, u) => d = c
              /\ Cardinality(ActiveOf(u)) < MaxReservations
        /\ Cardinality(ActiveOf(u)) <= MaxReservations
    BY <1>1 DEF RoomForOne, LimitKeptInTurn, BelowLimit
  <1>3. Cardinality(ActiveOf(u)) \in Nat /\ Cardinality(ActiveOf(u)') \in Nat
    BY ActiveFinite, ActiveGrowsByOne
  <1>4. CASE Cardinality(ActiveOf(u)') <= Cardinality(ActiveOf(u))
    <2>1. CASE \A c \in Calls : Reserving(c, u)' => Reserving(c, u)
      BY <1>2, <1>3, <1>4, <2>1, ListingsAssumption
    <2>2. CASE \E c \in Calls : Reserving(c, u)' /\ ~Reserving(c, u)
      <3>1. PICK c \in Calls, p \in Parcels : BeginReserve(c, u, p)
        BY <2>2, ReservingStarts
      <3>2. Cardinality(ActiveOf(u)) < MaxReservations
        BY <3>1 DEF BeginReserve, BelowLimit
      <3>3. \A d \in Calls : ~Reserving(d, u)
        BY <3>1 DEF BeginReserve, Reserving
      <3>4. \A d \in Calls : Reserving(d, u)' => d = c
        BY <3>1, <3>3 DEF BeginReserve, Reserving, TypeOK
      <3> QED
        BY <1>3, <1>4, <3>2, <3>4, ListingsAssumption
    <2> QED
      BY <2>1, <2>2
  <1>5. CASE /\ Cardinality(ActiveOf(u)') <= Cardinality(ActiveOf(u)) + 1
             /\ \E c \in Calls : Reserving(c, u) /\ job' = [job EXCEPT ![c] = Idle]
    <2>1. PICK c \in Calls : Reserving(c, u) /\ job' = [job EXCEPT ![c] = Idle]
      BY <1>5
    <2>2. \A d \in Calls : ~Reserving(d, u)'
      BY <1>2, <2>1 DEF Reserving, TypeOK, Idle
    <2> QED
      BY <1>2, <1>3, <1>5, <2>1, <2>2, ListingsAssumption
  <1> QED
    BY <1>4, <1>5, ActiveGrowsByOne

-----------------------------------------------------------------------------
\* The variables stay in their types, and what the properties rest on holds.
THEOREM IInvHolds == Spec => []IInv
  <1>1. IInv /\ [Next]_listingVars => IInv'
    BY TypeStep, ShapeStep, OneStep, LockStep, EditsStep, RecordedStep, RoomStep DEF IInv
  <1> QED
    BY <1>1, InitIInv, PTL DEF Spec

\* The variables of Listings keep their types, whoever saves an old entity.
THEOREM ListingsTypeOK == Spec => []TypeOK
  <1>1. IInv => TypeOK
    BY DEF IInv
  <1> QED
    BY <1>1, IInvHolds, PTL

\* A parcel never has two active reservations, for any number of users, requests
\* and replicas.
THEOREM OneActiveReservation == Spec => []OneReservationPerParcel
  <1>1. IInv => OneReservationPerParcel
    BY DEF IInv
  <1> QED
    BY <1>1, IInvHolds, PTL

\* The limit on a user's reservations, any limit, is only passed by requests that
\* overlap.
THEOREM LimitKept == Spec => []LimitKeptInTurn
  <1>1. IInv => LimitKeptInTurn
    BY DEF IInv
  <1> QED
    BY <1>1, IInvHolds, PTL

\* A parcel's history knows its status, although edits write old ones back.
THEOREM StatusRecorded == Spec => []StatusWasRecorded
  <1>1. IInv => StatusWasRecorded
    BY DEF IInv
  <1> QED
    BY <1>1, IInvHolds, PTL

\* A reservation is committed of an active parcel only.
THEOREM ReservedOnTheMarket == Spec => ReservedWhileActive
  <1> DEFINE Good == \A r \in Reservations : status[r] = "none" /\ status'[r] = "active"
                        => status[holder'[r].parcel] = "active"
  <1>1. ASSUME IInv, [Next]_listingVars PROVE [Good]_listingVars
    <2> SUFFICES ASSUME NEW r \in Reservations, status[r] = "none", status'[r] = "active"
                 PROVE  status[holder'[r].parcel] = "active"
      OBVIOUS
    <2> USE <1>1 DEF IInv
    <2>1. PICK c \in Calls, q \in Reservations : EndReserve(c, q)
      BY ActiveShrinks
    <2>2. q = r
      BY <2>1, EndReserveEffect DEF Rows
    <2>3. holder'[r] = [user |-> job[c].as, parcel |-> job[c].on]
      BY <2>1, <2>2, EndReserveEffect
    <2>4. status[job[c].on] = "active"
      BY <2>1 DEF EndReserve, LockKeepsActive
    <2> QED
      BY <2>3, <2>4
  <1> QED
    BY <1>1, IInvHolds, PTL DEF Spec, ReservedWhileActive

=============================================================================
