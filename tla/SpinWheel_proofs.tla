-------------------------- MODULE SpinWheel_proofs --------------------------
(***************************************************************************)
(* Proofs about SpinWheel, for any campaigns, users, limits and requests.  *)
(***************************************************************************)
EXTENDS SpinWheel, FiniteSetTheorems, TLAPS

\* A request that has checked the limit of k and not saved its result yet, and
\* one that has saved it and not counted it.
EntersWith(j, k) == j.op = "spin" /\ j.of = k /\ j.at \in {"read", "checked"}
SavedWith(j, k) == j.op = "spin" /\ j.of = k /\ j.at = "saved"

Entering(k) == {c \in Calls : EntersWith(job[c], k)}
Uncounted(k) == {c \in Calls : SavedWith(job[c], k)}

\* The spins of a campaign that are to be found in its count.
Counted(k) == Cardinality(SpinsOf(k)) - Cardinality(Uncounted(k))

\* No count, neither that of the row nor one that an edit may write back, is
\* ahead of the spins.
CountsAreBacked ==
    \A k \in Campaigns :
        /\ 0 <= Counted(k)
        /\ row[k] # None => row[k].currentUses <= Counted(k)
        /\ \A c \in Calls : job[c].op = "update" /\ job[c].of = k =>
               job[c].entity.currentUses <= Counted(k)

\* Nor is that of the row behind, unless a use went uncounted.
RowsAreCounted ==
    \A k \in Campaigns :
        /\ row[k] = None => SpinsOf(k) = {}
        /\ limitsHad[k] = {} => row[k] = None
        /\ row[k] # None => row[k].maxUses \in limitsHad[k]
        /\ row[k] # None /\ k \notin miscounted => Counted(k) <= row[k].currentUses

IsMax(m, S) == m \in S /\ \A n \in S : n <= m

LimitsHaveMax ==
    \A k \in Campaigns : limitsHad[k] # {} => \E m \in limitsHad[k] : IsMax(m, limitsHad[k])

\* Whoever enters finds a spin less than the limit, or one that is not counted.
EntrantsAreFew ==
    \A k \in Campaigns \ miscounted :
        limitsHad[k] # {} /\ 0 \notin limitsHad[k] =>
            Cardinality(SpinsOf(k)) + Cardinality(Entering(k))
                < Max(limitsHad[k]) + Cardinality(Calls)

SpinInv == TypeOK /\ CountsAreBacked /\ RowsAreCounted /\ LimitsHaveMax /\ EntrantsAreFew

-----------------------------------------------------------------------------
(* Types. *)

\* The job of a call, by its operation.
LEMMA JobIs ==
    ASSUME TypeOK, NEW c \in Calls
    PROVE  /\ job[c].op \in {"idle", "spin", "update", "remove"}
           /\ job[c].op = "idle" <=> job[c] = Idle
           /\ job[c].op = "spin" => job[c] \in
                [op : {"spin"}, of : Campaigns, user : Users, since : Int, at : {"read", "checked", "saved"}]
           /\ job[c].op = "update" => job[c] \in
                [op : {"update"}, of : Campaigns, entity : Row, dirty : SUBSET Columns,
                 at : {"read", "differs", "gone"}]
           /\ job[c].op = "remove" => job[c] \in [op : {"remove"}, of : Campaigns]
  <1>1. job[c] \in Jobs
    BY DEF TypeOK
  <1> QED
    BY <1>1 DEF Jobs, Idle

\* A call takes up a job, or returns.
LEMMA JobType ==
    ASSUME TypeOK, NEW c \in Calls, NEW j \in Jobs, job' = [job EXCEPT ![c] = j]
    PROVE  job' \in [Calls -> Jobs]
  BY DEF TypeOK

LEMMA IdleIsJob == Idle \in Jobs
  BY DEF Jobs

\* What a row becomes is a row.
LEMMA SavedType ==
    ASSUME TypeOK, NEW c \in Calls, job[c].op = "update", job[c].at \in {"gone", "differs"}
    PROVE  /\ Saved(c) \in Row \cup {None}
           /\ job[c].of \in Campaigns
           /\ Saved(c) = None => row[job[c].of] = None
           /\ Saved(c) # None =>
                /\ row[job[c].of] = None => Saved(c).currentUses = job[c].entity.currentUses
                /\ Saved(c).currentUses \in {row[job[c].of].currentUses, job[c].entity.currentUses}
  <1> DEFINE old == row[job[c].of]
             new == job[c].entity
  <1>1. job[c].of \in Campaigns /\ new \in Row
    BY JobIs
  <1>2. old \in Row \cup {None}
    BY <1>1 DEF TypeOK
  <1>3. CASE job[c].at = "gone"
    BY <1>1, <1>2, <1>3, SpinWheelAssumption DEF Saved
  <1>4. CASE job[c].at = "differs" /\ old = None
    BY <1>1, <1>4 DEF Saved
  <1>5. CASE job[c].at = "differs" /\ old # None
    <2> DEFINE s == [f \in Columns |-> IF f \in job[c].dirty THEN new[f] ELSE old[f]]
    <2>1. Saved(c) = s
      BY <1>5 DEF Saved
    <2>2. new.status \in Statuses /\ new.maxUses \in Limits /\ new.currentUses \in Nat
      BY <1>1 DEF Row
    <2>3. old.status \in Statuses /\ old.maxUses \in Limits /\ old.currentUses \in Nat
      BY <1>2, <1>5 DEF Row
    <2>4. s = [status |-> s.status, maxUses |-> s.maxUses, currentUses |-> s.currentUses]
      BY DEF Columns
    <2>5. s.status \in Statuses /\ s.maxUses \in Limits /\ s.currentUses \in {old.currentUses, new.currentUses}
      BY <2>2, <2>3 DEF Columns
    <2>6. s \in Row
      <3>1. s.currentUses \in Nat
        BY <2>2, <2>3, <2>5
      <3> HIDE DEF s
      <3> QED
        BY <2>4, <2>5, <3>1 DEF Row
    <2> HIDE DEF s
    <2> QED
      BY <1>1, <1>5, <2>1, <2>5, <2>6, SpinWheelAssumption
  <1> QED
    BY <1>3, <1>4, <1>5

LEMMA SpinType ==
    ASSUME TypeOK, NEW c \in Calls, Spin(c)
    PROVE  TypeOK'
  <1>1. ASSUME NEW u \in Users, NEW k \in Campaigns, ReadCampaign(c, u, k) PROVE TypeOK'
    <2> DEFINE j == [op |-> "spin", of |-> k, user |-> u, since |-> now - Cooldown, at |-> "read"]
    <2>1. j \in Jobs
      BY SpinWheelAssumption DEF TypeOK, Jobs
    <2>2. job' \in [Calls -> Jobs] /\ UNCHANGED <<now, row, result, limitsHad, miscounted>>
      BY <1>1, <2>1, JobType DEF ReadCampaign
    <2> QED
      BY <2>2 DEF TypeOK
  <1>2. ASSUME job[c].op = "spin", NEW a \in {"checked", "saved"}
        PROVE  [job[c] EXCEPT !.at = a] \in Jobs
    BY <1>2, JobIs DEF Jobs
  <1>3. CASE CheckCooldown(c)
    <2>1. job' \in [Calls -> Jobs]
      <3>1. CASE Return(c)
        BY <3>1, JobType, IdleIsJob DEF Return
      <3>2. CASE job' = [job EXCEPT ![c].at = "checked"]
        BY <1>2, <1>3, <3>2, JobType DEF CheckCooldown
      <3> QED
        BY <1>3, <3>1, <3>2 DEF CheckCooldown
    <2> QED
      BY <1>3, <2>1 DEF CheckCooldown, TypeOK
  <1>4. ASSUME NEW x \in Results, SaveResult(c, x) PROVE TypeOK'
    <2>1. job' \in [Calls -> Jobs]
      BY <1>2, <1>4, JobType DEF SaveResult
    <2>2. [of |-> job[c].of, user |-> job[c].user, at |-> now] \in Spun
      BY <1>4, JobIs DEF SaveResult, Spun, TypeOK
    <2>3. result' \in [Results -> Spun \cup {None}]
      BY <1>4, <2>2 DEF SaveResult, TypeOK
    <2>4. UNCHANGED <<now, row, limitsHad, miscounted>>
      BY <1>4 DEF SaveResult
    <2> QED
      BY <2>1, <2>3, <2>4 DEF TypeOK
  <1>5. CASE Increment(c)
    <2> DEFINE k == job[c].of
    <2>1. job' \in [Calls -> Jobs] /\ UNCHANGED <<now, result, limitsHad, miscounted>>
      BY <1>5, JobType, IdleIsJob DEF Increment, Return
    <2>2. k \in Campaigns
      BY <1>5, JobIs DEF Increment
    <2>3. row' \in [Campaigns -> Row \cup {None}]
      <3>1. CASE row[k] = None
        BY <1>5, <3>1 DEF Increment, TypeOK
      <3>2. CASE row[k] # None
        <4>1. row[k] \in Row
          BY <2>2, <3>2 DEF TypeOK
        <4>2. [row[k] EXCEPT !.currentUses = @ + 1] \in Row
          BY <4>1 DEF Row
        <4>3. row' = [row EXCEPT ![k] = [row[k] EXCEPT !.currentUses = @ + 1]]
          BY <1>5, <3>2 DEF Increment
        <4> QED
          BY <4>2, <4>3 DEF TypeOK
      <3> QED
        BY <3>1, <3>2
    <2> QED
      BY <2>1, <2>3 DEF TypeOK
  <1> QED
    BY <1>1, <1>3, <1>4, <1>5 DEF Spin

\* The entity that an edit is to save.
LEMMA EditsAreRows ==
    ASSUME NEW r \in Row, NEW e \in Edits(r)
    PROVE  e \in Row /\ e.currentUses = r.currentUses
  <1>1. r.status \in Statuses /\ r.maxUses \in Limits /\ r.currentUses \in Nat
    BY DEF Row
  <1>2. PICK s \in NextStatuses(r), m \in {r.maxUses} \cup Limits : e = Edited(r, s, m)
    BY DEF Edits
  <1>3. s \in Statuses /\ m \in Limits
    BY <1>1, <1>2 DEF NextStatuses
  <1> QED
    BY <1>2, <1>3 DEF Row, Edited

LEMMA UpdateType ==
    ASSUME TypeOK, NEW c \in Calls, Update(c)
    PROVE  TypeOK'
  <1>1. ASSUME NEW k \in Campaigns, ReadForUpdate(c, k) PROVE TypeOK'
    <2>1. PICK e \in Edits(row[k]) : job' = [job EXCEPT ![c] =
            [op |-> "update", of |-> k, entity |-> e, dirty |-> {}, at |-> "read"]]
      BY <1>1 DEF ReadForUpdate
    <2>2. row[k] \in Row
      BY <1>1 DEF ReadForUpdate, TypeOK
    <2>3. [op |-> "update", of |-> k, entity |-> e, dirty |-> {}, at |-> "read"] \in Jobs
      BY <2>2, EditsAreRows DEF Jobs
    <2>4. job' \in [Calls -> Jobs]
      BY <2>1, <2>3, JobType
    <2> QED
      BY <1>1, <2>4 DEF ReadForUpdate, TypeOK
  <1>2. CASE Compare(c)
    <2>1. \/ job' = [job EXCEPT ![c] = Idle]
          \/ job' = [job EXCEPT ![c] = [job[c] EXCEPT !.at = "gone"]]
          \/ job' = [job EXCEPT ![c] = [job[c] EXCEPT !.at = "differs", !.dirty = DirtyColumns(c)]]
      BY <1>2 DEF Compare, Return
    <2>2. /\ [job[c] EXCEPT !.at = "gone"] \in Jobs
          /\ [job[c] EXCEPT !.at = "differs", !.dirty = DirtyColumns(c)] \in Jobs
      BY <1>2, JobIs DEF Compare, Jobs, DirtyColumns
    <2>3. job' \in [Calls -> Jobs]
      BY <2>1, <2>2, JobType, IdleIsJob
    <2> QED
      BY <1>2, <2>3 DEF Compare, TypeOK
  <1>3. CASE Write(c)
    <2> DEFINE k == job[c].of
    <2>1. job' \in [Calls -> Jobs] /\ UNCHANGED <<now, result>>
      BY <1>3, JobType, IdleIsJob DEF Write, Return
    <2>2. Saved(c) \in Row \cup {None} /\ k \in Campaigns
      BY <1>3, SavedType DEF Write
    <2>3. row' \in [Campaigns -> Row \cup {None}]
      BY <1>3, <2>2 DEF Write, TypeOK
    <2>4. limitsHad' \in [Campaigns -> SUBSET Limits]
      <3>1. CASE Saved(c) = None
        BY <1>3, <3>1 DEF Write, TypeOK
      <3>2. CASE Saved(c) # None
        <4>1. Saved(c).maxUses \in Limits
          BY <2>2, <3>2 DEF Row
        <4>2. limitsHad' = [limitsHad EXCEPT ![k] = limitsHad[k] \cup {Saved(c).maxUses}]
          BY <1>3, <3>2 DEF Write
        <4>3. limitsHad[k] \cup {Saved(c).maxUses} \in SUBSET Limits
          BY <2>2, <4>1 DEF TypeOK
        <4> QED
          BY <4>2, <4>3 DEF TypeOK
      <3> QED
        BY <3>1, <3>2
    <2>5. miscounted' \subseteq Campaigns
      BY <1>3, <2>2 DEF Write, TypeOK
    <2> QED
      BY <2>1, <2>3, <2>4, <2>5 DEF TypeOK
  <1> QED
    BY <1>1, <1>2, <1>3 DEF Update

LEMMA TypeStep ==
    ASSUME TypeOK, [Next]_spinVars
    PROVE  TypeOK'
  <1>1. CASE Tick
    BY <1>1, SpinWheelAssumption DEF Tick, TypeOK
  <1>2. ASSUME NEW k \in Campaigns, NEW limit \in Limits, Create(k, limit) PROVE TypeOK'
    <2>1. [status |-> "draft", maxUses |-> limit, currentUses |-> 0] \in Row
      BY DEF Row, Statuses
    <2>2. row' \in [Campaigns -> Row \cup {None}] /\ limitsHad' \in [Campaigns -> SUBSET Limits]
      BY <1>2, <2>1 DEF Create, TypeOK
    <2> QED
      BY <1>2, <2>2 DEF Create, TypeOK
  <1>3. ASSUME NEW c \in Calls, Spin(c) \/ Update(c) PROVE TypeOK'
    BY <1>3, SpinType, UpdateType
  <1>4. ASSUME NEW c \in Calls, Remove(c) PROVE TypeOK'
    <2>1. job' \in [Calls -> Jobs]
      BY <1>4, JobType, IdleIsJob DEF Remove, Return
    <2>2. row' \in [Campaigns -> Row \cup {None}] /\ UNCHANGED <<now, result, limitsHad, miscounted>>
      BY <1>4 DEF Remove, Unreferenced, TypeOK
    <2> QED
      BY <2>1, <2>2 DEF TypeOK
  <1>5. ASSUME NEW c \in Calls, CallFails(c) PROVE TypeOK'
    <2>1. job' \in [Calls -> Jobs] /\ UNCHANGED <<now, row, result, limitsHad>>
      BY <1>5, JobType, IdleIsJob DEF CallFails, Return
    <2>2. miscounted' \subseteq Campaigns
      BY <1>5, JobIs DEF CallFails, TypeOK
    <2> QED
      BY <2>1, <2>2 DEF TypeOK
  <1>6. ASSUME NEW c \in Calls, NEW k \in Campaigns, ReadForRemoval(c, k) PROVE TypeOK'
    <2>1. [op |-> "remove", of |-> k] \in Jobs
      BY DEF Jobs
    <2>2. job' \in [Calls -> Jobs]
      BY <1>6, <2>1, JobType DEF ReadForRemoval
    <2> QED
      BY <1>6, <2>2 DEF ReadForRemoval, TypeOK
  <1>7. CASE UNCHANGED spinVars
    BY <1>7 DEF spinVars, TypeOK
  <1> QED
    BY <1>1, <1>2, <1>3, <1>4, <1>5, <1>6, <1>7 DEF Next

-----------------------------------------------------------------------------
(* Who enters, who saves and who is counted. *)

LEMMA CountTypes ==
    ASSUME NEW k
    PROVE  /\ IsFiniteSet(SpinsOf(k)) /\ Cardinality(SpinsOf(k)) \in Nat
           /\ IsFiniteSet(Uncounted(k)) /\ Cardinality(Uncounted(k)) \in Nat
           /\ IsFiniteSet(Entering(k)) /\ Cardinality(Entering(k)) \in Nat
           /\ Cardinality(Calls) \in Nat
           /\ Counted(k) \in Int
  <1>1. SpinsOf(k) \in SUBSET Results /\ Uncounted(k) \in SUBSET Calls /\ Entering(k) \in SUBSET Calls
    BY DEF SpinsOf, Uncounted, Entering
  <1>2. IsFiniteSet(SpinsOf(k)) /\ IsFiniteSet(Uncounted(k)) /\ IsFiniteSet(Entering(k))
    BY <1>1, FS_Subset, SpinWheelAssumption
  <1>3. /\ Cardinality(SpinsOf(k)) \in Nat /\ Cardinality(Uncounted(k)) \in Nat
        /\ Cardinality(Entering(k)) \in Nat /\ Cardinality(Calls) \in Nat
    BY <1>2, FS_CardinalityType, SpinWheelAssumption
  <1> QED
    BY <1>2, <1>3 DEF Counted

\* The same for the next state.
LEMMA CountTypesNext ==
    ASSUME NEW k
    PROVE  /\ IsFiniteSet(SpinsOf(k)') /\ Cardinality(SpinsOf(k)') \in Nat
           /\ IsFiniteSet(Uncounted(k)') /\ Cardinality(Uncounted(k)') \in Nat
           /\ IsFiniteSet(Entering(k)') /\ Cardinality(Entering(k)') \in Nat
  <1>1. /\ SpinsOf(k)' \in SUBSET Results /\ Uncounted(k)' \in SUBSET Calls
        /\ Entering(k)' \in SUBSET Calls
    BY DEF SpinsOf, Uncounted, Entering
  <1>2. IsFiniteSet(SpinsOf(k)') /\ IsFiniteSet(Uncounted(k)') /\ IsFiniteSet(Entering(k)')
    BY <1>1, FS_Subset, SpinWheelAssumption
  <1> QED
    BY <1>2, FS_CardinalityType

\* The change of one job puts its call in its place.
LEMMA JobSets ==
    ASSUME TypeOK, NEW c \in Calls, NEW j, job' = [job EXCEPT ![c] = j], NEW k
    PROVE  /\ Uncounted(k)' = IF SavedWith(j, k) THEN Uncounted(k) \cup {c} ELSE Uncounted(k) \ {c}
           /\ Entering(k)' = IF EntersWith(j, k) THEN Entering(k) \cup {c} ELSE Entering(k) \ {c}
  <1>1. job'[c] = j /\ \A d \in Calls : d # c => job'[d] = job[d]
    BY DEF TypeOK
  <1>2. \A d \in Calls : d # c => /\ SavedWith(job'[d], k) <=> SavedWith(job[d], k)
                                  /\ EntersWith(job'[d], k) <=> EntersWith(job[d], k)
    BY <1>1
  <1>3. /\ SavedWith(job'[c], k) <=> SavedWith(j, k)
        /\ EntersWith(job'[c], k) <=> EntersWith(j, k)
    BY <1>1
  <1>4. /\ Uncounted(k)' = {d \in Calls : SavedWith(job'[d], k)}
        /\ Entering(k)' = {d \in Calls : EntersWith(job'[d], k)}
    BY DEF Uncounted, Entering, SavedWith, EntersWith
  <1> QED
    BY <1>2, <1>3, <1>4 DEF Uncounted, Entering

\* A step of call c that leaves the spins of k alone: c is where it was, or turns
\* back, or enters, or its spin is counted or lost.
SpinMoves(c, k) ==
    /\ SpinsOf(k)' = SpinsOf(k)
    /\ \/ Uncounted(k)' = Uncounted(k) /\ Entering(k)' \subseteq Entering(k)
       \/ /\ \E u \in Users : ReadCampaign(c, u, k)
          /\ Uncounted(k)' = Uncounted(k) /\ c \notin Uncounted(k)
          /\ Entering(k)' = Entering(k) \cup {c}
       \/ /\ Increment(c) \/ CallFails(c)
          /\ SavedWith(job[c], k)
          /\ c \in Uncounted(k) /\ Uncounted(k)' = Uncounted(k) \ {c}
          /\ Entering(k)' \subseteq Entering(k)

\* A step of call c that adds to them.
SpinSaved(c, k) ==
    /\ row[k] # None /\ row' = row /\ limitsHad' = limitsHad /\ miscounted' = miscounted
    /\ \E x \in Results : x \notin SpinsOf(k) /\ SpinsOf(k)' = SpinsOf(k) \cup {x}
    /\ c \notin Uncounted(k) /\ Uncounted(k)' = Uncounted(k) \cup {c}
    /\ c \in Entering(k) /\ Entering(k)' = Entering(k) \ {c}

LEMMA SpinMovesStep ==
    ASSUME TypeOK, NEW c \in Calls, Spin(c), NEW k \in Campaigns
    PROVE  SpinMoves(c, k) \/ SpinSaved(c, k)
  <1>1. ASSUME NEW u \in Users, NEW q \in Campaigns, ReadCampaign(c, u, q) PROVE SpinMoves(c, k)
    <2> DEFINE j == [op |-> "spin", of |-> q, user |-> u, since |-> now - Cooldown, at |-> "read"]
    <2>1. job[c] = Idle /\ job' = [job EXCEPT ![c] = j] /\ UNCHANGED result
      BY <1>1 DEF ReadCampaign
    <2>2. SpinsOf(k)' = SpinsOf(k)
      BY <2>1 DEF SpinsOf
    <2>3. c \notin Uncounted(k) /\ c \notin Entering(k)
      BY <2>1, JobIs DEF Uncounted, Entering, SavedWith, EntersWith
    <2>4. ~SavedWith(j, k) /\ (EntersWith(j, k) <=> q = k)
      BY DEF SavedWith, EntersWith
    <2> HIDE DEF j
    <2>5. /\ Uncounted(k)' = Uncounted(k)
          /\ Entering(k)' = IF q = k THEN Entering(k) \cup {c} ELSE Entering(k)
      <3>1. Uncounted(k)' = Uncounted(k) \ {c}
        BY <2>1, <2>4, JobSets
      <3>2. Entering(k)' = IF q = k THEN Entering(k) \cup {c} ELSE Entering(k) \ {c}
        BY <2>1, <2>4, JobSets
      <3> QED
        BY <2>3, <3>1, <3>2
    <2> QED
      BY <1>1, <2>2, <2>3, <2>5 DEF SpinMoves
  <1>2. ASSUME CheckCooldown(c) PROVE SpinMoves(c, k)
    <2>1. PICK j : /\ job' = [job EXCEPT ![c] = j] /\ ~SavedWith(j, k)
                   /\ EntersWith(j, k) => c \in Entering(k)
      <3>1. CASE Return(c)
        <4>1. ~SavedWith(Idle, k) /\ ~EntersWith(Idle, k)
          BY DEF SavedWith, EntersWith, Idle
        <4> QED
          BY <3>1, <4>1 DEF Return
      <3>2. CASE job' = [job EXCEPT ![c].at = "checked"]
        <4> DEFINE j == [job[c] EXCEPT !.at = "checked"]
        <4>1. j.op = "spin" /\ j.of = job[c].of /\ j.at = "checked"
          BY <1>2, JobIs DEF CheckCooldown
        <4>2. job[c].op = "spin" /\ job[c].at = "read"
          BY <1>2 DEF CheckCooldown
        <4>3. job' = [job EXCEPT ![c] = j]
          BY <3>2
        <4> HIDE DEF j
        <4> QED
          BY <4>1, <4>2, <4>3 DEF SavedWith, EntersWith, Entering
      <3> QED
        BY <1>2, <3>1, <3>2 DEF CheckCooldown
    <2>2. c \notin Uncounted(k)
      BY <1>2 DEF CheckCooldown, Uncounted, SavedWith
    <2>3. SpinsOf(k)' = SpinsOf(k)
      BY <1>2 DEF CheckCooldown, SpinsOf
    <2>4. Uncounted(k)' = Uncounted(k) /\ Entering(k)' \subseteq Entering(k)
      <3>1. Uncounted(k)' = Uncounted(k) \ {c}
        BY <2>1, JobSets
      <3>2. Entering(k)' = IF EntersWith(j, k) THEN Entering(k) \cup {c} ELSE Entering(k) \ {c}
        BY <2>1, JobSets
      <3> QED
        BY <2>1, <2>2, <3>1, <3>2
    <2> QED
      BY <2>3, <2>4 DEF SpinMoves
  <1>3. ASSUME NEW x \in Results, SaveResult(c, x) PROVE SpinMoves(c, k) \/ SpinSaved(c, k)
    <2> DEFINE q == job[c].of
               j == [job[c] EXCEPT !.at = "saved"]
               spun == [of |-> q, user |-> job[c].user, at |-> now]
    <2>1. job' = [job EXCEPT ![c] = j] /\ result' = [result EXCEPT ![x] = spun]
      BY <1>3 DEF SaveResult
    <2>2. j.op = "spin" /\ j.of = q /\ j.at = "saved"
      BY <1>3, JobIs DEF SaveResult
    <2>3. spun # None /\ spun.of = q
      BY <1>3, JobIs, SpinWheelAssumption DEF SaveResult, Spun, TypeOK
    <2>4. result[x] = None /\ row[q] # None
      BY <1>3 DEF SaveResult
    <2>5. c \notin Uncounted(k) /\ (c \in Entering(k) <=> q = k)
      BY <1>3 DEF SaveResult, Uncounted, Entering, SavedWith, EntersWith
    <2>6. ~EntersWith(j, k) /\ (SavedWith(j, k) <=> q = k)
      BY <2>2 DEF EntersWith, SavedWith
    <2> HIDE DEF j, spun
    <2>7. result'[x] = spun /\ \A y \in Results : y # x => result'[y] = result[y]
      BY <2>1 DEF TypeOK
    <2>8. x \notin SpinsOf(k) /\ SpinsOf(k)' = IF q = k THEN SpinsOf(k) \cup {x} ELSE SpinsOf(k)
      BY <2>3, <2>4, <2>7 DEF SpinsOf
    <2>9. /\ Uncounted(k)' = IF q = k THEN Uncounted(k) \cup {c} ELSE Uncounted(k)
          /\ Entering(k)' = Entering(k) \ {c}
      <3>1. Uncounted(k)' = IF q = k THEN Uncounted(k) \cup {c} ELSE Uncounted(k) \ {c}
        BY <2>1, <2>6, JobSets
      <3>2. Entering(k)' = Entering(k) \ {c}
        BY <2>1, <2>6, JobSets
      <3> QED
        BY <2>5, <3>1, <3>2
    <2>10. CASE q = k
      <3>1. UNCHANGED <<row, limitsHad, miscounted>>
        BY <1>3 DEF SaveResult
      <3> QED
        BY <2>4, <2>5, <2>8, <2>9, <2>10, <3>1 DEF SpinSaved
    <2>11. CASE q # k
      BY <2>5, <2>8, <2>9, <2>11 DEF SpinMoves
    <2> QED
      BY <2>10, <2>11
  <1>4. ASSUME Increment(c) PROVE SpinMoves(c, k)
    <2>1. job' = [job EXCEPT ![c] = Idle] /\ UNCHANGED result
      BY <1>4 DEF Increment, Return
    <2>2. ~SavedWith(Idle, k) /\ ~EntersWith(Idle, k)
      BY DEF SavedWith, EntersWith, Idle
    <2>3. SpinsOf(k)' = SpinsOf(k)
      BY <2>1 DEF SpinsOf
    <2>4. Uncounted(k)' = Uncounted(k) \ {c} /\ Entering(k)' = Entering(k) \ {c}
      BY <2>1, <2>2, JobSets
    <2>5. c \in Uncounted(k) <=> SavedWith(job[c], k)
      BY DEF Uncounted
    <2> QED
      BY <1>4, <2>3, <2>4, <2>5 DEF SpinMoves
  <1> QED
    BY <1>1, <1>2, <1>3, <1>4 DEF Spin

\* Whatever the step is.
LEMMA MovesStep ==
    ASSUME TypeOK, [Next]_spinVars, NEW k \in Campaigns
    PROVE  \/ SpinsOf(k)' = SpinsOf(k) /\ Uncounted(k)' = Uncounted(k) /\ Entering(k)' = Entering(k)
           \/ \E c \in Calls : SpinMoves(c, k) \/ SpinSaved(c, k)
  <1> DEFINE Same == /\ SpinsOf(k)' = SpinsOf(k) /\ Uncounted(k)' = Uncounted(k)
                     /\ Entering(k)' = Entering(k)
  <1>1. ASSUME UNCHANGED <<result, job>> PROVE Same
    BY <1>1 DEF SpinsOf, Uncounted, Entering
  <1>2. ASSUME NEW c \in Calls, NEW j, job' = [job EXCEPT ![c] = j], UNCHANGED result,
               job[c].op # "spin", j.op # "spin"
        PROVE  Same
    <2>1. c \notin Uncounted(k) /\ c \notin Entering(k) /\ ~SavedWith(j, k) /\ ~EntersWith(j, k)
      BY <1>2 DEF Uncounted, Entering, SavedWith, EntersWith
    <2>2. SpinsOf(k)' = SpinsOf(k)
      BY <1>2 DEF SpinsOf
    <2>3. Uncounted(k)' = Uncounted(k) \ {c} /\ Entering(k)' = Entering(k) \ {c}
      BY <1>2, <2>1, JobSets
    <2> QED
      BY <2>1, <2>2, <2>3
  <1>3. Idle.op = "idle"
    BY DEF Idle
  <1>4. CASE Tick \/ UNCHANGED spinVars
    BY <1>1, <1>4 DEF Tick, spinVars
  <1>5. ASSUME NEW q \in Campaigns, NEW limit \in Limits, Create(q, limit) PROVE Same
    BY <1>1, <1>5 DEF Create
  <1>6. ASSUME NEW c \in Calls, Update(c) PROVE Same
    <2>1. ASSUME NEW q \in Campaigns, ReadForUpdate(c, q) PROVE Same
      <3>1. PICK e \in Edits(row[q]) : job' = [job EXCEPT ![c] =
              [op |-> "update", of |-> q, entity |-> e, dirty |-> {}, at |-> "read"]]
        BY <2>1 DEF ReadForUpdate
      <3>2. job[c].op = "idle" /\ UNCHANGED result
        BY <1>3, <2>1 DEF ReadForUpdate
      <3> DEFINE j == [op |-> "update", of |-> q, entity |-> e, dirty |-> {}, at |-> "read"]
      <3>3. job' = [job EXCEPT ![c] = j] /\ j.op # "spin"
        BY <3>1
      <3> HIDE DEF j
      <3> QED
        BY <1>2, <3>2, <3>3
    <2>2. ASSUME Compare(c) PROVE Same
      <3>1. job[c].op = "update" /\ UNCHANGED result
        BY <2>2 DEF Compare
      <3>2. \/ job' = [job EXCEPT ![c] = Idle]
            \/ job' = [job EXCEPT ![c] = [job[c] EXCEPT !.at = "gone"]]
            \/ job' = [job EXCEPT ![c] = [job[c] EXCEPT !.at = "differs", !.dirty = DirtyColumns(c)]]
        BY <2>2 DEF Compare, Return
      <3>3. /\ [job[c] EXCEPT !.at = "gone"].op = "update"
            /\ [job[c] EXCEPT !.at = "differs", !.dirty = DirtyColumns(c)].op = "update"
        BY <3>1, JobIs
      <3> QED
        BY <1>2, <1>3, <3>1, <3>2, <3>3
    <2>3. ASSUME Write(c) PROVE Same
      BY <1>2, <1>3, <2>3 DEF Write, Return
    <2> QED
      BY <1>6, <2>1, <2>2, <2>3 DEF Update
  <1>7. ASSUME NEW c \in Calls, Remove(c) PROVE Same
    BY <1>2, <1>3, <1>7 DEF Remove, Return, Unreferenced
  <1>8. ASSUME NEW c \in Calls, NEW q \in Campaigns, ReadForRemoval(c, q) PROVE Same
    <2>1. [op |-> "remove", of |-> q].op # "spin"
      OBVIOUS
    <2> QED
      BY <1>2, <1>3, <1>8, <2>1 DEF ReadForRemoval
  <1>9. ASSUME NEW c \in Calls, CallFails(c) PROVE SpinMoves(c, k)
    <2>1. job' = [job EXCEPT ![c] = Idle] /\ UNCHANGED result
      BY <1>9 DEF CallFails, Return
    <2>2. ~SavedWith(Idle, k) /\ ~EntersWith(Idle, k)
      BY DEF SavedWith, EntersWith, Idle
    <2>3. SpinsOf(k)' = SpinsOf(k)
      BY <2>1 DEF SpinsOf
    <2>4. Uncounted(k)' = Uncounted(k) \ {c} /\ Entering(k)' = Entering(k) \ {c}
      BY <2>1, <2>2, JobSets
    <2>5. c \in Uncounted(k) <=> SavedWith(job[c], k)
      BY DEF Uncounted
    <2> QED
      BY <1>9, <2>3, <2>4, <2>5 DEF SpinMoves
  <1> QED
    BY <1>4, <1>5, <1>6, <1>7, <1>8, <1>9, SpinMovesStep DEF Next

LEMMA CountedStep ==
    ASSUME TypeOK, [Next]_spinVars, NEW k \in Campaigns
    PROVE  /\ Counted(k) \in Int /\ Counted(k)' \in Int
           /\ \/ Counted(k)' = Counted(k)
              \/ /\ Counted(k)' = Counted(k) + 1
                 /\ \E c \in Calls : (Increment(c) \/ CallFails(c)) /\ SavedWith(job[c], k)
  <1>0. Counted(k)' = Cardinality(SpinsOf(k)') - Cardinality(Uncounted(k)')
    BY DEF Counted
  <1>1. Counted(k) \in Int /\ Counted(k)' \in Int
    BY <1>0, CountTypes, CountTypesNext
  <1>2. CASE SpinsOf(k)' = SpinsOf(k) /\ Uncounted(k)' = Uncounted(k)
    BY <1>0, <1>1, <1>2 DEF Counted
  <1>3. ASSUME NEW c \in Calls, SpinMoves(c, k), Uncounted(k)' # Uncounted(k)
        PROVE  /\ Counted(k)' = Counted(k) + 1
               /\ (Increment(c) \/ CallFails(c)) /\ SavedWith(job[c], k)
    <2>1. /\ (Increment(c) \/ CallFails(c)) /\ SavedWith(job[c], k)
          /\ c \in Uncounted(k) /\ Uncounted(k)' = Uncounted(k) \ {c} /\ SpinsOf(k)' = SpinsOf(k)
      BY <1>3 DEF SpinMoves
    <2>2. Cardinality(Uncounted(k)') = Cardinality(Uncounted(k)) - 1
      BY <2>1, CountTypes, FS_RemoveElement
    <2> QED
      BY <1>0, <2>1, <2>2, CountTypes DEF Counted
  <1>4. ASSUME NEW c \in Calls, SpinSaved(c, k) PROVE Counted(k)' = Counted(k)
    <2>1. PICK x \in Results : x \notin SpinsOf(k) /\ SpinsOf(k)' = SpinsOf(k) \cup {x}
      BY <1>4 DEF SpinSaved
    <2>2. Cardinality(SpinsOf(k)') = Cardinality(SpinsOf(k)) + 1
      BY <2>1, CountTypes, FS_AddElement
    <2>3. c \notin Uncounted(k) /\ Uncounted(k)' = Uncounted(k) \cup {c}
      BY <1>4 DEF SpinSaved
    <2>4. Cardinality(Uncounted(k)') = Cardinality(Uncounted(k)) + 1
      BY <2>3, CountTypes, FS_AddElement
    <2> QED
      BY <1>0, <2>2, <2>4, CountTypes DEF Counted
  <1> QED
    BY <1>1, <1>2, <1>3, <1>4, MovesStep DEF SpinMoves

-----------------------------------------------------------------------------
(* What becomes of a campaign. *)

RowSet(k) ==
    \/ row'[k] = row[k]
    \/ \E limit \in Limits :
         /\ Create(k, limit)
         /\ row'[k] # None /\ row'[k].currentUses = 0 /\ row'[k].maxUses = limit
    \/ \E c \in Calls :
         /\ Increment(c) /\ SavedWith(job[c], k) /\ row[k] # None
         /\ row'[k].currentUses = row[k].currentUses + 1 /\ row'[k].maxUses = row[k].maxUses
    \/ \E c \in Calls :
         /\ Write(c) /\ job[c].op = "update" /\ job[c].of = k
         /\ row'[k] = Saved(c) /\ Saved(c) # None
    \/ row'[k] = None /\ SpinsOf(k) = {}

LEMMA RowStep ==
    ASSUME TypeOK, [Next]_spinVars, NEW k \in Campaigns
    PROVE  RowSet(k)
  <1>1. ASSUME NEW q \in Campaigns, NEW limit \in Limits, Create(q, limit) PROVE RowSet(k)
    <2> DEFINE r == [status |-> "draft", maxUses |-> limit, currentUses |-> 0]
    <2>1. row' = [row EXCEPT ![q] = r]
      BY <1>1 DEF Create
    <2>2. r \in Row /\ r # None
      BY SpinWheelAssumption DEF Row, Statuses
    <2>3. CASE q = k
      <3>1. row'[k] = r
        BY <2>1, <2>3 DEF TypeOK
      <3> QED
        BY <1>1, <2>2, <2>3, <3>1 DEF RowSet
    <2>4. CASE q # k
      BY <2>1, <2>4 DEF RowSet, TypeOK
    <2> QED
      BY <2>3, <2>4
  <1>2. ASSUME NEW c \in Calls, Increment(c) PROVE RowSet(k)
    <2> DEFINE q == job[c].of
    <2>1. q \in Campaigns
      BY <1>2, JobIs DEF Increment
    <2>2. CASE row[q] = None \/ q # k
      BY <1>2, <2>2 DEF Increment, RowSet, TypeOK
    <2>3. CASE row[q] # None /\ q = k
      <3>1. row[k] \in Row
        BY <2>3 DEF TypeOK
      <3>2. row'[k] = [row[k] EXCEPT !.currentUses = @ + 1]
        BY <1>2, <2>3 DEF Increment, TypeOK
      <3>3. /\ row'[k].currentUses = row[k].currentUses + 1
            /\ row'[k].maxUses = row[k].maxUses
        BY <3>1, <3>2 DEF Row
      <3>4. SavedWith(job[c], k)
        BY <1>2, <2>3 DEF Increment, SavedWith
      <3> QED
        BY <1>2, <2>3, <3>3, <3>4 DEF RowSet
    <2> QED
      BY <2>2, <2>3
  <1>3. ASSUME NEW c \in Calls, Write(c) PROVE RowSet(k)
    <2> DEFINE q == job[c].of
    <2>1. row' = [row EXCEPT ![q] = Saved(c)] /\ job[c].op = "update" /\ job[c].at \in {"gone", "differs"}
      BY <1>3 DEF Write
    <2>2. CASE q # k
      BY <2>1, <2>2 DEF RowSet, TypeOK
    <2>3. CASE q = k
      <3>1. row'[k] = Saved(c)
        BY <2>1, <2>3 DEF TypeOK
      <3>2. Saved(c) = None => row[k] = None
        BY <2>1, <2>3, SavedType
      <3> QED
        BY <1>3, <2>1, <2>3, <3>1, <3>2 DEF RowSet
    <2> QED
      BY <2>2, <2>3
  <1>4. ASSUME NEW c \in Calls, Remove(c) PROVE RowSet(k)
    <2>1. row' = [row EXCEPT ![job[c].of] = None] /\ SpinsOf(job[c].of) = {}
      BY <1>4 DEF Remove, Unreferenced
    <2> QED
      BY <2>1 DEF RowSet, TypeOK
  <1>5. ASSUME NEW c \in Calls, Spin(c) PROVE RowSet(k)
    <2>1. row' = row \/ Increment(c)
      BY <1>5 DEF Spin, ReadCampaign, CheckCooldown, SaveResult
    <2> QED
      BY <1>2, <2>1 DEF RowSet
  <1>6. ASSUME NEW c \in Calls, Update(c) PROVE RowSet(k)
    <2>1. row' = row \/ Write(c)
      BY <1>6 DEF Update, ReadForUpdate, Compare
    <2> QED
      BY <1>3, <2>1 DEF RowSet
  <1>7. ASSUME \/ Tick \/ UNCHANGED spinVars
               \/ \E c \in Calls : CallFails(c)
               \/ \E c \in Calls, q \in Campaigns : ReadForRemoval(c, q)
        PROVE  RowSet(k)
    <2>1. row' = row
      BY <1>7 DEF Tick, CallFails, ReadForRemoval, spinVars
    <2> QED
      BY <2>1 DEF RowSet
  <1> QED
    BY <1>1, <1>4, <1>5, <1>6, <1>7 DEF Next

\* A campaign gets one more limit at a time, with a row that has it.
LEMMA LimitsStep ==
    ASSUME TypeOK, [Next]_spinVars, NEW k \in Campaigns
    PROVE  \/ limitsHad'[k] = limitsHad[k]
           \/ \E m \in Limits : limitsHad'[k] = limitsHad[k] \cup {m}
  <1>1. ASSUME NEW q \in Campaigns, NEW limit \in Limits, Create(q, limit)
        PROVE  limitsHad'[k] = limitsHad[k] \/ limitsHad'[k] = limitsHad[k] \cup {limit}
    <2>1. limitsHad[q] = {} /\ limitsHad' = [limitsHad EXCEPT ![q] = {limit}]
      BY <1>1 DEF Create
    <2> QED
      BY <2>1 DEF TypeOK
  <1>2. ASSUME NEW c \in Calls, Write(c)
        PROVE  \/ limitsHad'[k] = limitsHad[k]
               \/ \E m \in Limits : limitsHad'[k] = limitsHad[k] \cup {m}
    <2>1. CASE Saved(c) = None
      BY <1>2, <2>1 DEF Write
    <2>2. CASE Saved(c) # None
      <3>1. Saved(c).maxUses \in Limits
        BY <1>2, <2>2, SavedType DEF Write, Row
      <3>2. limitsHad' = [limitsHad EXCEPT ![job[c].of] = limitsHad[job[c].of] \cup {Saved(c).maxUses}]
        BY <1>2, <2>2 DEF Write
      <3> QED
        BY <3>1, <3>2 DEF TypeOK
    <2> QED
      BY <2>1, <2>2
  <1>3. ASSUME NEW c \in Calls, Update(c) PROVE limitsHad' = limitsHad \/ Write(c)
    BY <1>3 DEF Update, ReadForUpdate, Compare
  <1>4. ASSUME NEW c \in Calls, Spin(c) \/ Remove(c) \/ CallFails(c) PROVE limitsHad' = limitsHad
    BY <1>4 DEF Spin, ReadCampaign, CheckCooldown, SaveResult, Increment, Remove, CallFails
  <1>5. ASSUME \/ Tick \/ UNCHANGED spinVars
               \/ \E c \in Calls, q \in Campaigns : ReadForRemoval(c, q)
        PROVE  limitsHad' = limitsHad
    BY <1>5 DEF Tick, ReadForRemoval, spinVars
  <1> QED
    BY <1>1, <1>2, <1>3, <1>4, <1>5 DEF Next

LEMMA MiscountedStays ==
    ASSUME [Next]_spinVars
    PROVE  miscounted \subseteq miscounted'
  BY DEF Next, Tick, Create, Spin, ReadCampaign, CheckCooldown, SaveResult, Increment, Update,
      ReadForUpdate, Compare, Write, Remove, CallFails, ReadForRemoval, spinVars

\* The entity of an edit is the one it read, with the count of the row then.
LEMMA EntityStep ==
    ASSUME TypeOK, [Next]_spinVars, NEW c \in Calls, job'[c].op = "update"
    PROVE  \/ /\ job[c].op = "update" /\ job'[c].of = job[c].of
              /\ job'[c].entity = job[c].entity
           \/ /\ job'[c].of \in Campaigns /\ row[job'[c].of] # None
              /\ job'[c].entity.currentUses = row[job'[c].of].currentUses
  <1> DEFINE Kept == /\ job[c].op = "update" /\ job'[c].of = job[c].of
                     /\ job'[c].entity = job[c].entity
             Read == /\ job'[c].of \in Campaigns /\ row[job'[c].of] # None
                     /\ job'[c].entity.currentUses = row[job'[c].of].currentUses
  <1>1. job'[c] = job[c] => Kept
    OBVIOUS
  <1>2. ASSUME NEW d \in Calls, NEW j, job' = [job EXCEPT ![d] = j]
        PROVE  job'[c] = job[c] \/ (c = d /\ job'[c] = j)
    BY <1>2 DEF TypeOK
  <1>3. ASSUME NEW d \in Calls, Return(d) PROVE Kept
    BY <1>1, <1>2, <1>3 DEF Return, Idle
  <1>4. ASSUME NEW d \in Calls, NEW q \in Campaigns, ReadForUpdate(d, q) PROVE Kept \/ Read
    <2>1. PICK e \in Edits(row[q]) : job' = [job EXCEPT ![d] =
            [op |-> "update", of |-> q, entity |-> e, dirty |-> {}, at |-> "read"]]
      BY <1>4 DEF ReadForUpdate
    <2>2. row[q] # None /\ row[q] \in Row
      BY <1>4 DEF ReadForUpdate, TypeOK
    <2>3. e.currentUses = row[q].currentUses
      BY <2>2, EditsAreRows
    <2>4. CASE c = d
      <3>1. job'[c] = [op |-> "update", of |-> q, entity |-> e, dirty |-> {}, at |-> "read"]
        BY <2>1, <2>4 DEF TypeOK
      <3>2. job'[c].of = q /\ job'[c].entity = e
        BY <3>1
      <3> QED
        BY <2>2, <2>3, <3>2
    <2>5. CASE c # d
      BY <1>1, <2>1, <2>5 DEF TypeOK
    <2> QED
      BY <2>4, <2>5
  <1>5. ASSUME NEW d \in Calls, Compare(d) PROVE Kept
    <2>1. \/ Return(d)
          \/ job' = [job EXCEPT ![d] = [job[d] EXCEPT !.at = "gone"]]
          \/ job' = [job EXCEPT ![d] = [job[d] EXCEPT !.at = "differs", !.dirty = DirtyColumns(d)]]
      BY <1>5 DEF Compare
    <2>2. job[d].op = "update"
      BY <1>5 DEF Compare
    <2>3. ASSUME NEW j \in {[job[d] EXCEPT !.at = "gone"],
                            [job[d] EXCEPT !.at = "differs", !.dirty = DirtyColumns(d)]}
          PROVE  j.op = job[d].op /\ j.of = job[d].of /\ j.entity = job[d].entity
      BY <2>2, JobIs
    <2> QED
      BY <1>1, <1>2, <1>3, <2>1, <2>2, <2>3
  <1>6. ASSUME NEW d \in Calls, Update(d) PROVE Kept \/ Read
    BY <1>3, <1>4, <1>5, <1>6 DEF Update, Write
  <1>7. ASSUME NEW d \in Calls, Spin(d) PROVE Kept
    <2>1. ASSUME NEW u \in Users, NEW q \in Campaigns, ReadCampaign(d, u, q) PROVE Kept
      <3>1. job' = [job EXCEPT ![d] =
              [op |-> "spin", of |-> q, user |-> u, since |-> now - Cooldown, at |-> "read"]]
        BY <2>1 DEF ReadCampaign
      <3> QED
        BY <1>1, <3>1 DEF TypeOK
    <2>2. ASSUME NEW a \in {"checked", "saved"}, job[d].op = "spin",
                 job' = [job EXCEPT ![d] = [job[d] EXCEPT !.at = a]]
          PROVE  Kept
      <3>1. [job[d] EXCEPT !.at = a].op = "spin"
        BY <2>2, JobIs
      <3> QED
        BY <1>1, <1>2, <2>2, <3>1
    <2>3. CheckCooldown(d) => Kept
      BY <1>3, <2>2 DEF CheckCooldown
    <2>4. \A x \in Results : SaveResult(d, x) => Kept
      BY <2>2 DEF SaveResult
    <2> QED
      BY <1>3, <1>7, <2>1, <2>3, <2>4 DEF Spin, Increment
  <1>8. ASSUME NEW d \in Calls, Remove(d) \/ CallFails(d) PROVE Kept
    BY <1>3, <1>8 DEF Remove, CallFails
  <1>9. ASSUME NEW d \in Calls, NEW q \in Campaigns, ReadForRemoval(d, q) PROVE Kept
    <2>1. job' = [job EXCEPT ![d] = [op |-> "remove", of |-> q]]
      BY <1>9 DEF ReadForRemoval
    <2> QED
      BY <1>1, <2>1 DEF TypeOK
  <1>10. ASSUME \/ Tick \/ UNCHANGED spinVars
                \/ \E q \in Campaigns, limit \in Limits : Create(q, limit)
         PROVE  Kept
    BY <1>1, <1>10 DEF Tick, Create, spinVars
  <1> QED
    BY <1>6, <1>7, <1>8, <1>9, <1>10 DEF Next

-----------------------------------------------------------------------------
(* The invariant. *)

LEMMA BackedStep ==
    ASSUME TypeOK, CountsAreBacked, [Next]_spinVars
    PROVE  CountsAreBacked'
  <1> SUFFICES ASSUME NEW k \in Campaigns
               PROVE  /\ 0 <= Counted(k)'
                      /\ row'[k] # None => row'[k].currentUses <= Counted(k)'
                      /\ \A c \in Calls : job'[c].op = "update" /\ job'[c].of = k =>
                             job'[c].entity.currentUses <= Counted(k)'
    BY DEF CountsAreBacked
  <1>1. Counted(k) \in Int /\ Counted(k)' \in Int /\ Counted(k) <= Counted(k)'
    BY CountedStep
  <1>2. 0 <= Counted(k)'
    BY <1>1 DEF CountsAreBacked
  <1>3. ASSUME NEW n \in Nat, n <= Counted(k) PROVE n <= Counted(k)'
    BY <1>1, <1>3
  <1>4. row[k] # None => row[k].currentUses \in Nat /\ row[k].currentUses <= Counted(k)
    BY DEF TypeOK, Row, CountsAreBacked
  <1>5. \A c \in Calls : job[c].op = "update" /\ job[c].of = k =>
            job[c].entity.currentUses \in Nat /\ job[c].entity.currentUses <= Counted(k)
    BY JobIs DEF Row, CountsAreBacked
  <1>6. ASSUME row'[k] # None PROVE row'[k].currentUses <= Counted(k)'
    <2>1. CASE row'[k] = row[k]
      BY <1>3, <1>4, <1>6, <2>1
    <2>2. CASE row'[k].currentUses = 0
      BY <1>2, <2>2
    <2>3. ASSUME NEW c \in Calls, Increment(c), SavedWith(job[c], k), row[k] # None,
                 row'[k].currentUses = row[k].currentUses + 1
          PROVE  row'[k].currentUses <= Counted(k)'
      <3>1. Counted(k)' = Counted(k) + 1
        <4>1. c \in Uncounted(k)
          BY <2>3 DEF Uncounted
        <4>2. /\ Uncounted(k)' = Uncounted(k) \ {c} /\ SpinsOf(k)' = SpinsOf(k)
          <5>1. job' = [job EXCEPT ![c] = Idle] /\ UNCHANGED result
            BY <2>3 DEF Increment, Return
          <5>2. ~SavedWith(Idle, k)
            BY DEF SavedWith, Idle
          <5> QED
            BY <5>1, <5>2, JobSets DEF SpinsOf
        <4>3. Cardinality(Uncounted(k)') = Cardinality(Uncounted(k)) - 1
          BY <4>1, <4>2, CountTypes, FS_RemoveElement
        <4> QED
          BY <4>2, <4>3, CountTypes DEF Counted
      <3> QED
        BY <1>1, <1>4, <2>3, <3>1
    <2>4. ASSUME NEW c \in Calls, Write(c), job[c].op = "update", job[c].of = k,
                 row'[k] = Saved(c), Saved(c) # None
          PROVE  row'[k].currentUses <= Counted(k)'
      <3>1. /\ row[k] = None => row'[k].currentUses = job[c].entity.currentUses
            /\ row'[k].currentUses \in {row[k].currentUses, job[c].entity.currentUses}
        BY <2>4, SavedType DEF Write
      <3>2. row'[k].currentUses \in Nat /\ row'[k].currentUses <= Counted(k)
        BY <1>4, <1>5, <2>4, <3>1
      <3> QED
        BY <1>3, <3>2
    <2> QED
      BY <1>6, <2>1, <2>2, <2>3, <2>4, RowStep DEF RowSet
  <1>7. ASSUME NEW c \in Calls, job'[c].op = "update", job'[c].of = k
        PROVE  job'[c].entity.currentUses <= Counted(k)'
    <2>1. job'[c].entity.currentUses \in Nat /\ job'[c].entity.currentUses <= Counted(k)
      BY <1>4, <1>5, <1>7, EntityStep
    <2> QED
      BY <1>3, <2>1
  <1> QED
    BY <1>2, <1>6, <1>7

LEMMA EmptyIsNotCounted ==
    ASSUME NEW k, SpinsOf(k) = {}
    PROVE  Counted(k) <= 0
  BY CountTypes, FS_EmptySet DEF Counted

LEMMA RowsStep ==
    ASSUME TypeOK, CountsAreBacked, RowsAreCounted, [Next]_spinVars
    PROVE  RowsAreCounted'
  <1> SUFFICES ASSUME NEW k \in Campaigns
               PROVE  /\ row'[k] = None => SpinsOf(k)' = {}
                      /\ limitsHad'[k] = {} => row'[k] = None
                      /\ row'[k] # None => row'[k].maxUses \in limitsHad'[k]
                      /\ row'[k] # None /\ k \notin miscounted' => Counted(k)' <= row'[k].currentUses
    BY DEF RowsAreCounted
  <1> DEFINE Good == /\ row'[k] = None => SpinsOf(k)' = {}
                     /\ limitsHad'[k] = {} => row'[k] = None
                     /\ row'[k] # None => row'[k].maxUses \in limitsHad'[k]
                     /\ row'[k] # None /\ k \notin miscounted' => Counted(k)' <= row'[k].currentUses
  <1>0. /\ row[k] = None => SpinsOf(k) = {}
        /\ limitsHad[k] = {} => row[k] = None
        /\ row[k] # None => row[k].maxUses \in limitsHad[k]
        /\ row[k] # None /\ k \notin miscounted => Counted(k) <= row[k].currentUses
    BY DEF RowsAreCounted
  <1>1. row[k] \in Row \cup {None}
    BY DEF TypeOK
  <1>2. limitsHad[k] \subseteq limitsHad'[k] /\ miscounted \subseteq miscounted'
    BY LimitsStep, MiscountedStays
  <1>3. ASSUME row[k] = None PROVE SpinsOf(k)' = {}
    BY <1>0, <1>3, MovesStep DEF SpinMoves, SpinSaved
  <1>4. CASE row'[k] = row[k]
    <2>1. row'[k] # None => row[k].maxUses \in limitsHad'[k]
      BY <1>0, <1>2, <1>4
    <2>2. limitsHad'[k] = {} => row'[k] = None
      BY <1>0, <1>2, <1>4
    <2>3. ASSUME row'[k] # None, k \notin miscounted' PROVE Counted(k)' <= row'[k].currentUses
      <3>1. Counted(k) <= row[k].currentUses
        BY <1>0, <1>2, <1>4, <2>3
      <3>2. ASSUME NEW c \in Calls, Increment(c), SavedWith(job[c], k) PROVE FALSE
        <4>1. row'[k] = [row[k] EXCEPT !.currentUses = @ + 1]
          BY <1>4, <2>3, <3>2 DEF Increment, SavedWith, TypeOK
        <4>2. row[k] \in Row
          BY <1>1, <1>4, <2>3
        <4>3. row[k].currentUses \in Nat /\ row'[k].currentUses = row[k].currentUses + 1
          BY <4>1, <4>2 DEF Row
        <4>4. row'[k].currentUses = row[k].currentUses
          BY <1>4
        <4> QED
          BY <4>3, <4>4
      <3>3. ASSUME NEW c \in Calls, CallFails(c), SavedWith(job[c], k) PROVE FALSE
        BY <2>3, <3>3 DEF CallFails, SavedWith
      <3> QED
        BY <1>4, <3>1, <3>2, <3>3, CountedStep
    <2> QED
      BY <1>3, <1>4, <2>1, <2>2, <2>3
  <1>5. ASSUME NEW limit \in Limits, Create(k, limit), row'[k] # None, row'[k].currentUses = 0,
               row'[k].maxUses = limit
        PROVE  Good
    <2>1. limitsHad[k] = {} /\ limitsHad' = [limitsHad EXCEPT ![k] = {limit}]
      BY <1>5 DEF Create
    <2>2. limitsHad'[k] = {limit}
      BY <2>1 DEF TypeOK
    <2>3. Counted(k)' <= 0
      <3>1. SpinsOf(k)' = {} /\ Counted(k)' = Cardinality(SpinsOf(k)') - Cardinality(Uncounted(k)')
        BY <1>0, <1>3, <2>1 DEF Counted
      <3>2. Cardinality(SpinsOf(k)') = 0
        BY <3>1, FS_EmptySet
      <3> QED
        BY <3>1, <3>2, CountTypesNext
    <2> QED
      BY <1>5, <2>2, <2>3
  <1>6. ASSUME NEW c \in Calls, Increment(c), SavedWith(job[c], k), row[k] # None,
               row'[k].currentUses = row[k].currentUses + 1, row'[k].maxUses = row[k].maxUses
        PROVE  Good
    <2>1. row'[k] # None
      <3>1. row'[k] = [row[k] EXCEPT !.currentUses = @ + 1]
        BY <1>6 DEF Increment, SavedWith, TypeOK
      <3>2. row'[k] \in Row
        BY <1>1, <1>6, <3>1 DEF Row
      <3> QED
        BY <3>2, SpinWheelAssumption
    <2>2. Counted(k) \in Int /\ Counted(k)' \in Int /\ Counted(k)' <= Counted(k) + 1
      BY CountedStep
    <2>3. row[k].currentUses \in Nat
      BY <1>1, <1>6 DEF Row
    <2>4. k \notin miscounted' => Counted(k)' <= row'[k].currentUses
      BY <1>0, <1>2, <1>6, <2>2, <2>3
    <2> QED
      BY <1>0, <1>2, <1>6, <2>1, <2>4
  <1>7. ASSUME NEW c \in Calls, Write(c), job[c].op = "update", job[c].of = k,
               row'[k] = Saved(c), Saved(c) # None
        PROVE  Good
    <2>1. limitsHad' = [limitsHad EXCEPT ![k] = limitsHad[k] \cup {Saved(c).maxUses}]
      BY <1>7 DEF Write
    <2>2. row'[k].maxUses \in limitsHad'[k]
      BY <1>7, <2>1 DEF TypeOK
    <2>3. Counted(k)' = Counted(k) /\ SpinsOf(k)' = SpinsOf(k)
      <3>1. job' = [job EXCEPT ![c] = Idle] /\ UNCHANGED result
        BY <1>7 DEF Write, Return
      <3>2. ~SavedWith(Idle, k) /\ c \notin Uncounted(k)
        BY <1>7 DEF SavedWith, Idle, Uncounted
      <3>3. Uncounted(k)' = Uncounted(k) \ {c} /\ SpinsOf(k)' = SpinsOf(k)
        BY <3>1, <3>2, JobSets DEF SpinsOf
      <3>4. Uncounted(k)' = Uncounted(k)
        BY <3>2, <3>3
      <3> QED
        BY <3>3, <3>4 DEF Counted
    <2>4. Saved(c).currentUses \in Nat
      BY <1>7, SavedType DEF Write, Row
    <2>5. ASSUME k \notin miscounted' PROVE Counted(k)' <= row'[k].currentUses
      <3>1. CASE row[k] = None
        <4>1. Counted(k) <= 0
          BY <1>0, <3>1, EmptyIsNotCounted
        <4> QED
          BY <1>7, <2>3, <2>4, <4>1, CountTypes
      <3>2. CASE row[k] # None
        <4>1. ~(Saved(c).currentUses < row[k].currentUses)
          BY <1>7, <2>5, <3>2 DEF Write
        <4>2. Counted(k) <= row[k].currentUses /\ row[k].currentUses \in Nat
          BY <1>0, <1>1, <1>2, <2>5, <3>2 DEF Row
        <4> QED
          BY <1>7, <2>3, <2>4, <4>1, <4>2, CountTypes
      <3> QED
        BY <3>1, <3>2
    <2> QED
      BY <1>7, <2>2, <2>5
  <1>8. CASE row'[k] = None /\ SpinsOf(k) = {} /\ row[k] # None
    <2>1. SpinsOf(k)' = {}
      <3>1. ASSUME NEW c \in Calls, SpinSaved(c, k) PROVE FALSE
        BY <1>8, <3>1 DEF SpinSaved
      <3> QED
        BY <1>8, <3>1, MovesStep DEF SpinMoves
    <2> QED
      BY <1>8, <2>1
  <1> QED
    BY <1>4, <1>5, <1>6, <1>7, <1>8, RowStep DEF RowSet

\* The greatest limit is where Max finds it.
LEMMA MaxIs ==
    ASSUME NEW S \in SUBSET Nat, NEW m \in S, IsMax(m, S)
    PROVE  Max(S) = m
  <1>1. \E x \in S : \A y \in S : x >= y
    BY DEF IsMax
  <1> DEFINE x == CHOOSE x \in S : \A y \in S : x >= y
  <1>2. x \in S /\ \A y \in S : x >= y
    BY <1>1
  <1>3. Max(S) = x
    BY DEF Max
  <1> HIDE DEF x
  <1>4. x \in Nat /\ m \in Nat /\ x >= m /\ x <= m
    BY <1>2 DEF IsMax
  <1> QED
    BY <1>3, <1>4

LEMMA LimitsMaxStep ==
    ASSUME TypeOK, LimitsHaveMax, [Next]_spinVars
    PROVE  LimitsHaveMax'
  <1> SUFFICES ASSUME NEW k \in Campaigns, limitsHad'[k] # {}
               PROVE  \E m \in limitsHad'[k] : IsMax(m, limitsHad'[k])
    BY DEF LimitsHaveMax
  <1>0. limitsHad[k] \in SUBSET Nat
    BY SpinWheelAssumption DEF TypeOK
  <1>1. CASE limitsHad'[k] = limitsHad[k]
    BY <1>1 DEF LimitsHaveMax
  <1>2. ASSUME NEW n \in Limits, limitsHad'[k] = limitsHad[k] \cup {n}
        PROVE  \E m \in limitsHad'[k] : IsMax(m, limitsHad'[k])
    <2>0. n \in Nat
      BY SpinWheelAssumption
    <2>1. CASE limitsHad[k] = {}
      BY <1>2, <2>0, <2>1 DEF IsMax
    <2>2. CASE limitsHad[k] # {}
      <3>1. PICK m \in limitsHad[k] : IsMax(m, limitsHad[k])
        BY <2>2 DEF LimitsHaveMax
      <3>2. m \in Nat
        BY <1>0
      <3>3. CASE n <= m
        BY <1>2, <3>1, <3>3 DEF IsMax
      <3>4. CASE ~(n <= m)
        <4>1. \A x \in limitsHad[k] : x \in Nat /\ x <= n
          BY <1>0, <2>0, <3>1, <3>2, <3>4 DEF IsMax
        <4> QED
          BY <1>2, <2>0, <4>1 DEF IsMax
      <3> QED
        BY <3>3, <3>4
    <2> QED
      BY <2>1, <2>2
  <1> QED
    BY <1>1, <1>2, LimitsStep

\* Limits are added, so that the greatest does not get less.
LEMMA MaxGrows ==
    ASSUME TypeOK, LimitsHaveMax, LimitsHaveMax', [Next]_spinVars, NEW k \in Campaigns,
           limitsHad[k] # {}
    PROVE  /\ Max(limitsHad[k]) \in Nat /\ Max(limitsHad'[k]) \in Nat
           /\ Max(limitsHad[k]) <= Max(limitsHad'[k])
           /\ \A n \in limitsHad[k] : n <= Max(limitsHad[k])
  <1>1. limitsHad[k] \in SUBSET Nat /\ limitsHad'[k] \in SUBSET Nat
    BY TypeStep, SpinWheelAssumption DEF TypeOK
  <1>2. limitsHad[k] \subseteq limitsHad'[k]
    BY LimitsStep
  <1>3. PICK m \in limitsHad[k] : IsMax(m, limitsHad[k])
    BY DEF LimitsHaveMax
  <1>4. PICK n \in limitsHad'[k] : IsMax(n, limitsHad'[k])
    BY <1>2 DEF LimitsHaveMax
  <1>5. Max(limitsHad[k]) = m /\ Max(limitsHad'[k]) = n
    BY <1>1, <1>3, <1>4, MaxIs
  <1> QED
    BY <1>1, <1>2, <1>3, <1>4, <1>5 DEF IsMax

LEMMA EntrantsStep ==
    ASSUME SpinInv, [Next]_spinVars
    PROVE  EntrantsAreFew'
  <1> USE DEF SpinInv
  <1> SUFFICES ASSUME NEW k \in Campaigns \ miscounted', limitsHad'[k] # {}, 0 \notin limitsHad'[k]
               PROVE  Cardinality(SpinsOf(k)') + Cardinality(Entering(k)')
                          < Max(limitsHad'[k]) + Cardinality(Calls)
    BY DEF EntrantsAreFew
  <1> DEFINE spins == Cardinality(SpinsOf(k))
             entrants == Cardinality(Entering(k))
             uncounted == Cardinality(Uncounted(k))
             room == Cardinality(Calls)
  <1>0. /\ spins \in Nat /\ entrants \in Nat /\ uncounted \in Nat /\ room \in Nat
        /\ spins' \in Nat /\ entrants' \in Nat /\ uncounted' \in Nat
    BY CountTypes, CountTypesNext
  <1>1. k \notin miscounted /\ limitsHad[k] \subseteq limitsHad'[k]
    BY LimitsStep, MiscountedStays
  <1>2. LimitsHaveMax'
    BY LimitsMaxStep
  <1>3. limitsHad'[k] \in SUBSET Nat /\ Max(limitsHad'[k]) \in Nat /\ Max(limitsHad'[k]) > 0
    <2>1. limitsHad'[k] \in SUBSET Nat
      BY TypeStep, SpinWheelAssumption DEF TypeOK
    <2>2. PICK m \in limitsHad'[k] : IsMax(m, limitsHad'[k])
      BY <1>2 DEF LimitsHaveMax
    <2>3. Max(limitsHad'[k]) = m
      BY <2>1, <2>2, MaxIs
    <2> QED
      BY <2>1, <2>2, <2>3
  <1>4. entrants' <= room
    <2>1. Entering(k)' \in SUBSET Calls
      BY DEF Entering
    <2> QED
      BY <2>1, FS_Subset, SpinWheelAssumption
  <1>5. CASE SpinsOf(k)' = {}
    <2>1. spins' = 0
      BY <1>5, FS_EmptySet
    <2> QED
      BY <1>0, <1>3, <1>4, <2>1
  <1>6. CASE limitsHad[k] = {}
    <2>1. SpinsOf(k)' = {}
      BY <1>6, MovesStep DEF RowsAreCounted, SpinMoves, SpinSaved
    <2> QED
      BY <1>5, <2>1
  <1>7. CASE limitsHad[k] # {}
    <2>0. 0 \notin limitsHad[k] /\ spins + entrants < Max(limitsHad[k]) + room
      BY <1>1, <1>7 DEF EntrantsAreFew
    <2>1. /\ Max(limitsHad[k]) \in Nat /\ Max(limitsHad[k]) <= Max(limitsHad'[k])
          /\ \A n \in limitsHad[k] : n <= Max(limitsHad[k])
      BY <1>2, <1>7, MaxGrows
    <2>2. CASE spins' + entrants' <= spins + entrants
      BY <1>0, <1>3, <2>0, <2>1, <2>2
    <2>3. ASSUME NEW c \in Calls, SpinSaved(c, k) PROVE spins' + entrants' <= spins + entrants
      <3>1. PICK x \in Results : x \notin SpinsOf(k) /\ SpinsOf(k)' = SpinsOf(k) \cup {x}
        BY <2>3 DEF SpinSaved
      <3>2. spins' = spins + 1
        BY <3>1, CountTypes, FS_AddElement
      <3>3. c \in Entering(k) /\ Entering(k)' = Entering(k) \ {c}
        BY <2>3 DEF SpinSaved
      <3>4. entrants' = entrants - 1
        BY <3>3, CountTypes, FS_RemoveElement
      <3> QED
        BY <1>0, <3>2, <3>4
    <2>4. ASSUME SpinsOf(k)' = SpinsOf(k), Entering(k)' \subseteq Entering(k)
          PROVE  spins' + entrants' <= spins + entrants
      <3>1. entrants' <= entrants
        BY <2>4, CountTypes, FS_Subset
      <3> QED
        BY <1>0, <2>4, <3>1
    <2>5. ASSUME NEW c \in Calls, NEW u \in Users, ReadCampaign(c, u, k), SpinsOf(k)' = SpinsOf(k),
                 Uncounted(k)' = Uncounted(k), c \notin Uncounted(k),
                 Entering(k)' = Entering(k) \cup {c}
          PROVE  spins' + entrants' < Max(limitsHad'[k]) + room
      <3>1. row[k] # None /\ BelowLimit(row[k])
        BY <2>5 DEF ReadCampaign
      <3>2. row[k].maxUses \in limitsHad[k] /\ Counted(k) <= row[k].currentUses
        BY <1>1, <3>1 DEF RowsAreCounted
      <3>3. row[k].currentUses \in Nat /\ row[k].maxUses \in Nat
        BY <3>1, SpinWheelAssumption DEF TypeOK, Row
      <3>4. row[k].currentUses < Max(limitsHad[k])
        BY <2>0, <2>1, <3>1, <3>2, <3>3 DEF BelowLimit
      <3>5. spins - uncounted < Max(limitsHad[k])
        BY <1>0, <2>1, <3>2, <3>3, <3>4 DEF Counted
      <3>6. uncounted + entrants' <= room
        <4>1. Uncounted(k) \in SUBSET Calls /\ Entering(k)' \in SUBSET Calls
          BY DEF Uncounted, Entering
        <4>2. Uncounted(k) \cap Entering(k)' = {}
          <5>1. \A d \in Calls : ~(SavedWith(job[d], k) /\ EntersWith(job[d], k))
            BY DEF SavedWith, EntersWith
          <5> QED
            BY <2>5, <5>1 DEF Uncounted, Entering
        <4>3. Cardinality(Uncounted(k) \cup Entering(k)') = uncounted + entrants'
          <5>1. IsFiniteSet(Uncounted(k)) /\ IsFiniteSet(Entering(k)')
            BY CountTypes, CountTypesNext
          <5>2. Cardinality(Uncounted(k) \cup Entering(k)')
                    = uncounted + entrants' - Cardinality(Uncounted(k) \cap Entering(k)')
            BY <5>1, FS_Union
          <5>3. Cardinality(Uncounted(k) \cap Entering(k)') = 0
            BY <4>2, FS_EmptySet
          <5> QED
            BY <1>0, <5>2, <5>3
        <4>4. Cardinality(Uncounted(k) \cup Entering(k)') <= room
          <5>1. Uncounted(k) \cup Entering(k)' \in SUBSET Calls
            BY <4>1
          <5> QED
            BY <5>1, FS_Subset, SpinWheelAssumption
        <4> QED
          BY <4>3, <4>4
      <3>7. spins' = spins
        BY <2>5
      <3> QED
        BY <1>0, <1>3, <2>1, <3>5, <3>6, <3>7
    <2> QED
      BY <2>2, <2>3, <2>4, <2>5, MovesStep DEF SpinMoves
  <1> QED
    BY <1>6, <1>7

LEMMA InitSpinInv == Init => SpinInv
  <1> SUFFICES ASSUME Init PROVE SpinInv
    OBVIOUS
  <1>1. TypeOK
    BY SpinWheelAssumption, IdleIsJob DEF Init, TypeOK
  <1>2. \A k \in Campaigns : SpinsOf(k) = {} /\ Uncounted(k) = {} /\ Entering(k) = {}
    BY DEF Init, SpinsOf, Uncounted, Entering, SavedWith, EntersWith, Idle
  <1>3. \A k \in Campaigns : Counted(k) = 0
    BY <1>2, FS_EmptySet DEF Counted
  <1>4. \A k \in Campaigns : row[k] = None /\ limitsHad[k] = {}
    BY DEF Init
  <1>5. \A c \in Calls : job[c].op = "idle"
    BY DEF Init, Idle
  <1> QED
    BY <1>1, <1>2, <1>3, <1>4, <1>5
    DEF SpinInv, CountsAreBacked, RowsAreCounted, LimitsHaveMax, EntrantsAreFew

\* The inductive invariant of the wheel, for any interleaving of spins, edits,
\* removals and failures.
THEOREM SpinInvHolds == Spec => []SpinInv
  <1>1. ASSUME SpinInv, [Next]_spinVars PROVE SpinInv'
    <2>1. TypeOK' /\ CountsAreBacked' /\ RowsAreCounted' /\ LimitsHaveMax'
      BY <1>1, TypeStep, BackedStep, RowsStep, LimitsMaxStep DEF SpinInv
    <2>2. EntrantsAreFew'
      BY <1>1, EntrantsStep
    <2> QED
      BY <2>1, <2>2 DEF SpinInv
  <1> QED
    BY InitSpinInv, <1>1, PTL DEF Spec

\* The rows and the calls have their types.
THEOREM SpinTypeOK == Spec => []TypeOK
  <1>1. SpinInv => TypeOK
    BY DEF SpinInv
  <1> QED
    BY <1>1, SpinInvHolds, PTL

\* current_uses is never ahead of the results that were saved.
THEOREM UsesAreBacked == Spec => []UsesWereSpun
  <1>1. SpinInv => UsesWereSpun
    <2> SUFFICES ASSUME SpinInv, NEW k \in Campaigns, row[k] # None
                 PROVE  row[k].currentUses <= Cardinality(SpinsOf(k))
      BY DEF UsesWereSpun
    <2>1. row[k].currentUses \in Nat /\ row[k].currentUses <= Counted(k)
      BY DEF SpinInv, TypeOK, Row, CountsAreBacked
    <2> QED
      BY <2>1, CountTypes DEF Counted
  <1> QED
    BY <1>1, SpinInvHolds, PTL

\* The spins of a campaign pass its limit by fewer than the requests that may be
\* under way at once, for any number of users, requests and edits of the limit.
THEOREM LimitIsPassedByCallsOnly == Spec => []LimitPassedByCallsOnly
  <1>1. SpinInv => LimitPassedByCallsOnly
    <2> SUFFICES ASSUME SpinInv, NEW k \in Campaigns \ miscounted,
                        limitsHad[k] # {}, 0 \notin limitsHad[k]
                 PROVE  Cardinality(SpinsOf(k)) < Max(limitsHad[k]) + Cardinality(Calls)
      BY DEF LimitPassedByCallsOnly
    <2>1. Cardinality(SpinsOf(k)) + Cardinality(Entering(k)) < Max(limitsHad[k]) + Cardinality(Calls)
      BY DEF SpinInv, EntrantsAreFew
    <2>2. limitsHad[k] \in SUBSET Nat
      BY SpinWheelAssumption DEF SpinInv, TypeOK
    <2>3. PICK m \in limitsHad[k] : IsMax(m, limitsHad[k])
      BY DEF SpinInv, LimitsHaveMax
    <2>4. Max(limitsHad[k]) \in Nat
      BY <2>2, <2>3, MaxIs
    <2> QED
      BY <2>1, <2>4, CountTypes
  <1> QED
    BY <1>1, SpinInvHolds, PTL

=============================================================================
