------------------------------ MODULE SpinWheel ------------------------------
(***************************************************************************)
(* The spin wheel of a campaign, SpinWheelService, and the administrator's *)
(* calls about its campaign, CampaignsService.  A spin checks the          *)
(* campaign's limit and the user's last spin, and writes its result and    *)
(* the count of uses in statements of their own; no statement holds a      *)
(* lock.  An edit saves the campaign it read: save() reads the row once    *)
(* more and writes the columns in which the two differ, the count          *)
(* included.  The dates of a campaign are left out: a spin outside them is *)
(* one that is not made.                                                   *)
(***************************************************************************)
EXTENDS Integers, FiniteSets, FiniteSetsExt

CONSTANTS
    Campaigns,  \* of type gamification
    Results,    \* the rows of spin_results
    Users,
    Calls,      \* requests that may be under way at a time
    Limits,     \* what an administrator enters as max_uses; 0 is no limit
    Cooldown,   \* the 24 hours between two spins of a user
    MaxTime,    \* bound: the clock stops here
    None

Statuses == {"draft", "active", "paused", "ended"}
Columns == {"status", "maxUses", "currentUses"}
Row == [status : Statuses, maxUses : Limits, currentUses : Nat]
Spun == [of : Campaigns, user : Users, at : 0 .. MaxTime]

ASSUME SpinWheelAssumption ==
    /\ IsFiniteSet(Results) /\ IsFiniteSet(Calls)
    /\ Limits \subseteq Nat
    /\ Cooldown \in Nat \ {0} /\ MaxTime \in Nat
    /\ None \notin Row /\ None \notin Spun

VARIABLES
    now,
    row,         \* each campaign's row, None when there is none
    result,      \* each result's row, None until it is inserted
    job,         \* what each call is doing
    limitsHad,   \* history: the limits each campaign has had
    miscounted   \* history: the campaigns of which a use went uncounted

spinVars == <<now, row, result, job, limitsHad, miscounted>>

Idle == [op |-> "idle"]

Jobs ==
    {Idle}
    \cup [op : {"spin"}, of : Campaigns, user : Users, since : Int, at : {"read", "checked", "saved"}]
    \cup [op : {"update"}, of : Campaigns, entity : Row, dirty : SUBSET Columns,
          at : {"read", "differs", "gone"}]
    \cup [op : {"remove"}, of : Campaigns]

Init ==
    /\ now = 0
    /\ row = [k \in Campaigns |-> None]
    /\ result = [x \in Results |-> None]
    /\ job = [c \in Calls |-> Idle]
    /\ limitsHad = [k \in Campaigns |-> {}]
    /\ miscounted = {}

Return(c) == job' = [job EXCEPT ![c] = Idle]

Tick ==
    /\ now < MaxTime
    /\ now' = now + 1
    /\ UNCHANGED <<row, result, job, limitsHad, miscounted>>

\* The ids are random, so that no campaign is created twice.
Create(k, limit) ==
    /\ limitsHad[k] = {}
    /\ row' = [row EXCEPT ![k] = [status |-> "draft", maxUses |-> limit, currentUses |-> 0]]
    /\ limitsHad' = [limitsHad EXCEPT ![k] = {limit}]
    /\ UNCHANGED <<now, result, job, miscounted>>

-----------------------------------------------------------------------------
(* spin. *)

SpinsOf(k) == {x \in Results : result[x] # None /\ result[x].of = k}

\* Mutant: one too many.
UpToLimit(r) == r.maxUses = 0 \/ r.currentUses <= r.maxUses
BelowLimit(r) == r.maxUses = 0 \/ r.currentUses < r.maxUses

ReadCampaign(c, u, k) ==
    /\ job[c] = Idle
    /\ row[k] # None /\ row[k].status = "active" /\ BelowLimit(row[k])
    /\ job' = [job EXCEPT ![c] =
        [op |-> "spin", of |-> k, user |-> u, since |-> now - Cooldown, at |-> "read"]]
    /\ UNCHANGED <<now, row, result, limitsHad, miscounted>>

RecentSpin(c) ==
    \E x \in SpinsOf(job[c].of) : result[x].user = job[c].user /\ result[x].at > job[c].since

CheckCooldown(c) ==
    /\ job[c].op = "spin" /\ job[c].at = "read"
    /\ IF RecentSpin(c) THEN Return(c) ELSE job' = [job EXCEPT ![c].at = "checked"]
    /\ UNCHANGED <<now, row, result, limitsHad, miscounted>>

\* The result refers to its campaign: without that the statement fails.
SaveResult(c, x) ==
    /\ job[c].op = "spin" /\ job[c].at = "checked"
    /\ result[x] = None /\ row[job[c].of] # None
    /\ result' = [result EXCEPT ![x] = [of |-> job[c].of, user |-> job[c].user, at |-> now]]
    /\ job' = [job EXCEPT ![c].at = "saved"]
    /\ UNCHANGED <<now, row, limitsHad, miscounted>>

\* One statement adds to whatever the count is then.
Increment(c) ==
    /\ job[c].op = "spin" /\ job[c].at = "saved"
    /\ row' = IF row[job[c].of] = None THEN row
              ELSE [row EXCEPT ![job[c].of].currentUses = @ + 1]
    /\ Return(c)
    /\ UNCHANGED <<now, result, limitsHad, miscounted>>

-----------------------------------------------------------------------------
(* update. *)

ValidTransitions ==
    {<<"draft", "active">>, <<"active", "paused">>, <<"active", "ended">>,
     <<"paused", "active">>, <<"paused", "ended">>}

NextStatuses(r) == {r.status} \cup {t \in Statuses : <<r.status, t>> \in ValidTransitions}
Edited(r, s, m) == [r EXCEPT !.status = s, !.maxUses = m]

\* The entity after the edit: either field may be absent from the request.
Edits(r) == {Edited(r, s, m) : s \in NextStatuses(r), m \in {r.maxUses} \cup Limits}

ReadForUpdate(c, k) ==
    /\ job[c] = Idle
    /\ row[k] # None
    /\ \E e \in Edits(row[k]) : job' = [job EXCEPT ![c] =
        [op |-> "update", of |-> k, entity |-> e, dirty |-> {}, at |-> "read"]]
    /\ UNCHANGED <<now, row, result, limitsHad, miscounted>>

DirtyColumns(c) == {f \in Columns : row[job[c].of][f] # job[c].entity[f]}

\* save() compares; a row that it does not find it is going to insert.
Compare(c) ==
    /\ job[c].op = "update" /\ job[c].at = "read"
    /\ \/ row[job[c].of] = None /\ job' = [job EXCEPT ![c].at = "gone"]
       \/ /\ row[job[c].of] # None
          /\ IF DirtyColumns(c) = {} THEN Return(c)
             ELSE job' = [job EXCEPT ![c].at = "differs", ![c].dirty = DirtyColumns(c)]
    /\ UNCHANGED <<now, row, result, limitsHad, miscounted>>

\* What becomes of the row: an UPDATE of no row changes nothing, and an INSERT
\* of one that is there fails.
Saved(c) ==
    LET old == row[job[c].of]
        new == job[c].entity IN
    CASE job[c].at = "gone" -> IF old = None THEN new ELSE old
      [] job[c].at = "differs" ->
            IF old = None THEN None
            ELSE [f \in Columns |-> IF f \in job[c].dirty THEN new[f] ELSE old[f]]

Write(c) ==
    /\ job[c].op = "update" /\ job[c].at \in {"gone", "differs"}
    /\ LET k == job[c].of IN
        /\ row' = [row EXCEPT ![k] = Saved(c)]
        /\ limitsHad' = IF Saved(c) = None THEN limitsHad
                        ELSE [limitsHad EXCEPT ![k] = @ \cup {Saved(c).maxUses}]
        /\ miscounted' = IF row[k] # None /\ Saved(c).currentUses < row[k].currentUses
                         THEN miscounted \cup {k} ELSE miscounted
    /\ Return(c)
    /\ UNCHANGED <<now, result>>

-----------------------------------------------------------------------------
(* remove. *)

ReadForRemoval(c, k) ==
    /\ job[c] = Idle
    /\ row[k] # None /\ row[k].status # "active"
    /\ job' = [job EXCEPT ![c] = [op |-> "remove", of |-> k]]
    /\ UNCHANGED <<now, row, result, limitsHad, miscounted>>

\* What the foreign key of spin_results does.
\* Mutant: it is ON DELETE CASCADE, like those of rules and assignments.
Cascaded(k) == result' = [x \in Results |-> IF x \in SpinsOf(k) THEN None ELSE result[x]]
Unreferenced(k) == SpinsOf(k) = {} /\ UNCHANGED result

Remove(c) ==
    /\ job[c].op = "remove"
    /\ Unreferenced(job[c].of)
    /\ row' = [row EXCEPT ![job[c].of] = None]
    /\ Return(c)
    /\ UNCHANGED <<now, limitsHad, miscounted>>

-----------------------------------------------------------------------------
\* A statement fails or the replica dies.  A result that has been saved is then
\* not counted.
CallFails(c) ==
    /\ job[c] # Idle
    /\ miscounted' = IF job[c].op = "spin" /\ job[c].at = "saved"
                     THEN miscounted \cup {job[c].of} ELSE miscounted
    /\ Return(c)
    /\ UNCHANGED <<now, row, result, limitsHad>>

Spin(c) ==
    \/ \E u \in Users, k \in Campaigns : ReadCampaign(c, u, k)
    \/ CheckCooldown(c)
    \/ \E x \in Results : SaveResult(c, x)
    \/ Increment(c)

Update(c) ==
    \/ \E k \in Campaigns : ReadForUpdate(c, k)
    \/ Compare(c) \/ Write(c)

Next ==
    \/ Tick
    \/ \E k \in Campaigns, limit \in Limits : Create(k, limit)
    \/ \E c \in Calls : Spin(c) \/ Update(c) \/ Remove(c) \/ CallFails(c)
    \/ \E c \in Calls, k \in Campaigns : ReadForRemoval(c, k)

Spec == Init /\ [][Next]_spinVars

-----------------------------------------------------------------------------
(* Properties. *)

TypeOK ==
    /\ now \in 0 .. MaxTime
    /\ row \in [Campaigns -> Row \cup {None}]
    /\ result \in [Results -> Spun \cup {None}]
    /\ job \in [Calls -> Jobs]
    /\ limitsHad \in [Campaigns -> SUBSET Limits]
    /\ miscounted \subseteq Campaigns

\* The limit is checked on a count that is read first and raised last, so requests
\* pass it; but by no more than those that were under way at once, whatever limits
\* the campaign was given, unless a use went uncounted.
LimitPassedByCallsOnly ==
    \A k \in Campaigns \ miscounted :
        limitsHad[k] # {} /\ 0 \notin limitsHad[k] =>
            Cardinality(SpinsOf(k)) < Max(limitsHad[k]) + Cardinality(Calls)

\* A campaign counts no use without its result: a count may fall behind, when an
\* edit writes back the one it read or a spin fails half-way, but is never ahead,
\* not even when an edit brings back a campaign that was removed.
UsesWereSpun ==
    \A k \in Campaigns :
        row[k] # None => row[k].currentUses <= Cardinality(SpinsOf(k))

\* "1 spin per 24h" for a user of a campaign.  Two requests at once both find
\* none: the code does not keep it, and no run checks it.
OneSpinPerCooldown ==
    \A k \in Campaigns : \A x, y \in SpinsOf(k) :
        x # y /\ result[x].user = result[y].user /\ result[x].at <= result[y].at
            => result[y].at - result[x].at >= Cooldown

=============================================================================
