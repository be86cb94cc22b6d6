------------------------------ MODULE TeamOps ------------------------------
(***************************************************************************)
(* Team operations: persons and their identities on GitLab and on the PM   *)
(* platform, the sync that resolves assignments to persons, and the        *)
(* recomputations that derive workload, capacity and familiarity from them *)
(* (packages/db daos/team_ops, services/pm-integration recompute and sync).*)
(*                                                                         *)
(* Statements read what is committed when they run (READ COMMITTED); a row *)
(* that was written is locked until its writer commits or rolls back.      *)
(* A behaviour is about one derived table, and one window of the workload. *)
(***************************************************************************)
EXTENDS Naturals, Sequences, SequencesExt, FiniteSetsExt, Rows

CONSTANTS Persons,      \* person ids
          GitlabUsers, PmUsers,
          Login,        \* gitlab_username of a GitLab user, in lower case
          Issues,       \* issues the sync has stored
          IssueStates,  \* what an issue may be: status, hours, recent, iteration
          Iterations,   \* active iterations, with the days they take
          Length,
          Edits,        \* change units: owner, language and lines
          Runs,         \* concurrent recomputations
          Nobody,
          Budget        \* bound: changes and faults of a behaviour, by its table

OfIssues == {"7d", "all", "capacity"}
OfUnits  == {"familiarity"}
Tasks    == OfIssues \cup OfUnits

ASSUME TeamOpsAssumption ==
  /\ Persons # {} /\ Nobody \notin Persons
  /\ IsFiniteSet(Persons) /\ IsFiniteSet(PmUsers) /\ IsFiniteSet(Issues)
  /\ IsFiniteSet(Iterations) /\ IsFiniteSet(Edits)
  /\ \A table \in Tasks : Budget[table] \in Nat

VARIABLES
  person,    \* person.status, "unborn" before and "deleted" after
  gitlab,    \* the active identity of each GitLab user: its person, or Nobody
  pm,        \* the same for the users of the PM platform
  issue,     \* the issues
  assigned,  \* issue_assignment.person_id, by issue and PM user
  units,     \* change_units
  task,      \* the table that is derived
  derived,   \* its rows, by key
  sync,      \* the sync that resolves assignments
  run,       \* the recomputations
  budget

dataVars == <<person, gitlab, pm, issue, units>>
vars     == <<dataVars, assigned, task, derived, sync, run, budget>>

Statuses == {"active", "inactive"}  \* "archived" is treated as "inactive"

Assignments == Issues \X PmUsers
Alive       == {p \in Persons : person[p] \in Statuses}
Active      == {p \in Persons : person[p] = "active"}

Off    == [pc |-> "off", todo |-> <<>>, read |-> Nobody, rows |-> NoRows]
Idle   == [pc |-> "idle", todo |-> <<>>, index |-> NoRows, value |-> NoRows, rows |-> NoRows]

Init ==
  /\ person = [p \in Persons |-> "active"]
  /\ \E p \in {Nobody, CHOOSE p \in Persons : TRUE} :  \* who was mapped before
       /\ gitlab = [u \in GitlabUsers |-> p]
       /\ pm = [u \in PmUsers |-> p]
  /\ issue \in [Issues -> IssueStates]
  /\ assigned = [a \in Assignments |-> Nobody]
  /\ units = {}
  /\ task \in Tasks /\ derived = NoRows
  /\ sync = Off /\ run = [r \in Runs |-> Idle]
  /\ budget = Budget[task]

-----------------------------------------------------------------------------
(* Governance: each call is a transaction of its own *)

\* Bound: a behaviour has so many changes, all of data its table is derived from.
Spend(tables) == task \in tables /\ budget > 0 /\ budget' = budget - 1

SetStatus(p, status) ==
  /\ Spend(Tasks)
  /\ p \in Alive /\ person[p] # status
  /\ person' = [person EXCEPT ![p] = status]
  /\ UNCHANGED <<gitlab, pm, issue, units, assigned, task, derived, sync, run>>

\* Mutant: identities and assignments keep the person.
Cascade_Not(of, p) == of

Cascade(of, p) == [x \in DOMAIN of |-> IF of[x] = p THEN Nobody ELSE of[x]]

\* The identities go along, the assignments are set to NULL; the snapshots and
\* edges have no foreign key and stay.  Rows that the sync has written, and
\* persons it has referred to, are locked.
DeletePerson(p) ==
  /\ Spend(Tasks)
  /\ p \in Alive
  /\ \A a \in DOMAIN sync.rows : p \notin {assigned[a], sync.rows[a]}
  /\ person' = [person EXCEPT ![p] = "deleted"]
  /\ gitlab' = Cascade(gitlab, p)
  /\ pm' = Cascade(pm, p)
  /\ assigned' = Cascade(assigned, p)
  /\ UNCHANGED <<issue, units, task, derived, sync, run>>

\* A partial unique index allows one active identity of a user.
MapPm(p, u) ==
  /\ Spend(OfIssues)
  /\ p \in Alive /\ pm[u] = Nobody
  /\ pm' = [pm EXCEPT ![u] = p]
  /\ UNCHANGED <<person, gitlab, issue, units, assigned, task, derived, sync, run>>

DeactivatePm(u) ==
  /\ Spend(OfIssues)
  /\ pm[u] # Nobody
  /\ pm' = [pm EXCEPT ![u] = Nobody]
  /\ UNCHANGED <<person, gitlab, issue, units, assigned, task, derived, sync, run>>

MapGitlab(p, u) ==
  /\ Spend(OfUnits)
  /\ p \in Alive /\ gitlab[u] = Nobody
  /\ gitlab' = [gitlab EXCEPT ![u] = p]
  /\ UNCHANGED <<person, pm, issue, units, assigned, task, derived, sync, run>>

DeactivateGitlab(u) ==
  /\ Spend(OfUnits)
  /\ gitlab[u] # Nobody
  /\ gitlab' = [gitlab EXCEPT ![u] = Nobody]
  /\ UNCHANGED <<person, pm, issue, units, assigned, task, derived, sync, run>>

link_to_person(a, p) ==
  /\ Spend(OfIssues)
  /\ p \in Alive /\ a \notin DOMAIN sync.rows
  /\ assigned' = [assigned EXCEPT ![a] = p]
  /\ UNCHANGED <<dataVars, task, derived, sync, run>>

\* What a sync of issues and an ingest commit.
IssueChanges(i) ==
  /\ Spend(OfIssues)
  /\ issue' \in {[issue EXCEPT ![i] = s] : s \in IssueStates}
  /\ UNCHANGED <<person, gitlab, pm, units, assigned, task, derived, sync, run>>

UnitIngested(c) ==
  /\ Spend(OfUnits)
  /\ units' = units \cup {c} /\ c \notin units
  /\ UNCHANGED <<person, gitlab, pm, issue, assigned, task, derived, sync, run>>

Governance ==
  \/ \E p \in Persons :
       \/ DeletePerson(p)
       \/ \E status \in Statuses : SetStatus(p, status)
       \/ \E u \in PmUsers : MapPm(p, u)
       \/ \E u \in GitlabUsers : MapGitlab(p, u)
       \/ \E a \in Assignments : link_to_person(a, p)
  \/ \E u \in PmUsers : DeactivatePm(u)
  \/ \E u \in GitlabUsers : DeactivateGitlab(u)
  \/ \E i \in Issues : IssueChanges(i)
  \/ \E c \in Edits : UnitIngested(c)

-----------------------------------------------------------------------------
(* The sync of assignments: one transaction over all of them *)

\* get_active_by_user_id, for the next assignment
Resolving(todo) ==
  [Off EXCEPT !.pc = "upsert", !.todo = todo, !.read = pm[Head(todo)[2]], !.rows = sync.rows]

SyncResolve ==
  /\ task \in OfIssues /\ sync.pc \in {"off", "resolve"}
  /\ \E todo \in (IF sync.pc = "off" THEN SetToSeqs(Assignments) ELSE {sync.todo}) :
       todo # <<>> /\ sync' = Resolving(todo)
  /\ UNCHANGED <<dataVars, assigned, task, derived, run, budget>>

\* Mutant: a person that is known is kept.
Resolved_Keeps(a, p) == IF assigned[a] = Nobody THEN p ELSE assigned[a]

\* Without an identity the person is NULL, also where one was linked by hand.
Resolved(a, p) == p

SyncUpsert ==
  /\ sync.pc = "upsert"
  /\ sync.read \in Alive \cup {Nobody}
  /\ LET a == Head(sync.todo)
     IN sync' = [pc |-> "resolve", todo |-> Tail(sync.todo), read |-> Nobody,
                 rows |-> With(sync.rows, a, Resolved(a, sync.read))]
  /\ UNCHANGED <<dataVars, assigned, task, derived, run, budget>>

\* The person was deleted after it was read: the foreign key refuses the row,
\* later items fail in the aborted transaction, and nothing is committed.
SyncRefused ==
  /\ sync.pc = "upsert"
  /\ sync.read \notin Alive \cup {Nobody}
  /\ sync' = Off
  /\ UNCHANGED <<dataVars, assigned, task, derived, run, budget>>

SyncCommit ==
  /\ sync.pc = "resolve" /\ sync.todo = <<>>
  /\ assigned' = Over(sync.rows, assigned)
  /\ sync' = Off
  /\ UNCHANGED <<dataVars, task, derived, run, budget>>

SyncFails ==
  /\ Spend(OfIssues)
  /\ sync.pc # "off" /\ sync' = Off
  /\ UNCHANGED <<dataVars, assigned, task, derived, run>>

SyncStep == SyncResolve \/ SyncUpsert \/ SyncRefused \/ SyncCommit

-----------------------------------------------------------------------------
(* What a row should hold *)

AssignedTo(p) == {a \in Assignments : assigned[a] = p}

OpenStates     == {"open", "todo", "backlog"}
ProgressStates == {"in_progress", "doing", "review"}
DoneStates     == {"done", "closed", "resolved", "merged"}

HoursOf(as) == MapThenSumSet(LAMBDA a : issue[a[1]].hours, as)

\* _aggregate_for_person: issues of other statuses count nowhere.
Workload(p) ==
  LET seen == {a \in AssignedTo(p) : task = "all" \/ issue[a[1]].recent}
      In(statuses) == {a \in seen : issue[a[1]].status \in statuses}
  IN [open |-> Cardinality(In(OpenStates)), in_progress |-> Cardinality(In(ProgressStates)),
      completed |-> Cardinality(In(DoneStates)),
      remaining |-> HoursOf(In(OpenStates \cup ProgressStates)), done |-> HoursOf(In(DoneStates))]

_weeks_between(days) == IF days <= 0 THEN 1 ELSE Max({1, days \div 7})

\* _estimated_hours_for, and load_ratio in percent of 40 hours a week.
Capacity(p, it) ==
  LET hours == HoursOf({a \in AssignedTo(p) : issue[a[1]].iteration = it})
  IN [hours |-> hours, load |-> (hours * 100) \div (40 * _weeks_between(Length[it]))]

\* The row of a key, as the next statement of a run finds it.
Aggregate(key) ==
  IF task = "capacity" THEN Capacity(key[2], key[1]) ELSE Workload(key[2])

\* Edges of the units whose owner is in an index of logins.
Familiarity(index) ==
  LET owned == {c \in units : c.owner \in DOMAIN index}
      KeyOf(c) == <<c.language, index[c.owner]>>
  IN [key \in {KeyOf(c) : c \in owned} |->
        LET mine == {c \in owned : KeyOf(c) = key}
        IN [lines |-> MapThenSumSet(LAMBDA c : c.lines, mine), commits |-> Cardinality(mine)]]

-----------------------------------------------------------------------------
(* A recomputation *)

Set(r, state) == run' = [run EXCEPT ![r] = state]

\* Active persons by display name, which two may share; for each iteration.
Keys == CASE task = "capacity" -> Iterations \X Active [] OTHER -> {task} \X Active
Grouped(order) ==
  \A i, j \in DOMAIN order : \A k \in i..j : order[i][1] = order[j][1] => order[k][1] = order[i][1]

Begin(r) ==
  /\ run[r].pc = "idle"
  /\ \E order \in SetToSeqs(Keys) :
       /\ Grouped(order)
       /\ Set(r, [Idle EXCEPT !.todo = order,
                    !.pc = IF task = "familiarity" THEN "index" ELSE "read"])
  /\ UNCHANGED <<dataVars, assigned, task, derived, sync, budget>>

\* The logins of one person: a person listed later takes a login they share.
Index(r) ==
  /\ run[r].pc = "index" /\ run[r].todo # <<>>
  /\ LET p == Head(run[r].todo)[2]
         mine == {Login[u] : u \in {v \in GitlabUsers : gitlab[v] = p}}
     IN Set(r, [run[r] EXCEPT !.todo = Tail(@), !.index = Over([l \in mine |-> p], @)])
  /\ UNCHANGED <<dataVars, assigned, task, derived, sync, budget>>

\* The change units come in any order, and the edges with them.
ReadUnits(r) ==
  /\ run[r].pc = "index" /\ run[r].todo = <<>>
  /\ LET edges == Familiarity(run[r].index)
     IN \E order \in SetToSeqs(DOMAIN edges) :
          Set(r, [run[r] EXCEPT !.pc = "write", !.todo = order,
                          !.index = NoRows, !.value = edges])
  /\ UNCHANGED <<dataVars, assigned, task, derived, sync, budget>>

\* One SELECT for each person.
Read(r) ==
  /\ run[r].pc = "read" /\ run[r].todo # <<>>
  /\ LET key == Head(run[r].todo)
     IN Set(r, [run[r] EXCEPT !.pc = "write", !.value = With(NoRows, key, Aggregate(key))])
  /\ UNCHANGED <<dataVars, assigned, task, derived, sync, budget>>

\* Mutant: a row that exists is left as it is.
Conflict_DoNothing(key, value) == IF key \in DOMAIN derived THEN derived[key] ELSE value

\* INSERT ... ON CONFLICT DO UPDATE: what it writes into a row.
Conflict(key, value) == value

Waiting(r) == run[r].pc = "write" /\ run[r].todo # <<>>
Holder(r)  == {q \in Runs \ {r} : Waiting(r) /\ Head(run[r].todo) \in DOMAIN run[q].rows}

Upserted(r) ==
  LET key == Head(run[r].todo)
  IN [run[r] EXCEPT !.todo = Tail(@), !.value = Restrict(@, DOMAIN @ \ {key}),
        !.pc = IF task = "familiarity" THEN "write" ELSE "read",
        !.rows = With(@, key, Conflict(key, run[r].value[key]))]

Upsert(r) ==
  /\ Waiting(r) /\ Holder(r) = {}
  /\ Set(r, Upserted(r))
  /\ UNCHANGED <<dataVars, assigned, task, derived, sync, budget>>

\* Mutant: the rows of a run that is through are not forgotten.
Done_KeepsRows(r) == [run[r] EXCEPT !.pc = "idle"]

\* The transaction ends, and its locks with it.
Done(r) == Idle

Commit(r) ==
  /\ run[r].pc \in {"read", "write"} /\ run[r].todo = <<>>
  /\ derived' = Over(run[r].rows, derived)
  /\ Set(r, Done(r))
  /\ UNCHANGED <<dataVars, assigned, task, sync, budget>>

\* Two runs wait for each other: the database ends one, the other has its row.
Deadlock(r) ==
  /\ \E q \in Holder(r) :
       /\ r \in Holder(q)
       /\ run' = [run EXCEPT ![r] = Idle, ![q] = Upserted(q)]
  /\ UNCHANGED <<dataVars, assigned, task, derived, sync, budget>>

\* A statement fails, or the process ends.
RunFails(r) ==
  /\ Spend(Tasks)
  /\ run[r].pc # "idle" /\ Set(r, Idle)
  /\ UNCHANGED <<dataVars, assigned, task, derived, sync>>

RunStep(r) ==
  Begin(r) \/ Index(r) \/ ReadUnits(r) \/ Read(r) \/ Upsert(r) \/ Commit(r) \/ Deadlock(r)

-----------------------------------------------------------------------------
Next ==
  \/ Governance
  \/ SyncStep \/ SyncFails
  \/ \E r \in Runs : RunStep(r) \/ RunFails(r)

Spec == Init /\ [][Next]_vars

\* Syncs and recomputations are started again and again.  Who does is not in
\* the repository, which exports them for a scheduler.
Fairness == WF_vars(SyncStep) /\ \A r \in Runs : WF_vars(RunStep(r))

FairSpec == Spec /\ Fairness

-----------------------------------------------------------------------------
(* Properties *)

(* The types; and a row is written by one transaction at a time, which has   *)
(* written the keys it is through with.                                      *)
TypeOK ==
  /\ person \in [Persons -> Statuses \cup {"deleted"}]
  /\ gitlab \in [GitlabUsers -> Persons \cup {Nobody}]
  /\ pm \in [PmUsers -> Persons \cup {Nobody}]
  /\ issue \in [Issues -> IssueStates]
  /\ assigned \in [Assignments -> Persons \cup {Nobody}]
  /\ units \subseteq Edits
  /\ DOMAIN sync.rows \cup ToSet(sync.todo) \subseteq Assignments
  /\ \A r \in Runs :
       /\ run[r].pc \in {"idle", "index", "read", "write"}
       /\ run[r].pc = "idle" => run[r] = Idle
       /\ DOMAIN run[r].rows \cap ToSet(run[r].todo) = {}
       /\ \A q \in Runs \ {r} : DOMAIN run[r].rows \cap DOMAIN run[q].rows = {}
  /\ budget \in 0..Budget[task]

(* Identities and assignments name persons there are, although a person can  *)
(* be deleted between the moment the sync reads an identity and its upsert.  *)
ReferencesResolve ==
  \A p \in {gitlab[u] : u \in GitlabUsers} \cup {pm[u] : u \in PmUsers}
           \cup {assigned[a] : a \in Assignments} : p \in Alive \cup {Nobody}

(* Once identities stand still, each assignment is its identity's person's,  *)
(* or nobody's: the sync undoes whatever was resolved or linked before.      *)
AttributionCatchesUp ==
  <>[](task \in OfIssues => \A a \in Assignments : assigned[a] = pm[a[2]])

(* Once the data stand still, each active person has the derived rows that   *)
(* the data call for, however runs overlapped: a row that a slower run wrote *)
(* from older data is mended.  A login of two persons may go to either.      *)
Unshared(p) ==
  LET Of(q) == {Login[u] : u \in {v \in GitlabUsers : gitlab[v] = q}}
  IN [l \in Of(p) \ UNION {Of(q) : q \in Active \ {p}} |-> p]
Expected(p) ==
  IF task = "familiarity" THEN Familiarity(Unshared(p))
  ELSE [key \in {k \in Keys : k[2] = p} |-> Aggregate(key)]
RowsAreRight ==
  \A p \in Active : \A key \in DOMAIN Expected(p) :
    key \in DOMAIN derived /\ derived[key] = Expected(p)[key]
DerivedCatchesUp == <>[]RowsAreRight
=============================================================================
