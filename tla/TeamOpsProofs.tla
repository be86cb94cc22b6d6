--------------------------- MODULE TeamOpsProofs ---------------------------
(***************************************************************************)
(* References to persons resolve, for any number of persons, identities,   *)
(* issues and changes, and every failure of the sync; and no row that is   *)
(* derived is written by two recomputations at a time, for any number.     *)
(***************************************************************************)
EXTENDS TeamOps, FiniteSetTheorems, TLAPS

-----------------------------------------------------------------------------
(* A table of references: what it names are persons there are, or nobody.    *)

Refers(table) == \A x \in DOMAIN table : table[x] \in Alive \cup {Nobody}

\* What is committed, and what the sync will commit.
RInv ==
  /\ DOMAIN person = Persons
  /\ DOMAIN gitlab = GitlabUsers /\ Refers(gitlab)
  /\ DOMAIN pm = PmUsers /\ Refers(pm)
  /\ Assignments \subseteq DOMAIN assigned /\ Refers(assigned)
  /\ Refers(sync.rows)

LEMMA RInvImplies == ASSUME RInv PROVE ReferencesResolve
BY DEF RInv, Refers, ReferencesResolve

LEMMA InitRefers == ASSUME TeamOpsAssumption, Init PROVE RInv
<1>1. \A p \in Persons : p \in Alive BY DEF Init, Alive, Statuses
<1>2. (CHOOSE p \in Persons : TRUE) \in Persons BY DEF TeamOpsAssumption
<1>3. sync.rows = [k \in {} |-> 0] BY DEF Init, Off, NoRows
<1>4. Refers(sync.rows) BY <1>3 DEF Refers
<1>5. QED BY <1>1, <1>2, <1>4 DEF Init, RInv, Refers

\* Who is there stays, unless a person is deleted.
LEMMA KeptRefers ==
  ASSUME NEW table, Refers(table), Alive \subseteq Alive'
  PROVE  \A x \in DOMAIN table : table[x] \in Alive' \cup {Nobody}
BY DEF Refers

LEMMA CascadeRefers ==
  ASSUME NEW table, Refers(table), NEW p, Alive \ {p} \subseteq Alive'
  PROVE  /\ DOMAIN Cascade(table, p) = DOMAIN table
         /\ \A x \in DOMAIN table : Cascade(table, p)[x] \in Alive' \cup {Nobody}
BY DEF Refers, Cascade

LEMMA StatusRefers ==
  ASSUME RInv, NEW p \in Persons, NEW status \in Statuses, SetStatus(p, status)
  PROVE  RInv'
<1>1. /\ DOMAIN person' = Persons
      /\ Alive \subseteq Alive'
  BY DEF RInv, SetStatus, Alive, Statuses
<1>2. UNCHANGED <<gitlab, pm, assigned, sync>> BY DEF SetStatus
<1>3. QED BY <1>1, <1>2, KeptRefers DEF RInv, Refers

\* The sync has written no row that names the person: its locks would hold the
\* deletion up.
LEMMA DeleteRefers == ASSUME RInv, NEW p \in Persons, DeletePerson(p) PROVE RInv'
<1>1. /\ DOMAIN person' = Persons
      /\ Alive \ {p} \subseteq Alive'
  BY DEF RInv, DeletePerson, Alive
<1>2. /\ DOMAIN gitlab' = GitlabUsers /\ Refers(gitlab)'
      /\ DOMAIN pm' = PmUsers /\ Refers(pm)'
      /\ Assignments \subseteq DOMAIN assigned' /\ Refers(assigned)'
  BY <1>1, CascadeRefers DEF RInv, DeletePerson, Refers
<1>3. Refers(sync.rows)' BY <1>1 DEF RInv, DeletePerson, Refers
<1>4. Assignments' = Assignments BY DEF Assignments
<1>5. QED BY <1>1, <1>2, <1>3, <1>4 DEF RInv

LEMMA GovernanceRefers == ASSUME RInv, Governance PROVE RInv'
<1>1. ASSUME NEW p \in Persons, NEW u \in PmUsers, MapPm(p, u) PROVE RInv'
  BY <1>1 DEF MapPm, RInv, Refers, Alive, Assignments
<1>2. ASSUME NEW p \in Persons, NEW u \in GitlabUsers, MapGitlab(p, u) PROVE RInv'
  BY <1>2 DEF MapGitlab, RInv, Refers, Alive, Assignments
<1>3. ASSUME NEW u \in PmUsers, DeactivatePm(u) PROVE RInv'
  BY <1>3 DEF DeactivatePm, RInv, Refers, Alive, Assignments
<1>4. ASSUME NEW u \in GitlabUsers, DeactivateGitlab(u) PROVE RInv'
  BY <1>4 DEF DeactivateGitlab, RInv, Refers, Alive, Assignments
<1>5. ASSUME NEW p \in Persons, NEW a \in Assignments, link_to_person(a, p) PROVE RInv'
  BY <1>5 DEF link_to_person, dataVars, RInv, Refers, Alive, Assignments
<1>6. ASSUME NEW i \in Issues, IssueChanges(i) PROVE RInv'
  BY <1>6 DEF IssueChanges, RInv, Refers, Alive, Assignments
<1>7. ASSUME NEW c \in Edits, UnitIngested(c) PROVE RInv'
  BY <1>7 DEF UnitIngested, RInv, Refers, Alive, Assignments
<1>8. QED BY <1>1, <1>2, <1>3, <1>4, <1>5, <1>6, <1>7, StatusRefers, DeleteRefers DEF Governance

\* A row that the sync writes names a person that is there when it is written.
LEMMA SyncRefers == ASSUME RInv, SyncStep \/ SyncFails PROVE RInv'
<1>1. CASE SyncResolve
  <2>1. sync'.rows = sync.rows BY <1>1 DEF SyncResolve, Resolving, Off
  <2>2. QED BY <1>1, <2>1 DEF SyncResolve, dataVars, RInv, Refers, Alive, Assignments
<1>2. CASE SyncUpsert
  <2> DEFINE a == Head(sync.todo)
  <2>1. sync'.rows = With(sync.rows, a, sync.read) BY <1>2 DEF SyncUpsert, Resolved
  <2>2. /\ DOMAIN sync'.rows = {a} \cup DOMAIN sync.rows
        /\ \A x \in DOMAIN sync'.rows : sync'.rows[x] \in {sync.read} \cup {sync.rows[y] : y \in DOMAIN sync.rows}
    BY <2>1 DEF With, Over
  <2>3. QED BY <1>2, <2>2 DEF SyncUpsert, dataVars, RInv, Refers, Alive, Assignments
<1>3. CASE SyncCommit
  <2>1. /\ DOMAIN assigned' = DOMAIN sync.rows \cup DOMAIN assigned
        /\ \A x \in DOMAIN assigned' :
             assigned'[x] = IF x \in DOMAIN sync.rows THEN sync.rows[x] ELSE assigned[x]
    BY <1>3 DEF SyncCommit, Over
  <2>2. sync'.rows = [k \in {} |-> 0] BY <1>3 DEF SyncCommit, Off, NoRows
  <2>3. QED BY <1>3, <2>1, <2>2 DEF SyncCommit, dataVars, RInv, Refers, Alive, Assignments
<1>4. CASE SyncRefused \/ SyncFails
  <2>1. sync'.rows = [k \in {} |-> 0] BY <1>4 DEF SyncRefused, SyncFails, Off, NoRows
  <2>2. QED BY <1>4, <2>1 DEF SyncRefused, SyncFails, dataVars, RInv, Refers, Alive, Assignments
<1>5. QED BY <1>1, <1>2, <1>3, <1>4 DEF SyncStep

\* Recomputations write what is derived only.
LEMMA RunsRefer == ASSUME RInv, NEW r \in Runs, RunStep(r) \/ RunFails(r) PROVE RInv'
<1>1. UNCHANGED <<person, gitlab, pm, assigned, sync>>
  BY DEF RunStep, RunFails, Begin, Index, ReadUnits, Read, Upsert, Commit, Deadlock, dataVars
<1>2. QED BY <1>1 DEF RInv, Refers, Alive, Assignments

(* Identities, assignments and what an open sync has yet to commit name      *)
(* persons there are: deletions cascade, wait for the sync's locks, or make  *)
(* the foreign key refuse the sync's row.                                    *)
THEOREM ReferencesAreKept == Spec => []ReferencesResolve
<1>1. Init => RInv BY InitRefers, TeamOpsAssumption
<1>2. RInv /\ [Next]_vars => RInv'
  <2>1. ASSUME RInv, UNCHANGED vars PROVE RInv'
    BY <2>1 DEF vars, dataVars, RInv, Refers, Alive, Assignments
  <2>2. QED BY <2>1, GovernanceRefers, SyncRefers, RunsRefer DEF Next
<1>3. QED BY <1>1, <1>2, RInvImplies, PTL DEF Spec

-----------------------------------------------------------------------------
(* Types, and rows that are written by one recomputation at a time           *)

Named == Persons \cup {Nobody}

DataTypes ==
  /\ person \in [Persons -> Statuses \cup {"deleted"}]
  /\ gitlab \in [GitlabUsers -> Named] /\ pm \in [PmUsers -> Named]
  /\ issue \in [Issues -> IssueStates]
  /\ units \subseteq Edits /\ task \in Tasks /\ budget \in 0..Budget[task]

SyncTypes ==
  /\ assigned \in [Assignments -> Named]
  /\ sync.todo \in Seq(Assignments) /\ (sync.pc = "upsert" => sync.todo # <<>>)
  /\ sync.read \in Named
  /\ DOMAIN sync.rows \subseteq Assignments
  /\ \A a \in DOMAIN sync.rows : sync.rows[a] \in Named

\* A list of keys to go through names each of them once.
Listed(s) ==
  /\ s \in Seq(ToSet(s))
  /\ \A i, j \in DOMAIN s : i # j => s[i] # s[j]

\* A run has not written a key it has yet to write, and none before it writes.
StateOK(state) ==
  /\ state = [pc |-> state.pc, todo |-> state.todo, index |-> state.index,
              value |-> state.value, rows |-> state.rows]
  /\ state.pc \in {"idle", "index", "read", "write"}
  /\ state.pc = "idle" => state = Idle
  /\ Listed(state.todo)
  /\ DOMAIN state.rows \cap ToSet(state.todo) = {}
  /\ state.pc = "index" => DOMAIN state.rows = {}

\* No key is written by two runs.
RunTypes ==
  /\ run = [r \in Runs |-> run[r]]
  /\ \A r \in Runs : StateOK(run[r])
  /\ \A r, q \in Runs : r # q => DOMAIN run[r].rows \cap DOMAIN run[q].rows = {}

KInv == DataTypes /\ SyncTypes /\ RunTypes

LEMMA KInvImplies == ASSUME KInv PROVE TypeOK
<1>1. ToSet(sync.todo) \subseteq Assignments
  BY DEF KInv, SyncTypes, ToSet
<1>2. QED BY <1>1 DEF KInv, DataTypes, SyncTypes, RunTypes, StateOK, Named, TypeOK

LEMMA NothingListed == Listed(<<>>) /\ ToSet(<<>>) = {}
BY DEF Listed, ToSet

LEMMA IdleOK == StateOK(Idle) /\ DOMAIN Idle.rows = {}
BY NothingListed DEF StateOK, Idle, NoRows

LEMMA InitTypes == ASSUME TeamOpsAssumption, Init PROVE KInv
<1>1. (CHOOSE p \in Persons : TRUE) \in Persons BY DEF TeamOpsAssumption
<1>2. DataTypes BY <1>1 DEF Init, DataTypes, Named, Statuses, TeamOpsAssumption
<1>3. SyncTypes BY DEF Init, SyncTypes, Named, Off, NoRows
<1>4. RunTypes BY IdleOK DEF Init, RunTypes
<1>5. QED BY <1>2, <1>3, <1>4 DEF KInv

LEMMA TailSeq == ASSUME NEW S, NEW s \in Seq(S), s # <<>> PROVE Tail(s) \in Seq(S)
OBVIOUS

LEMMA ListSeq == ASSUME NEW S, NEW n \in Nat, NEW f \in [1..n -> S] PROVE f \in Seq(S)
OBVIOUS

LEMMA TailListed ==
  ASSUME NEW s, Listed(s), s # <<>>
  PROVE  /\ Listed(Tail(s)) /\ Head(s) \in ToSet(s)
         /\ ToSet(Tail(s)) \subseteq ToSet(s) \ {Head(s)}
<1>1. /\ Head(s) = s[1] /\ 1 \in DOMAIN s /\ Len(s) \in Nat
      /\ DOMAIN Tail(s) = 1..(Len(s) - 1) /\ DOMAIN s = 1..Len(s)
      /\ \A i \in DOMAIN Tail(s) : i + 1 \in DOMAIN s /\ Tail(s)[i] = s[i + 1]
  BY DEF Listed
<1>2. \A i, j \in DOMAIN Tail(s) : i # j => Tail(s)[i] # Tail(s)[j]
  BY <1>1 DEF Listed
<1>3. ToSet(Tail(s)) \subseteq ToSet(s) \ {Head(s)}
  BY <1>1 DEF Listed, ToSet
<1>4. Tail(s) \in Seq(ToSet(Tail(s)))
  <2>1. \A i \in 1..(Len(s) - 1) : Tail(s)[i] \in ToSet(Tail(s)) BY <1>1 DEF ToSet
  <2>2. Tail(s) \in Seq(ToSet(s)) BY TailSeq DEF Listed
  <2> DEFINE S == ToSet(s)  tl == Tail(s)
  <2> HIDE DEF S, tl
  <2>3. Tail(s) \in [1..(Len(s) - 1) -> ToSet(s)]
    <3>1. tl \in Seq(S) /\ DOMAIN tl = 1..(Len(s) - 1) BY <1>1, <2>2 DEF S, tl
    <3>2. tl \in [1..(Len(s) - 1) -> S] BY <3>1
    <3>3. QED BY <3>2 DEF S, tl
  <2>4. Tail(s) \in [1..(Len(s) - 1) -> ToSet(Tail(s))] BY <2>1, <2>3
  <2>5. Len(s) - 1 \in Nat BY <1>1
  <2>6. QED BY <2>4, <2>5, ListSeq
<1>5. QED BY <1>1, <1>2, <1>3, <1>4 DEF Listed, ToSet

LEMMA OrderListed ==
  ASSUME NEW S, IsFiniteSet(S), NEW order \in SetToSeqs(S)
  PROVE  Listed(order) /\ ToSet(order) \subseteq S
<1>1. Cardinality(S) \in Nat BY FS_CardinalityType
<1>2. /\ order \in [1..Cardinality(S) -> S]
      /\ \A i, j \in 1..Cardinality(S) : i # j => order[i] # order[j]
  BY DEF SetToSeqs
<1>3. \A i \in 1..Cardinality(S) : order[i] \in ToSet(order) BY <1>2 DEF ToSet
<1>4. order \in [1..Cardinality(S) -> ToSet(order)] BY <1>2, <1>3
<1>5. order \in Seq(ToSet(order)) BY <1>1, <1>4
<1>6. ToSet(order) \subseteq S BY <1>2 DEF ToSet
<1>7. QED BY <1>2, <1>5, <1>6 DEF Listed

-----------------------------------------------------------------------------
LEMMA SpendTypes == ASSUME DataTypes, NEW tables, Spend(tables), UNCHANGED task, TeamOpsAssumption
                    PROVE  (budget \in 0..Budget[task])'
BY DEF DataTypes, Spend, TeamOpsAssumption

LEMMA CascadeTypes ==
  ASSUME NEW D, NEW of \in [D -> Named], NEW p PROVE Cascade(of, p) \in [D -> Named]
BY DEF Cascade, Named

LEMMA GovernanceTypes == ASSUME TeamOpsAssumption, KInv, Governance PROVE KInv'
<1>0. DataTypes /\ SyncTypes /\ RunTypes BY DEF KInv
<1>1. UNCHANGED <<task, sync, run>> /\ \E tables : Spend(tables)
  BY DEF Governance, DeletePerson, SetStatus, MapPm, MapGitlab, link_to_person, DeactivatePm,
     DeactivateGitlab, IssueChanges, UnitIngested
<1>2. (budget \in 0..Budget[task])' BY <1>0, <1>1, SpendTypes
<1>3. (person \in [Persons -> Statuses \cup {"deleted"}])'
  BY <1>0 DEF DataTypes, Governance, DeletePerson, SetStatus, MapPm, MapGitlab, link_to_person,
     DeactivatePm, DeactivateGitlab, IssueChanges, UnitIngested, dataVars
<1>4. Persons \subseteq Named /\ Nobody \in Named BY DEF Named
<1>5. (gitlab \in [GitlabUsers -> Named])'
  <2>1. \/ \E p : gitlab' = Cascade(gitlab, p)
        \/ \E u, p : p \in Named /\ gitlab' = [gitlab EXCEPT ![u] = p]
        \/ gitlab' = gitlab
    BY <1>4 DEF Governance, DeletePerson, SetStatus, MapPm, MapGitlab, link_to_person,
       DeactivatePm, DeactivateGitlab, IssueChanges, UnitIngested, dataVars
  <2>2. QED BY <1>0, <2>1, CascadeTypes DEF DataTypes
<1>6. (pm \in [PmUsers -> Named])'
  <2>1. \/ \E p : pm' = Cascade(pm, p)
        \/ \E u, p : p \in Named /\ pm' = [pm EXCEPT ![u] = p]
        \/ pm' = pm
    BY <1>4 DEF Governance, DeletePerson, SetStatus, MapPm, MapGitlab, link_to_person,
       DeactivatePm, DeactivateGitlab, IssueChanges, UnitIngested, dataVars
  <2>2. QED BY <1>0, <2>1, CascadeTypes DEF DataTypes
<1>7. Assignments' = Assignments BY DEF Assignments
<1>8. (assigned \in [Assignments -> Named])'
  <2>1. \/ \E p : assigned' = Cascade(assigned, p)
        \/ \E u, p : p \in Named /\ assigned' = [assigned EXCEPT ![u] = p]
        \/ assigned' = assigned
    BY <1>4 DEF Governance, DeletePerson, SetStatus, MapPm, MapGitlab, link_to_person,
       DeactivatePm, DeactivateGitlab, IssueChanges, UnitIngested, dataVars
  <2>2. QED BY <1>0, <1>7, <2>1, CascadeTypes DEF SyncTypes
<1>9. (issue \in [Issues -> IssueStates])' /\ (units \subseteq Edits)'
  BY <1>0 DEF DataTypes, Governance, DeletePerson, SetStatus, MapPm, MapGitlab, link_to_person,
     DeactivatePm, DeactivateGitlab, IssueChanges, UnitIngested, dataVars
<1>10. DataTypes' BY <1>0, <1>1, <1>2, <1>3, <1>5, <1>6, <1>9 DEF DataTypes
<1>11. SyncTypes' BY <1>0, <1>1, <1>7, <1>8 DEF SyncTypes
<1>12. RunTypes' BY <1>0, <1>1 DEF RunTypes
<1>13. QED BY <1>10, <1>11, <1>12 DEF KInv

LEMMA SyncTyped == ASSUME TeamOpsAssumption, KInv, SyncStep \/ SyncFails PROVE KInv'
<1>0. DataTypes /\ SyncTypes /\ RunTypes BY DEF KInv
<1>1. /\ UNCHANGED <<dataVars, task, run>>
      /\ budget' = budget \/ \E tables : Spend(tables)
  BY DEF SyncStep, SyncFails, SyncResolve, SyncUpsert, SyncRefused, SyncCommit
<1>2. DataTypes'
  <2>1. (budget \in 0..Budget[task])' BY <1>0, <1>1, SpendTypes DEF DataTypes
  <2>2. QED BY <1>0, <1>1, <2>1 DEF DataTypes, dataVars
<1>3. RunTypes' BY <1>0, <1>1 DEF RunTypes
<1>4. Assignments' = Assignments BY DEF Assignments
<1>5. CASE SyncResolve
  <2>1. PICK todo : /\ todo \in SetToSeqs(Assignments) \cup {sync.todo} /\ todo # <<>>
                    /\ sync' = Resolving(todo)
    BY <1>5 DEF SyncResolve
  <2>2. todo \in Seq(Assignments)
    <3>1. IsFiniteSet(Assignments) BY FS_Product DEF Assignments, TeamOpsAssumption
    <3>2. CASE todo \in SetToSeqs(Assignments)
      <4>1. Listed(todo) /\ ToSet(todo) \subseteq Assignments BY <3>1, <3>2, OrderListed
      <4>2. QED BY <4>1 DEF Listed
    <3>3. QED BY <1>0, <2>1, <3>2 DEF SyncTypes
  <2>3. pm[Head(todo)[2]] \in Named
    <3>1. Head(todo) \in Assignments BY <2>1, <2>2
    <3>2. QED BY <1>0, <3>1 DEF DataTypes, Assignments
  <2>4. SyncTypes'
    BY <1>0, <1>4, <1>5, <2>1, <2>2, <2>3 DEF SyncTypes, SyncResolve, Resolving, Off
  <2>5. QED BY <1>2, <1>3, <2>4 DEF KInv
<1>6. CASE SyncUpsert
  <2> DEFINE a == Head(sync.todo)
  <2>1. /\ assigned' = assigned /\ sync.todo # <<>>
        /\ sync' = [pc |-> "resolve", todo |-> Tail(sync.todo), read |-> Nobody,
                    rows |-> With(sync.rows, a, sync.read)]
    BY <1>0, <1>6 DEF SyncUpsert, Resolved, SyncTypes
  <2>2. a \in Assignments /\ Tail(sync.todo) \in Seq(Assignments)
    BY <1>0, <2>1 DEF SyncTypes
  <2>3. /\ DOMAIN With(sync.rows, a, sync.read) \subseteq Assignments
        /\ \A x \in DOMAIN With(sync.rows, a, sync.read) :
             With(sync.rows, a, sync.read)[x] \in Named
    <3> HIDE DEF a
    <3>1. QED BY <1>0, <2>2 DEF SyncTypes, With, Over
  <2>4. SyncTypes'
    BY <1>0, <1>4, <2>1, <2>2, <2>3 DEF SyncTypes, Named
  <2>5. QED BY <1>2, <1>3, <2>4 DEF KInv
<1>7. CASE SyncCommit
  <2>1. assigned' = Over(sync.rows, assigned) /\ sync' = Off BY <1>7 DEF SyncCommit
  <2>2. Over(sync.rows, assigned) \in [Assignments -> Named]
    BY <1>0 DEF SyncTypes, Over
  <2>3. SyncTypes' BY <1>4, <2>1, <2>2 DEF SyncTypes, Off, NoRows, Named
  <2>4. QED BY <1>2, <1>3, <2>3 DEF KInv
<1>8. CASE SyncRefused \/ SyncFails
  <2>1. assigned' = assigned /\ sync' = Off BY <1>8 DEF SyncRefused, SyncFails
  <2>2. SyncTypes' BY <1>0, <1>4, <2>1 DEF SyncTypes, Off, NoRows, Named
  <2>3. QED BY <1>2, <1>3, <2>2 DEF KInv
<1>9. QED BY <1>5, <1>6, <1>7, <1>8 DEF SyncStep

-----------------------------------------------------------------------------
\* A step of one run that writes no key of another.
LEMMA RunMoves ==
  ASSUME RunTypes, NEW r \in Runs, NEW state, run' = [run EXCEPT ![r] = state], StateOK(state),
         \A q \in Runs \ {r} : DOMAIN state.rows \cap DOMAIN run[q].rows = {}
  PROVE  RunTypes'
<1>1. /\ run' = [q \in Runs |-> run'[q]] /\ run'[r] = state
      /\ \A q \in Runs \ {r} : run'[q] = run[q]
  BY DEF RunTypes
<1>2. QED BY <1>1 DEF RunTypes

\* The keys there are to derive, and the edges, are finitely many.
LEMMA KeysFinite == ASSUME TeamOpsAssumption, KInv PROVE IsFiniteSet(Keys)
<1>1. IsFiniteSet(Active) BY FS_Subset DEF Active, TeamOpsAssumption
<1>2. IsFiniteSet({task}) BY FS_Singleton
<1>3. IsFiniteSet(Iterations \X Active) /\ IsFiniteSet({task} \X Active)
  BY <1>1, <1>2, FS_Product DEF TeamOpsAssumption
<1>4. QED BY <1>3 DEF Keys

LEMMA EdgesFinite ==
  ASSUME TeamOpsAssumption, KInv, NEW index PROVE IsFiniteSet(DOMAIN Familiarity(index))
<1> DEFINE owned == {c \in units : c.owner \in DOMAIN index}
           KeyOf(c) == <<c.language, index[c.owner]>>
           f == [c \in owned |-> KeyOf(c)]
           T == {KeyOf(c) : c \in owned}
<1>1. IsFiniteSet(owned)
  BY FS_Subset DEF KInv, DataTypes, TeamOpsAssumption
<1>2. DOMAIN Familiarity(index) = T BY DEF Familiarity
<1> HIDE DEF owned, KeyOf
<1>3. f \in Surjection(owned, T) BY DEF Surjection
<1>4. IsFiniteSet(T) BY <1>1, <1>3, FS_Surjection
<1>5. QED BY <1>2, <1>4

\* A row is written: its key is behind the run, and no other run has it.
LEMMA UpsertedOK ==
  ASSUME RunTypes, NEW r \in Runs, run[r].pc = "write", run[r].todo # <<>>
  PROVE  /\ StateOK(Upserted(r))
         /\ DOMAIN Upserted(r).rows = DOMAIN run[r].rows \cup {Head(run[r].todo)}
<1> DEFINE key == Head(run[r].todo)
<1>1. StateOK(run[r]) BY DEF RunTypes
<1>2. Upserted(r) =
        [pc |-> IF task = "familiarity" THEN "write" ELSE "read", todo |-> Tail(run[r].todo),
         index |-> run[r].index,
         value |-> Restrict(run[r].value, DOMAIN run[r].value \ {key}),
         rows |-> With(run[r].rows, key, Conflict(key, run[r].value[key]))]
  <2>1. run[r] = [pc |-> run[r].pc, todo |-> run[r].todo, index |-> run[r].index,
                  value |-> run[r].value, rows |-> run[r].rows]
    BY <1>1 DEF StateOK
  <2> DEFINE row == Conflict(key, run[r].value[key])
             left == Restrict(run[r].value, DOMAIN run[r].value \ {key})
             new == With(run[r].rows, key, row)
  <2>2. Upserted(r) = [run[r] EXCEPT !.todo = Tail(run[r].todo), !.value = left,
                        !.pc = IF task = "familiarity" THEN "write" ELSE "read", !.rows = new]
    BY DEF Upserted
  <2> HIDE DEF key, row, left, new
  <2>3. QED BY <2>1, <2>2 DEF row, left, new
<1>3. /\ Listed(Tail(run[r].todo)) /\ key \in ToSet(run[r].todo)
      /\ ToSet(Tail(run[r].todo)) \subseteq ToSet(run[r].todo) \ {key}
  BY <1>1, TailListed DEF StateOK
<1>4. DOMAIN With(run[r].rows, key, Conflict(key, run[r].value[key]))
        = DOMAIN run[r].rows \cup {key}
  BY DEF With, Over
<1> HIDE DEF key
<1>5. Upserted(r).rows = With(run[r].rows, key, Conflict(key, run[r].value[key]))
      /\ Upserted(r).todo = Tail(run[r].todo) /\ Upserted(r).index = run[r].index
  BY <1>2
<1>6. StateOK(Upserted(r))
  BY <1>1, <1>2, <1>3, <1>4, <1>5 DEF StateOK
<1>7. QED BY <1>4, <1>5, <1>6 DEF key

LEMMA RunTyped == ASSUME TeamOpsAssumption, KInv, NEW r \in Runs, RunStep(r) PROVE KInv'
<1>0. DataTypes /\ SyncTypes /\ RunTypes BY DEF KInv
<1>1. UNCHANGED <<dataVars, assigned, task, sync, budget>>
  BY DEF RunStep, Begin, Index, ReadUnits, Read, Upsert, Commit, Deadlock
<1>2. DataTypes' BY <1>0, <1>1 DEF DataTypes, dataVars
<1>3. Assignments' = Assignments BY DEF Assignments
<1>4. SyncTypes' BY <1>0, <1>1, <1>3 DEF SyncTypes
<1>5. StateOK(run[r]) /\ \A q \in Runs \ {r} : DOMAIN run[r].rows \cap DOMAIN run[q].rows = {}
  BY <1>0 DEF RunTypes
<1>6. PICK s, pc, todo, was, held, rows :
        /\ s = run[r]
        /\ s = [pc |-> pc, todo |-> todo, index |-> was, value |-> held, rows |-> rows]
  BY <1>5 DEF StateOK
<1>shape. s = [pc |-> pc, todo |-> todo, index |-> was, value |-> held, rows |-> rows] BY <1>6
\* A step that writes no row.
<1>7. ASSUME NEW state, Set(r, state), StateOK(state), DOMAIN state.rows \subseteq DOMAIN run[r].rows
      PROVE  RunTypes'
  BY <1>0, <1>5, <1>7, RunMoves DEF Set
<1>8. ASSUME Begin(r) PROVE RunTypes'
  <2>1. PICK order, state :
          /\ order \in SetToSeqs(Keys)
          /\ Set(r, state)
          /\ state = [Idle EXCEPT !.todo = order,
                        !.pc = IF task = "familiarity" THEN "index" ELSE "read"]
    BY <1>8 DEF Begin
  <2>2. Listed(order) BY <2>1, KeysFinite, OrderListed
  <2>3. state = [pc |-> IF task = "familiarity" THEN "index" ELSE "read", todo |-> order,
                 index |-> NoRows, value |-> NoRows, rows |-> NoRows]
    BY <2>1 DEF Idle
  <2>4. StateOK(state) /\ DOMAIN state.rows = {} BY <2>2, <2>3 DEF StateOK, NoRows
  <2>5. QED BY <1>7, <2>1, <2>4
<1>9. ASSUME Index(r) PROVE RunTypes'
  <2>1. run[r].pc = "index" /\ run[r].todo # <<>>
    BY <1>9 DEF Index
  <2>2. PICK index, state :
          /\ Set(r, state)
          /\ state = [s EXCEPT !.todo = Tail(run[r].todo), !.index = index]
    BY <1>6, <1>9 DEF Index
  <2>3. state = [pc |-> pc, todo |-> Tail(run[r].todo), index |-> index,
                 value |-> held, rows |-> rows]
    <3>1. state = [s EXCEPT !.todo = Tail(run[r].todo), !.index = index] BY <2>2
    <3>2. QED BY <1>shape, <3>1
  <2>4. Listed(Tail(run[r].todo))
        /\ ToSet(Tail(run[r].todo)) \subseteq ToSet(run[r].todo)
    BY <1>5, <2>1, TailListed DEF StateOK
  <2>5. /\ state = [pc |-> state.pc, todo |-> state.todo, index |-> state.index,
                    value |-> state.value, rows |-> state.rows]
        /\ state.pc = pc /\ state.todo = Tail(run[r].todo) /\ state.rows = rows
    BY <2>3
  <2>6. run[r].pc = pc /\ run[r].rows = rows BY <1>6
  <2>7. StateOK(state) /\ state.rows = run[r].rows
    BY <1>5, <2>1, <2>4, <2>5, <2>6 DEF StateOK
  <2>8. QED BY <1>7, <2>2, <2>7
<1>10. ASSUME ReadUnits(r) PROVE RunTypes'
  <2>1. run[r].pc = "index" BY <1>10 DEF ReadUnits
  <2>2. PICK edges, order, state :
          /\ edges = Familiarity(run[r].index) /\ order \in SetToSeqs(DOMAIN edges)
          /\ Set(r, state)
          /\ state = [s EXCEPT !.pc = "write", !.todo = order,
                        !.index = NoRows, !.value = edges]
    BY <1>6, <1>10 DEF ReadUnits
  <2>3. state = [pc |-> "write", todo |-> order, index |-> NoRows,
                 value |-> edges, rows |-> rows]
    <3>1. state = [s EXCEPT !.pc = "write", !.todo = order,
                     !.index = NoRows, !.value = edges]
      BY <2>2
    <3>2. QED BY <1>shape, <3>1
  <2>4. Listed(order) BY <2>2, EdgesFinite, OrderListed
  <2>5. StateOK(state) /\ state.rows = run[r].rows
    BY <1>5, <1>6, <2>1, <2>3, <2>4 DEF StateOK
  <2>6. QED BY <1>7, <2>2, <2>5
<1>11. ASSUME Read(r) PROVE RunTypes'
  <2>1. PICK value, state :
          Set(r, state) /\ state = [s EXCEPT !.pc = "write", !.value = value]
    BY <1>6, <1>11 DEF Read
  <2>2. state = [pc |-> "write", todo |-> todo, index |-> was, value |-> value, rows |-> rows]
    <3>1. state = [s EXCEPT !.pc = "write", !.value = value] BY <2>1
    <3>2. QED BY <1>shape, <3>1
  <2>3. StateOK(state) /\ state.rows = run[r].rows BY <1>5, <1>6, <2>2 DEF StateOK
  <2>4. QED BY <1>7, <2>1, <2>3
<1>12. ASSUME Upsert(r) PROVE RunTypes'
  <2> DEFINE key == Head(run[r].todo)
  <2>1. run[r].pc = "write" /\ run[r].todo # <<>> /\ Set(r, Upserted(r))
    BY <1>12 DEF Upsert, Waiting
  <2>2. \A q \in Runs \ {r} : key \notin DOMAIN run[q].rows
    BY <1>12 DEF Upsert, Holder
  <2>3. StateOK(Upserted(r)) /\ DOMAIN Upserted(r).rows = DOMAIN run[r].rows \cup {key}
    BY <1>0, <2>1, UpsertedOK
  <2> HIDE DEF key
  <2>4. \A q \in Runs \ {r} : DOMAIN Upserted(r).rows \cap DOMAIN run[q].rows = {}
    BY <1>5, <2>2, <2>3
  <2>5. QED BY <1>0, <2>1, <2>3, <2>4, RunMoves DEF Set
<1>13. ASSUME Commit(r) PROVE RunTypes'
  <2>1. Set(r, Idle) BY <1>13 DEF Commit, Done
  <2>2. QED BY <1>7, <2>1, IdleOK
\* The run that is ended had the row the other waits for, so nobody else has.
<1>14. ASSUME Deadlock(r) PROVE RunTypes'
  <2>1. PICK q \in Runs : /\ q # r /\ q \in Holder(r) /\ r \in Holder(q)
                          /\ run' = [run EXCEPT ![r] = Idle, ![q] = Upserted(q)]
    BY <1>14 DEF Deadlock, Holder
  <2> DEFINE key == Head(run[q].todo)
  <2>2. run[q].pc = "write" /\ run[q].todo # <<>> /\ key \in DOMAIN run[r].rows
    BY <2>1 DEF Holder, Waiting
  <2>3. StateOK(Upserted(q)) /\ DOMAIN Upserted(q).rows = DOMAIN run[q].rows \cup {key}
    BY <1>0, <2>2, UpsertedOK
  <2> HIDE DEF key
  <2> DEFINE mid == [run EXCEPT ![r] = Idle]
  <2>4. /\ run' = [v \in Runs |-> run'[v]] /\ run'[r] = Idle /\ run'[q] = Upserted(q)
        /\ \A v \in Runs \ {r, q} : run'[v] = run[v]
    BY <1>0, <2>1 DEF RunTypes
  <2>5. ASSUME NEW v \in Runs PROVE StateOK(run'[v]) BY <1>0, <2>3, <2>4, IdleOK DEF RunTypes
  <2>6. ASSUME NEW v \in Runs \ {r, q} PROVE key \notin DOMAIN run[v].rows
    BY <1>5, <2>2, <2>6
  <2>7. ASSUME NEW v \in Runs, NEW u \in Runs, v # u
        PROVE  DOMAIN run'[v].rows \cap DOMAIN run'[u].rows = {}
    <3>1. DOMAIN run[v].rows \cap DOMAIN run[u].rows = {} BY <1>0, <2>7 DEF RunTypes
    <3>2. CASE v = r \/ u = r BY <2>4, <3>2, IdleOK
    <3>3. CASE v # r /\ u # r /\ v = q
      BY <2>3, <2>4, <2>6, <2>7, <3>1, <3>3
    <3>4. CASE v # r /\ u # r /\ u = q
      BY <2>3, <2>4, <2>6, <2>7, <3>1, <3>4
    <3>5. CASE v \notin {r, q} /\ u \notin {r, q} BY <2>4, <3>1, <3>5
    <3>6. QED BY <2>7, <3>2, <3>3, <3>4, <3>5
  <2>8. QED BY <2>4, <2>5, <2>7 DEF RunTypes
<1>15. RunTypes' BY <1>8, <1>9, <1>10, <1>11, <1>12, <1>13, <1>14 DEF RunStep
<1>16. QED BY <1>2, <1>4, <1>15 DEF KInv

LEMMA RunFailsTyped == ASSUME TeamOpsAssumption, KInv, NEW r \in Runs, RunFails(r) PROVE KInv'
<1>0. DataTypes /\ SyncTypes /\ RunTypes BY DEF KInv
<1>1. UNCHANGED <<dataVars, assigned, task, sync>> /\ Spend(Tasks) /\ Set(r, Idle)
  BY DEF RunFails
<1>2. (budget \in 0..Budget[task])' BY <1>0, <1>1, SpendTypes
<1>3. DataTypes' BY <1>0, <1>1, <1>2 DEF DataTypes, dataVars
<1>4. Assignments' = Assignments BY DEF Assignments
<1>5. SyncTypes' BY <1>0, <1>1, <1>4 DEF SyncTypes
<1>6. RunTypes' BY <1>0, <1>1, IdleOK, RunMoves DEF Set
<1>7. QED BY <1>3, <1>5, <1>6 DEF KInv

(* However recomputations overlap, fail and deadlock, a row is written by    *)
(* one of them at a time and by each once; and what is read and written has  *)
(* its type.                                                                 *)
THEOREM RowsHaveOneWriter == Spec => []TypeOK
<1>1. Init => KInv BY InitTypes, TeamOpsAssumption
<1>2. KInv /\ [Next]_vars => KInv'
  <2>1. ASSUME KInv, UNCHANGED vars PROVE KInv'
    <3>1. DataTypes' BY <2>1 DEF KInv, DataTypes, vars, dataVars
    <3>2. Assignments' = Assignments BY DEF Assignments
    <3>3. SyncTypes' BY <2>1, <3>2 DEF KInv, SyncTypes, vars
    <3>4. RunTypes' BY <2>1 DEF KInv, RunTypes, vars
    <3>5. QED BY <3>1, <3>3, <3>4 DEF KInv
  <2>2. QED BY <2>1, TeamOpsAssumption, GovernanceTypes, SyncTyped, RunTyped, RunFailsTyped DEF Next
<1>3. QED BY <1>1, <1>2, KInvImplies, PTL DEF Spec
=============================================================================
