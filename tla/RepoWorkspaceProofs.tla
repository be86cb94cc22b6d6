------------------------ MODULE RepoWorkspaceProofs ------------------------
(***************************************************************************)
(* What RepoWorkspace guarantees for any number of requests, job slots,    *)
(* places and repository ids, under every fault.                           *)
(***************************************************************************)
EXTENDS RepoWorkspace, TLAPS

-----------------------------------------------------------------------------
(* Types *)

DbTypeOK ==
  /\ row \in [Repos -> {"unborn", "live", "deleted"}]
  /\ runs \in [Repos -> BOOLEAN]
  /\ url \in [Repos -> BOOLEAN]
  /\ setting \in Places
  /\ written \in [Requests -> BOOLEAN]

DiskTypeOK ==
  /\ exists \in [Places -> BOOLEAN]
  /\ disk \in [Places -> [Repos -> Clones \cup Actors]]
  /\ lock \in [Repos -> Requests \cup {NoOne}]

ActorTypeOK ==
  /\ pc \in [Actors -> Steps]
  /\ on \in [Actors -> Repos \cup {NoRepo}]
  /\ dir \in [Actors -> Places]
  /\ cwd \in [Actors -> Places]

\* Only a request between its UPDATE and its commit has written the setting.
WrittenOK == \A q \in Requests : written[q] => pc[q] = "put_commit"

\* An actor beyond the lookup of its repository has one.
HasRepo == \A a \in Actors :
  pc[a] \in GitSteps \cup {"sync_read", "sync_lock", "diff", "review", "delete"} => on[a] \in Repos

Types == DbTypeOK /\ DiskTypeOK /\ ActorTypeOK /\ WrittenOK /\ HasRepo

LEMMA InitTypes == ASSUME WorkspaceAssumption, Init PROVE Types
BY DEF WorkspaceAssumption, Init, Types, DbTypeOK, DiskTypeOK, ActorTypeOK, WrittenOK,
       HasRepo, GitSteps, Steps, Clones

LEMMA LeaveTypes ==
  ASSUME WorkspaceAssumption, ActorTypeOK, HasRepo, NEW a \in Actors, Leave(a)
  PROVE  ActorTypeOK' /\ HasRepo'
BY DEF WorkspaceAssumption, Leave, ActorTypeOK, HasRepo, Steps, GitSteps

\* A step of a, which goes on with the repository it has.
LEMMA GotoTypes ==
  ASSUME ActorTypeOK, HasRepo, NEW a \in Actors, NEW step \in Steps, Goto(a, step),
         on[a] \in Repos \/ step \in {"put_write", "put_commit"}
  PROVE  ActorTypeOK' /\ HasRepo'
BY DEF Goto, ActorTypeOK, HasRepo, GitSteps, Steps

\* Only an actor that has written nothing, or is about to commit, has moved.
LEMMA WrittenKept ==
  ASSUME WrittenOK, UNCHANGED written, NEW a \in Actors,
         \A b \in Actors : b # a => pc'[b] = pc[b],
         pc[a] # "put_commit" \/ pc'[a] = "put_commit"
  PROVE  WrittenOK'
BY DEF WrittenOK, Actors

LEMMA ReleaseTypes ==
  ASSUME DiskTypeOK, NEW a, NEW ok, Release(a, ok)
  PROVE  lock' \in [Repos -> Requests \cup {NoOne}]
BY DEF DiskTypeOK, Release

LEMMA GitDoneTypes ==
  ASSUME WorkspaceAssumption, Types, NEW a \in Actors, NEW ok \in BOOLEAN,
         on[a] \in Repos, GitDone(a, ok)
  PROVE  ActorTypeOK' /\ HasRepo' /\ lock' \in [Repos -> Requests \cup {NoOne}]
<1>1. "diff" \in Steps BY DEF Steps
<1>2. QED BY <1>1, LeaveTypes, GotoTypes, ReleaseTypes DEF GitDone, Types

\* Requests that touch only rows, or begin.
LEMMA RowTypes ==
  ASSUME WorkspaceAssumption, Types, NEW q \in Requests,
         \/ FindRepo(q) \/ CreateRun(q) \/ CreateRunFails(q) \/ Delete(q)
         \/ \E r \in Repos : DeleteCheck(q, r) \/ Patch(r) \/ DeleteRuns(r)
  PROVE  Types'
<1> USE DEF Types
<1>0. q \in Actors BY DEF Actors
<1>1. CASE FindRepo(q)
  BY <1>0, <1>1 DEF FindRepo, Begin, Live, dbVars, diskVars, DbTypeOK, DiskTypeOK,
     ActorTypeOK, WrittenOK, HasRepo, GitSteps, Steps
<1>2. CASE CreateRun(q)
  <2>1. ActorTypeOK' /\ HasRepo' BY <1>0, <1>2, LeaveTypes DEF CreateRun
  <2>2. DbTypeOK' BY <1>2 DEF CreateRun, InsertRepo, ReuseRepo, Live, DbTypeOK
  <2>3. WrittenOK' BY <1>0, <1>2 DEF CreateRun, Leave, WrittenOK, ActorTypeOK, DbTypeOK
  <2>4. DiskTypeOK' BY <1>2 DEF CreateRun, DiskTypeOK, diskVars
  <2>5. QED BY <2>1, <2>2, <2>3, <2>4
<1>3. CASE CreateRunFails(q)
  <2>1. ActorTypeOK' /\ HasRepo' BY <1>0, <1>3, LeaveTypes DEF CreateRunFails
  <2>2. QED BY <2>1, <1>0, <1>3 DEF CreateRunFails, Leave, WrittenOK, ActorTypeOK, DbTypeOK,
            DiskTypeOK, dbVars, diskVars
<1>4. CASE Delete(q)
  <2>1. ActorTypeOK' /\ HasRepo' BY <1>0, <1>4, LeaveTypes DEF Delete
  <2>2. row' = row \/ row' = [row EXCEPT ![on[q]] = "deleted"] BY <1>4 DEF Delete
  <2>3. DbTypeOK' BY <1>4, <2>2 DEF Delete, DbTypeOK
  <2>4. WrittenOK' BY <1>0, <1>4 DEF Delete, Leave, WrittenOK, ActorTypeOK, DbTypeOK
  <2>5. DiskTypeOK' BY <1>4 DEF Delete, DiskTypeOK, diskVars
  <2>6. QED BY <2>1, <2>3, <2>4, <2>5
<1>5. CASE \E r \in Repos : DeleteCheck(q, r)
  BY <1>0, <1>5 DEF DeleteCheck, Begin, dbVars, diskVars, DbTypeOK, DiskTypeOK,
     ActorTypeOK, WrittenOK, HasRepo, GitSteps, Steps
<1>6. CASE \E r \in Repos : Patch(r) \/ DeleteRuns(r)
  BY <1>6 DEF Patch, DeleteRuns, actorVars, diskVars, DbTypeOK, DiskTypeOK,
     ActorTypeOK, WrittenOK, HasRepo
<1>7. QED BY <1>1, <1>2, <1>3, <1>4, <1>5, <1>6

\* The steps of a request to change the settings.
LEMMA PutTypes ==
  ASSUME WorkspaceAssumption, Types, NEW q \in Requests,
         \/ \E p \in Places : PutStart(q, p)
         \/ PutSame(q) \/ PutMove(q) \/ PutNoMove(q) \/ PutRefused(q)
         \/ PutWrite(q) \/ PutKeyRefused(q) \/ PutCommit(q)
  PROVE  Types'
<1> USE DEF Types
<1>0. q \in Actors /\ {"put_write", "put_commit"} \subseteq Steps BY DEF Actors, Steps
<1>1. CASE \E p \in Places : PutStart(q, p)
  BY <1>0, <1>1 DEF PutStart, Begin, dbVars, diskVars, DbTypeOK, DiskTypeOK,
     ActorTypeOK, WrittenOK, HasRepo, GitSteps, Steps
<1>2. CASE PutSame(q) \/ PutNoMove(q)
  <2>1. ActorTypeOK' /\ HasRepo' BY <1>0, <1>2, GotoTypes DEF PutSame, PutNoMove
  <2>2. /\ pc[q] = "put" /\ UNCHANGED written
        /\ \A b \in Actors : b # q => pc'[b] = pc[b]
    BY <1>0, <1>2 DEF PutSame, PutNoMove, Goto, dbVars, ActorTypeOK
  <2>3. WrittenOK' BY <1>0, <2>2, WrittenKept
  <2>4. QED BY <2>1, <2>3, <1>2 DEF PutSame, PutNoMove, dbVars, diskVars, DbTypeOK, DiskTypeOK
<1>3. CASE PutMove(q)
  <2>1. DbTypeOK' /\ lock' = lock BY <1>3 DEF PutMove, dbVars, DbTypeOK
  <2>2. pc' = [pc EXCEPT ![q] = "put_write"] /\ UNCHANGED <<on, dir>> BY <1>3 DEF PutMove
  <2>3. dir[q] \in Places /\ setting \in Places BY <1>0 DEF ActorTypeOK, DbTypeOK
  <2>4. cwd' \in [Actors -> Places] BY <1>3, <2>3 DEF PutMove, Rename, ActorTypeOK
  <2>5. ActorTypeOK' BY <1>0, <2>2, <2>4 DEF ActorTypeOK
  <2>6. HasRepo' BY <1>0, <2>2 DEF ActorTypeOK, HasRepo, GitSteps
  <2>7. WrittenOK' BY <1>0, <1>3, <2>2 DEF PutMove, WrittenOK, ActorTypeOK, dbVars
  <2>8. exists' \in [Places -> BOOLEAN] BY <1>3 DEF PutMove, Rename, DiskTypeOK
  <2>9. disk' \in [Places -> [Repos -> Clones \cup Actors]]
    BY <1>3, <2>3 DEF PutMove, Rename, DiskTypeOK, Clones
  <2>10. DiskTypeOK' BY <2>1, <2>8, <2>9 DEF DiskTypeOK
  <2>11. QED BY <2>1, <2>5, <2>6, <2>7, <2>10
<1>4. CASE PutRefused(q)
  <2>1. ActorTypeOK' /\ HasRepo' BY <1>0, <1>4, LeaveTypes DEF PutRefused
  <2>2. WrittenOK' BY <1>0, <1>4 DEF PutRefused, Leave, dbVars, WrittenOK, ActorTypeOK
  <2>3. QED BY <2>1, <2>2, <1>4 DEF PutRefused, dbVars, diskVars, DbTypeOK, DiskTypeOK
<1>5. CASE PutWrite(q)
  <2>1. ActorTypeOK' /\ HasRepo' BY <1>0, <1>5, GotoTypes DEF PutWrite
  <2>2. WrittenOK' BY <1>0, <1>5 DEF PutWrite, Goto, WrittenOK, ActorTypeOK, DbTypeOK
  <2>3. QED BY <2>1, <2>2, <1>5 DEF PutWrite, diskVars, DbTypeOK, DiskTypeOK
<1>6. CASE PutKeyRefused(q)
  <2>1. ActorTypeOK' /\ HasRepo' BY <1>0, <1>6, LeaveTypes DEF PutKeyRefused
  <2>2. WrittenOK' BY <1>0, <1>6 DEF PutKeyRefused, Leave, WrittenOK, ActorTypeOK, DbTypeOK
  <2>3. QED BY <2>1, <2>2, <1>6 DEF PutKeyRefused, diskVars, DbTypeOK, DiskTypeOK
<1>7. CASE PutCommit(q)
  <2>1. ActorTypeOK' /\ HasRepo' BY <1>0, <1>7, LeaveTypes DEF PutCommit
  <2>2. WrittenOK' BY <1>0, <1>7 DEF PutCommit, Leave, WrittenOK, ActorTypeOK, DbTypeOK
  <2>3. setting' \in Places BY <1>0, <1>7 DEF PutCommit, DbTypeOK, ActorTypeOK
  <2>4. QED BY <2>1, <2>2, <2>3, <1>7 DEF PutCommit, diskVars, DbTypeOK, DiskTypeOK
<1>8. QED BY <1>1, <1>2, <1>3, <1>4, <1>5, <1>6, <1>7

\* A step that leaves rows and directories alone and keeps the actors typed.
LEMMA SyncTypes ==
  ASSUME WorkspaceAssumption, Types, NEW q \in Requests,
         SyncRead(q) \/ SyncLock(q) \/ \E r \in Repos : SyncStart(q, r)
  PROVE  Types'
<1> USE DEF Types
<1>0. q \in Actors BY DEF Actors
<1>1. ActorTypeOK' /\ HasRepo'
  BY <1>0 DEF SyncRead, SyncLock, SyncStart, Begin, Goto, ActorTypeOK, HasRepo, DbTypeOK,
     GitSteps, Steps
<1>2. DbTypeOK' BY DEF SyncRead, SyncLock, SyncStart, dbVars, DbTypeOK
<1>3. DiskTypeOK' BY DEF SyncRead, SyncLock, SyncStart, diskVars, DiskTypeOK
<1>4. WrittenOK'
  <2>1. /\ pc[q] # "put_commit" /\ UNCHANGED written
        /\ \A b \in Actors : b # q => pc'[b] = pc[b]
    BY <1>0 DEF SyncRead, SyncLock, SyncStart, Begin, Goto, dbVars, ActorTypeOK
  <2>2. QED BY <1>0, <2>1, WrittenKept
<1>5. QED BY <1>1, <1>2, <1>3, <1>4

\* One step of git changes one entry of one directory at most.
LEMMA GitTypes ==
  ASSUME WorkspaceAssumption, Types, NEW a \in Actors, GitStep(a)
  PROVE  Types'
<1> USE DEF Types
<1>0. /\ on[a] \in Repos /\ dir[a] \in Places /\ cwd[a] \in Places
      /\ pc[a] \in GitSteps /\ GitSteps \subseteq Steps
      /\ Clones \subseteq Clones \cup Actors
  BY DEF GitStep, GitCheck, CloneStart, CloneEnd, CloneFails, FetchStart, FetchEnd, FetchFails,
     HasRepo, ActorTypeOK, GitSteps, Steps
<1>1. DbTypeOK' /\ written' = written
  BY DEF GitStep, GitCheck, CloneStart, CloneEnd, CloneFails, FetchStart, FetchEnd, FetchFails,
     dbVars, DbTypeOK
<1>2. exists' \in [Places -> BOOLEAN]
  BY <1>0 DEF GitStep, GitCheck, CloneStart, CloneEnd, CloneFails, FetchStart, FetchEnd,
     FetchFails, DiskTypeOK, diskVars
<1>3. disk' \in [Places -> [Repos -> Clones \cup Actors]]
  <2>1. CASE GitCheck(a) \/ FetchStart(a) \/ FetchFails(a)
    BY <2>1 DEF GitCheck, FetchStart, FetchFails, diskVars, DiskTypeOK
  <2>2. CASE CloneStart(a)
    <3>1. disk' = disk \/ disk' = [disk EXCEPT ![dir[a]][on[a]] = a] BY <2>2 DEF CloneStart
    <3>2. QED BY <1>0, <3>1 DEF DiskTypeOK
  <2>3. CASE CloneEnd(a) BY <1>0, <2>3 DEF CloneEnd, DiskTypeOK, Clones
  <2>4. CASE CloneFails(a) BY <1>0, <2>4 DEF CloneFails, DiskTypeOK, Clones
  <2>5. CASE FetchEnd(a) BY <1>0, <2>5 DEF FetchEnd, DiskTypeOK, Clones
  <2>6. QED BY <2>1, <2>2, <2>3, <2>4, <2>5 DEF GitStep
<1>4. ActorTypeOK' /\ HasRepo' /\ lock' \in [Repos -> Requests \cup {NoOne}]
  <2>1. CASE \E ok \in BOOLEAN : GitDone(a, ok) BY <1>0, <2>1, GitDoneTypes
  <2>2. CASE GitCheck(a)
    BY <1>0, <2>2, GotoTypes DEF GitCheck, GitSteps, DiskTypeOK
  <2>3. CASE CloneStart(a) /\ ~ GitDone(a, FALSE)
    BY <1>0, <2>3, GotoTypes DEF CloneStart, GitSteps, DiskTypeOK
  <2>4. CASE FetchStart(a) /\ ~ GitDone(a, FALSE)
    <3>1. /\ pc' = [pc EXCEPT ![a] = "fetching"] /\ cwd' = [cwd EXCEPT ![a] = dir[a]]
          /\ UNCHANGED <<on, dir, lock>>
      BY <2>4 DEF FetchStart
    <3>2. "fetching" \in Steps BY DEF Steps, GitSteps
    <3>3. ActorTypeOK' BY <1>0, <3>1, <3>2 DEF ActorTypeOK
    <3>4. HasRepo' BY <1>0, <3>1 DEF HasRepo, ActorTypeOK
    <3>5. QED BY <3>1, <3>3, <3>4 DEF DiskTypeOK
  <2>5. QED
    BY <2>1, <2>2, <2>3, <2>4 DEF GitStep, CloneEnd, CloneFails, FetchEnd, FetchFails
<1>5. WrittenOK'
  <2>1. \A b \in Actors : b # a => pc'[b] = pc[b]
    BY DEF GitStep, GitCheck, CloneStart, CloneEnd, CloneFails, FetchStart, FetchEnd, FetchFails,
       GitDone, Goto, Leave, ActorTypeOK
  <2>2. QED BY <1>0, <1>1, <2>1 DEF WrittenOK, Actors, GitSteps
<1>6. QED BY <1>1, <1>2, <1>3, <1>4, <1>5 DEF DiskTypeOK

LEMMA IngestTypes ==
  ASSUME WorkspaceAssumption, Types, NEW w \in Ingests,
         IngestStep(w) \/ \E r \in Repos : IngestStart(w, r)
  PROVE  Types'
<1> USE DEF Types
<1>0. w \in Actors /\ "review" \in Steps BY DEF Actors, Steps
<1>1. DbTypeOK' /\ DiskTypeOK' /\ written' = written
  BY DEF IngestStep, IngestStart, IngestDiff, ReviewOpens, ReviewNotCloned, dbVars, diskVars,
     DbTypeOK, DiskTypeOK
<1>2. ActorTypeOK' /\ HasRepo'
  <2>1. CASE Leave(w) BY <1>0, <2>1, LeaveTypes
  <2>2. CASE IngestDiff(w) /\ ~ Leave(w)
    BY <1>0, <2>2, GotoTypes DEF IngestDiff, HasRepo
  <2>3. CASE \E r \in Repos : IngestStart(w, r)
    BY <1>0, <2>3 DEF IngestStart, Begin, ActorTypeOK, HasRepo, DbTypeOK, GitSteps, Steps
  <2>4. QED BY <2>1, <2>2, <2>3 DEF IngestStep, ReviewOpens, ReviewNotCloned
<1>3. WrittenOK'
  <2>1. pc[w] # "put_commit" /\ \A b \in Actors : b # w => pc'[b] = pc[b]
    BY <1>0 DEF IngestStep, IngestStart, IngestDiff, ReviewOpens, ReviewNotCloned, Begin,
       Goto, Leave, ActorTypeOK
  <2>2. QED BY <1>0, <1>1, <2>1, WrittenKept
<1>4. QED BY <1>1, <1>2, <1>3

LEMMA KilledTypes ==
  ASSUME WorkspaceAssumption, Types, NEW dead, Killed(dead)
  PROVE  Types'
<1> USE DEF Types
<1>1. DbTypeOK' BY DEF Killed, DbTypeOK
<1>2. disk' \in [Places -> [Repos -> Clones \cup Actors]] BY DEF Killed, DiskTypeOK, Clones
<1>3. DiskTypeOK' BY <1>2 DEF Killed, DiskTypeOK
<1>4. ActorTypeOK' BY DEF Killed, ActorTypeOK, WorkspaceAssumption, Steps
<1>5. HasRepo' BY DEF Killed, HasRepo, GitSteps
<1>6. WrittenOK' BY DEF Killed, WrittenOK, ActorTypeOK, Actors
<1>7. QED BY <1>1, <1>3, <1>4, <1>5, <1>6

LEMMA StepTypes ==
  ASSUME WorkspaceAssumption, Types, [Next]_vars
  PROVE  Types'
<1>1. CASE UNCHANGED vars
  BY <1>1 DEF vars, dbVars, diskVars, actorVars, Types, DbTypeOK, DiskTypeOK, ActorTypeOK,
     WrittenOK, HasRepo
<1>2. ASSUME NEW q \in Requests, Arrive(q) \/ RequestStep(q) \/ SyncLock(q)
      PROVE  Types'
  BY <1>2, RowTypes, PutTypes, SyncTypes DEF Arrive, RequestStep
<1>3. ASSUME NEW r \in Repos, Patch(r) \/ DeleteRuns(r) PROVE Types'
  BY <1>3 DEF Patch, DeleteRuns, actorVars, diskVars, Types, DbTypeOK, DiskTypeOK,
     ActorTypeOK, WrittenOK, HasRepo
<1>4. QED
  BY <1>1, <1>2, <1>3, GitTypes, IngestTypes, KilledTypes
     DEF Next, GatewayKilled, WorkerKilled

(* The columns, the directories and what each actor holds keep to the values *)
(* the code knows, and an uncommitted setting has a request that will commit *)
(* it or roll it back.                                                       *)
THEOREM WorkspaceTypes == Spec => []TypeOK
<1>1. Init => Types BY InitTypes, WorkspaceAssumption
<1>2. Types /\ [Next]_vars => Types' BY StepTypes, WorkspaceAssumption
<1>3. Types => TypeOK
  BY DEF Types, TypeOK, DbTypeOK, DiskTypeOK, ActorTypeOK, WrittenOK
<1>4. QED BY <1>1, <1>2, <1>3, PTL DEF Spec

-----------------------------------------------------------------------------
(* The sync lock *)

\* A request that runs git on a repository owns its lock, and only such a
\* request owns one.
LockOwned ==
  /\ \A q \in Requests : pc[q] \in GitSteps => lock[on[q]] = q
  /\ \A r \in Repos : lock[r] # NoOne => pc[lock[r]] \in GitSteps /\ on[lock[r]] = r

\* Whoever neither runs git nor is about to can do what it likes.
LEMMA LockUntouched ==
  ASSUME LockOwned, Types, UNCHANGED lock, NEW a \in Actors,
         \A b \in Actors : b # a => pc'[b] = pc[b] /\ on'[b] = on[b],
         pc[a] \notin GitSteps, a \in Requests => pc'[a] \notin GitSteps
  PROVE  LockOwned'
<1>1. \A q \in Requests : q # a => pc'[q] = pc[q] /\ on'[q] = on[q] BY DEF Actors
<1>2. \A q \in Requests : pc'[q] \in GitSteps => lock'[on'[q]] = q
  BY <1>1 DEF LockOwned
<1>3. ASSUME NEW r \in Repos, lock'[r] # NoOne
      PROVE  pc'[lock'[r]] \in GitSteps /\ on'[lock'[r]] = r
  <2>1. lock'[r] \in Requests /\ lock'[r] # a
    BY <1>3 DEF LockOwned, Types, DiskTypeOK
  <2>2. QED BY <1>1, <1>3, <2>1 DEF LockOwned
<1>4. QED BY <1>2, <1>3 DEF LockOwned

LEMMA LockReleased ==
  ASSUME WorkspaceAssumption, LockOwned, Types, NEW a \in Actors, NEW ok \in BOOLEAN,
         pc[a] \in GitSteps, GitDone(a, ok)
  PROVE  LockOwned'
<1>1. \A b \in Actors : b # a => pc'[b] = pc[b] /\ on'[b] = on[b]
  BY DEF GitDone, Goto, Leave, Types, ActorTypeOK
<1>2. \A r \in Repos : lock'[r] = IF lock[r] = a THEN NoOne ELSE lock[r]
  BY DEF GitDone, Release
<1>3. ASSUME NEW q \in Requests, pc'[q] \in GitSteps PROVE lock'[on'[q]] = q
  <2>1. q \in Actors BY DEF Actors
  <2>2. q # a
    BY <1>3 DEF GitDone, Leave, Types, ActorTypeOK, GitSteps, WorkspaceAssumption
  <2>3. pc[q] \in GitSteps /\ on'[q] = on[q] BY <1>1, <1>3, <2>1, <2>2
  <2>4. on[q] \in Repos BY <2>1, <2>3 DEF Types, HasRepo
  <2>5. lock[on[q]] = q BY <2>3 DEF LockOwned
  <2>6. QED BY <1>2, <2>2, <2>3, <2>4, <2>5
<1>4. ASSUME NEW r \in Repos, lock'[r] # NoOne
      PROVE  pc'[lock'[r]] \in GitSteps /\ on'[lock'[r]] = r
  <2>1. lock'[r] = lock[r] /\ lock[r] # a BY <1>2, <1>4
  <2>2. lock[r] \in Actors BY <1>4, <2>1 DEF Types, DiskTypeOK, Actors
  <2>3. QED BY <1>1, <1>4, <2>1, <2>2 DEF LockOwned
<1>5. QED BY <1>3, <1>4 DEF LockOwned

\* An actor that goes from one step of git to another.
LEMMA LockKept ==
  ASSUME LockOwned, Types, UNCHANGED <<lock, on>>, NEW a \in Actors,
         \A b \in Actors : b # a => pc'[b] = pc[b],
         pc[a] \in GitSteps, pc'[a] \in GitSteps
  PROVE  LockOwned'
<1>1. \A q \in Requests : pc'[q] \in GitSteps => pc[q] \in GitSteps BY DEF Actors
<1>2. \A q \in Requests : pc[q] \in GitSteps => pc'[q] \in GitSteps BY DEF Actors
<1>3. \A r \in Repos : lock[r] # NoOne => lock[r] \in Requests BY DEF Types, DiskTypeOK
<1>4. QED BY <1>1, <1>2, <1>3 DEF LockOwned

LEMMA LockTaken ==
  ASSUME WorkspaceAssumption, LockOwned, Types, NEW q \in Requests, SyncLock(q)
  PROVE  LockOwned'
<1>0. q \in Actors /\ on[q] \in Repos BY DEF SyncLock, Actors, Types, HasRepo
<1>1. /\ lock[on[q]] = NoOne /\ lock' = [lock EXCEPT ![on[q]] = q]
      /\ on' = on /\ pc' = [pc EXCEPT ![q] = "check"]
  BY DEF SyncLock, Goto
<1>2. ASSUME NEW o \in Requests, pc'[o] \in GitSteps PROVE lock'[on'[o]] = o
  <2>1. CASE o = q BY <1>0, <1>1, <2>1 DEF Types, DiskTypeOK
  <2>2. CASE o # q
    <3>1. o \in Actors /\ pc[o] \in GitSteps
      BY <1>1, <1>2, <2>2 DEF Actors, Types, ActorTypeOK
    <3>2. lock[on[o]] = o /\ on[o] \in Repos BY <3>1 DEF LockOwned, Types, HasRepo
    <3>3. on[o] # on[q] BY <1>1, <3>2 DEF WorkspaceAssumption
    <3>4. QED BY <1>0, <1>1, <3>2, <3>3 DEF Types, DiskTypeOK
  <2>3. QED BY <2>1, <2>2
<1>3. ASSUME NEW r \in Repos, lock'[r] # NoOne
      PROVE  pc'[lock'[r]] \in GitSteps /\ on'[lock'[r]] = r
  <2>1. CASE r = on[q]
    BY <1>0, <1>1, <2>1 DEF Types, DiskTypeOK, ActorTypeOK, GitSteps
  <2>2. CASE r # on[q]
    <3>1. lock'[r] = lock[r] BY <1>1, <2>2 DEF Types, DiskTypeOK
    <3>2. lock[r] \in Requests /\ pc[lock[r]] \in GitSteps /\ on[lock[r]] = r
      BY <1>3, <3>1 DEF LockOwned, Types, DiskTypeOK
    <3>3. lock[r] \in Actors /\ lock[r] # q BY <3>2, <2>2 DEF Actors
    <3>4. QED BY <1>1, <3>1, <3>2, <3>3 DEF Types, ActorTypeOK
  <2>3. QED BY <2>1, <2>2
<1>4. QED BY <1>2, <1>3 DEF LockOwned

LEMMA LockKilled ==
  ASSUME WorkspaceAssumption, LockOwned, Types, NEW dead \in {Requests, Ingests}, Killed(dead)
  PROVE  LockOwned'
<1>1. /\ \A r \in Repos : lock'[r] = IF lock[r] \in dead THEN NoOne ELSE lock[r]
      /\ \A a \in Actors : pc'[a] = IF a \in dead THEN "idle" ELSE pc[a]
      /\ \A a \in Actors : on'[a] = IF a \in dead THEN NoRepo ELSE on[a]
  BY DEF Killed
<1>2. ASSUME NEW q \in Requests, pc'[q] \in GitSteps PROVE lock'[on'[q]] = q
  <2>1. q \in Actors /\ q \notin dead BY <1>1, <1>2 DEF Actors, GitSteps
  <2>2. pc[q] \in GitSteps /\ on'[q] = on[q] BY <1>1, <1>2, <2>1
  <2>3. on[q] \in Repos /\ lock[on[q]] = q BY <2>1, <2>2 DEF LockOwned, Types, HasRepo
  <2>4. QED BY <1>1, <2>1, <2>2, <2>3
<1>3. ASSUME NEW r \in Repos, lock'[r] # NoOne
      PROVE  pc'[lock'[r]] \in GitSteps /\ on'[lock'[r]] = r
  <2>1. lock'[r] = lock[r] /\ lock[r] \notin dead BY <1>1, <1>3
  <2>2. lock[r] \in Actors BY <1>3, <2>1 DEF Types, DiskTypeOK, Actors
  <2>3. QED BY <1>1, <1>3, <2>1, <2>2 DEF LockOwned
<1>4. QED BY <1>2, <1>3 DEF LockOwned

LEMMA LockStep ==
  ASSUME WorkspaceAssumption, Types, LockOwned, [Next]_vars
  PROVE  LockOwned'
<1>1. CASE UNCHANGED vars \/ \E r \in Repos : Patch(r) \/ DeleteRuns(r)
  BY <1>1 DEF vars, actorVars, Patch, DeleteRuns, LockOwned
<1>2. ASSUME NEW q \in Requests, Arrive(q) \/ RequestStep(q) PROVE LockOwned'
  <2>1. q \in Actors BY DEF Actors
  <2>2. lock' = lock /\ pc[q] \notin GitSteps /\ pc'[q] \notin GitSteps
    BY <1>2, <2>1 DEF Arrive, RequestStep, FindRepo, DeleteCheck, SyncStart, PutStart, CreateRun,
       CreateRunFails, Delete, PutSame, PutMove, PutNoMove, PutRefused, PutWrite,
       PutKeyRefused, PutCommit, SyncRead, Begin, Goto, Leave, GitSteps, Types, ActorTypeOK
  <2>3. \A b \in Actors : b # q => pc'[b] = pc[b] /\ on'[b] = on[b]
    BY <1>2, <2>1 DEF Arrive, RequestStep, FindRepo, DeleteCheck, SyncStart, PutStart, CreateRun,
       CreateRunFails, Delete, PutSame, PutMove, PutNoMove, PutRefused, PutWrite,
       PutKeyRefused, PutCommit, SyncRead, Begin, Goto, Leave, Types, ActorTypeOK
  <2>4. QED BY <2>1, <2>2, <2>3, LockUntouched
<1>3. ASSUME NEW a \in Actors, GitStep(a) PROVE LockOwned'
  <2>1. pc[a] \in GitSteps
    BY <1>3 DEF GitStep, GitCheck, CloneStart, CloneEnd, CloneFails, FetchStart, FetchEnd,
       FetchFails, GitSteps
  <2>2. CASE \E ok \in BOOLEAN : GitDone(a, ok) BY <2>1, <2>2, LockReleased
  <2>3. CASE ~ \E ok \in BOOLEAN : GitDone(a, ok)
    <3>1. UNCHANGED <<lock, on>> /\ \E step \in GitSteps : pc' = [pc EXCEPT ![a] = step]
      BY <1>3, <2>3 DEF GitStep, GitCheck, CloneStart, CloneEnd, CloneFails, FetchStart,
         FetchEnd, FetchFails, Goto, GitSteps
    <3>2. pc'[a] \in GitSteps /\ \A b \in Actors : b # a => pc'[b] = pc[b]
      BY <3>1 DEF Types, ActorTypeOK
    <3>3. QED BY <2>1, <3>1, <3>2, LockKept
  <2>4. QED BY <2>2, <2>3
<1>4. ASSUME NEW w \in Ingests, IngestStep(w) \/ \E r \in Repos : IngestStart(w, r)
      PROVE  LockOwned'
  <2>1. w \in Actors /\ w \notin Requests BY DEF Actors, WorkspaceAssumption
  <2>2. /\ UNCHANGED lock /\ pc[w] \notin GitSteps
        /\ \A b \in Actors : b # w => pc'[b] = pc[b] /\ on'[b] = on[b]
    BY <1>4, <2>1 DEF IngestStep, IngestDiff, ReviewOpens, ReviewNotCloned, IngestStart, Begin,
       Goto, Leave, GitSteps, Types, ActorTypeOK
  <2>3. QED BY <2>1, <2>2, LockUntouched
<1>5. QED
  BY <1>1, <1>2, <1>3, <1>4, LockTaken, LockKilled DEF Next, GatewayKilled, WorkerKilled

(* However many requests pass the test of the lock before one of them takes  *)
(* it, one at most runs git on a repository, and a lock that is taken has an *)
(* owner that will release it.                                               *)
THEOREM SyncsExclude == Spec => []OneSyncPerRepository
<1>1. Init => Types /\ LockOwned
  BY InitTypes, WorkspaceAssumption DEF Init, LockOwned, GitSteps, Actors
<1>2. Types /\ LockOwned /\ [Next]_vars => (Types /\ LockOwned)'
  BY StepTypes, LockStep, WorkspaceAssumption
<1>3. LockOwned => OneSyncPerRepository BY DEF LockOwned, OneSyncPerRepository
<1>4. QED BY <1>1, <1>2, <1>3, PTL DEF Spec

-----------------------------------------------------------------------------
(* Rows and runs *)

\* Steps of every other kind leave rows and runs alone.
LEMMA RowsElsewhere ==
  ASSUME [Next]_vars, \A q \in Requests : ~ CreateRun(q) /\ ~ Delete(q),
         \A r \in Repos : ~ DeleteRuns(r)
  PROVE  UNCHANGED <<row, runs>>
<1>1. CASE UNCHANGED vars BY <1>1 DEF vars, dbVars
<1>2. ASSUME NEW q \in Requests, Arrive(q) \/ RequestStep(q) \/ SyncLock(q)
      PROVE  UNCHANGED <<row, runs>>
  BY <1>2 DEF Arrive, RequestStep, SyncLock, FindRepo, DeleteCheck, SyncStart, PutStart,
     CreateRunFails, PutSame, PutMove, PutNoMove, PutRefused, PutWrite, PutKeyRefused,
     PutCommit, SyncRead, dbVars
<1>3. ASSUME NEW a \in Actors, GitStep(a) PROVE UNCHANGED <<row, runs>>
  BY <1>3 DEF GitStep, GitCheck, CloneStart, CloneEnd, CloneFails, FetchStart, FetchEnd,
     FetchFails, dbVars
<1>4. ASSUME NEW w \in Ingests, IngestStep(w) \/ \E r \in Repos : IngestStart(w, r)
      PROVE  UNCHANGED <<row, runs>>
  BY <1>4 DEF IngestStep, IngestDiff, ReviewOpens, ReviewNotCloned, IngestStart, dbVars
<1>5. ASSUME NEW dead, Killed(dead) PROVE UNCHANGED <<row, runs>> BY <1>5 DEF Killed
<1>6. ASSUME NEW r \in Repos, Patch(r) PROVE UNCHANGED <<row, runs>> BY <1>6 DEF Patch
<1>7. QED BY <1>1, <1>2, <1>3, <1>4, <1>5, <1>6 DEF Next, GatewayKilled, WorkerKilled

(* Whichever of two lookups is first to insert, and whenever a repository is *)
(* deleted after its runs were counted, its name has one row and no run      *)
(* belongs to a row that is gone.                                            *)
THEOREM RunsHaveTheirRepository == Spec => []RunsBelongToTheRepository
<1>1. Init => Types /\ RunsBelongToTheRepository
  BY InitTypes, WorkspaceAssumption DEF Init, RunsBelongToTheRepository, Live
<1>2. Types /\ RunsBelongToTheRepository /\ [Next]_vars => RunsBelongToTheRepository'
  <2> SUFFICES ASSUME Types, RunsBelongToTheRepository, [Next]_vars
               PROVE  RunsBelongToTheRepository'
    OBVIOUS
  <2> USE DEF RunsBelongToTheRepository, Live, Types, DbTypeOK
  <2>1. ASSUME NEW q \in Requests, CreateRun(q) PROVE RunsBelongToTheRepository'
    <3>1. CASE \E r \in Repos : InsertRepo(q, r) BY <3>1 DEF InsertRepo
    <3>2. CASE ReuseRepo(q) BY <3>2 DEF ReuseRepo
    <3>3. QED BY <2>1, <3>1, <3>2 DEF CreateRun
  <2>2. ASSUME NEW q \in Requests, Delete(q) PROVE RunsBelongToTheRepository'
    <3>1. CASE DeleteRow(on[q])
      BY <2>2, <3>1 DEF Delete, DeleteRow
    <3>2. CASE ~ DeleteRow(on[q]) BY <2>2, <3>2 DEF Delete
    <3>3. QED BY <3>1, <3>2
  <2>3. ASSUME NEW r \in Repos, DeleteRuns(r) PROVE RunsBelongToTheRepository'
    BY <2>3 DEF DeleteRuns
  <2>4. CASE UNCHANGED <<row, runs>> BY <2>4
  <2>5. QED BY <2>1, <2>2, <2>3, <2>4, RowsElsewhere
<1>3. QED BY <1>1, <1>2, StepTypes, WorkspaceAssumption, PTL DEF Spec

-----------------------------------------------------------------------------
(* The clones *)

\* Where something lies there is a directory, so that no clone is in the way
\* of one that is moved to a place that has none.
PlacesOK == \A p \in Places, r \in Repos : disk[p][r] # "absent" => exists[p]

LEMMA PlacesGit ==
  ASSUME Types, PlacesOK, NEW a \in Actors, GitStep(a)
  PROVE  PlacesOK'
<1>0. on[a] \in Repos /\ dir[a] \in Places /\ cwd[a] \in Places
  BY DEF GitStep, GitCheck, CloneStart, CloneEnd, CloneFails, FetchStart, FetchEnd, FetchFails,
     Types, HasRepo, ActorTypeOK, GitSteps
<1> USE DEF Types, DiskTypeOK, PlacesOK
<1>1. CASE GitCheck(a) BY <1>0, <1>1 DEF GitCheck
<1>2. CASE CloneStart(a)
  <2>1. exists' = exists BY <1>2 DEF CloneStart
  <2>2. CASE disk' = disk BY <2>1, <2>2
  <2>3. CASE exists[dir[a]] /\ disk' = [disk EXCEPT ![dir[a]][on[a]] = a]
    BY <1>0, <2>1, <2>3
  <2>4. QED BY <1>2, <2>2, <2>3 DEF CloneStart
<1>3. CASE CloneEnd(a) \/ CloneFails(a) \/ FetchEnd(a)
  <2>1. PICK p \in Places :
          /\ exists' = exists /\ disk' = [disk EXCEPT ![p][on[a]] = disk'[p][on[a]]]
          /\ disk'[p][on[a]] = "absent" \/ disk[p][on[a]] # "absent"
    <3>1. CASE CloneEnd(a)
      <4>1. a # "absent" BY WorkspaceAssumption DEF Actors, Clones
      <4>2. QED BY <1>0, <3>1, <4>1 DEF CloneEnd
    <3>2. CASE CloneFails(a) BY <1>0, <3>2 DEF CloneFails
    <3>3. CASE FetchEnd(a) BY <1>0, <3>3 DEF FetchEnd
    <3>4. QED BY <1>3, <3>1, <3>2, <3>3
  <2>2. QED BY <1>0, <2>1
<1>4. CASE FetchStart(a) \/ FetchFails(a) BY <1>4 DEF FetchStart, FetchFails, diskVars
<1>5. QED BY <1>1, <1>2, <1>3, <1>4 DEF GitStep

LEMMA PlacesElsewhere ==
  ASSUME [Next]_vars, \A q \in Requests : ~ PutMove(q), \A a \in Actors : ~ GitStep(a),
         ~ GatewayKilled, ~ WorkerKilled
  PROVE  UNCHANGED diskVars
<1>1. CASE UNCHANGED vars BY <1>1 DEF vars
<1>2. ASSUME NEW q \in Requests, Arrive(q) \/ RequestStep(q) \/ SyncLock(q)
      PROVE  UNCHANGED diskVars
  BY <1>2 DEF Arrive, RequestStep, SyncLock, FindRepo, DeleteCheck, SyncStart, PutStart,
     CreateRun, CreateRunFails, Delete, PutSame, PutNoMove, PutRefused, PutWrite,
     PutKeyRefused, PutCommit, SyncRead
<1>3. ASSUME NEW w \in Ingests, IngestStep(w) \/ \E r \in Repos : IngestStart(w, r)
      PROVE  UNCHANGED diskVars
  BY <1>3 DEF IngestStep, IngestDiff, ReviewOpens, ReviewNotCloned, IngestStart
<1>4. ASSUME NEW r \in Repos, Patch(r) \/ DeleteRuns(r) PROVE UNCHANGED diskVars
  BY <1>4 DEF Patch, DeleteRuns
<1>5. QED BY <1>1, <1>2, <1>3, <1>4 DEF Next

\* What a change of git_workspace moves arrives where nothing was.
Moved(old, new) ==
  /\ old # new /\ exists[old] /\ ~ exists[new]
  /\ exists' = [exists EXCEPT ![old] = FALSE, ![new] = TRUE]
  /\ \A p \in Places, r \in Repos :
       disk'[p][r] = IF p = new THEN (IF disk[old][r] \in Clones THEN disk[old][r] ELSE "partial")
                     ELSE IF p = old THEN "absent" ELSE disk[p][r]

LEMMA PutMoves ==
  ASSUME Types, NEW q \in Requests, PutMove(q)
  PROVE  setting \in Places /\ dir[q] \in Places /\ Moved(setting, dir[q])
<1>1. setting \in Places /\ dir[q] \in Places
  BY DEF Types, DbTypeOK, ActorTypeOK, Actors
<1>2. /\ dir[q] # setting /\ exists[setting] /\ ~ exists[dir[q]]
      /\ Rename(setting, dir[q])
  BY DEF PutMove, Movable
<1>3. QED BY <1>1, <1>2 DEF Moved, Rename, Types, DiskTypeOK

LEMMA PlacesStep ==
  ASSUME Types, PlacesOK, [Next]_vars
  PROVE  PlacesOK'
<1>1. ASSUME NEW q \in Requests, PutMove(q) PROVE PlacesOK'
  BY <1>1, PutMoves DEF Moved, PlacesOK, Types, DiskTypeOK
<1>2. ASSUME NEW dead \in {Requests, Ingests}, Killed(dead) PROVE PlacesOK'
  <2>1. exists' = exists BY <1>2 DEF Killed
  <2>2. "absent" \notin dead BY WorkspaceAssumption DEF Clones
  <2>3. \A p \in Places, r \in Repos : disk[p][r] = "absent" => disk'[p][r] = "absent"
    BY <1>2, <2>2 DEF Killed
  <2>4. QED BY <2>1, <2>3 DEF PlacesOK
<1>3. QED
  BY <1>1, <1>2, PlacesGit, PlacesElsewhere DEF GatewayKilled, WorkerKilled, diskVars, PlacesOK

\* A step of git loses no clone, unless it is the end of a git clone of it.
LEMMA GitKeeps ==
  ASSUME Types, NEW a \in Actors, GitStep(a), NEW r \in Repos, Stored(r), ~ Stored(r)'
  PROVE  pc[a] = "cloning" /\ on[a] = r /\ pc'[a] # "cloning"
<1>0. /\ on[a] \in Repos /\ dir[a] \in Places /\ cwd[a] \in Places
      /\ "whole" # "absent" /\ "whole" \in Clones /\ a # "whole"
  BY WorkspaceAssumption
     DEF GitStep, GitCheck, CloneStart, CloneEnd, CloneFails, FetchStart, FetchEnd, FetchFails,
     Types, HasRepo, ActorTypeOK, GitSteps, Clones, Actors
<1> USE DEF Types, DiskTypeOK
<1>1. PICK p \in Places : disk[p][r] = "whole" /\ disk'[p][r] # "whole" BY DEF Stored
<1>2. ~ GitCheck(a) /\ ~ FetchStart(a) /\ ~ FetchFails(a)
  BY <1>1 DEF GitCheck, FetchStart, FetchFails, diskVars
<1>3. ~ CloneStart(a)
  <2>1. SUFFICES ASSUME CloneStart(a) PROVE FALSE OBVIOUS
  <2>2. disk' # disk BY <1>1
  <2>3. disk[dir[a]][on[a]] = "absent" /\ disk' = [disk EXCEPT ![dir[a]][on[a]] = a]
    BY <2>1, <2>2 DEF CloneStart
  <2>4. QED BY <1>0, <1>1, <2>3
<1>4. ~ FetchEnd(a)
  <2>1. SUFFICES ASSUME FetchEnd(a) PROVE FALSE OBVIOUS
  <2>2. QED BY <1>0, <1>1, <2>1 DEF FetchEnd
<1>5. ~ CloneEnd(a)
  <2>1. SUFFICES ASSUME CloneEnd(a) PROVE FALSE OBVIOUS
  <2>2. QED BY <1>0, <1>1, <2>1 DEF CloneEnd
<1>6. CloneFails(a) BY <1>2, <1>3, <1>4, <1>5 DEF GitStep
<1>7. on[a] = r BY <1>0, <1>1, <1>6 DEF CloneFails
<1>8. pc[a] = "cloning" /\ pc'[a] = "idle"
  BY <1>6 DEF CloneFails, GitDone, Leave, ActorTypeOK
<1>9. QED BY <1>7, <1>8

(* A finished clone outlives changes of git_workspace, kills and fetches: a  *)
(* git clone that ends in the same directory is all that can remove it.      *)
THEOREM ClonesAreKept == Spec => CloneIsKept
<1>1. Init => Types /\ PlacesOK
  BY InitTypes, WorkspaceAssumption DEF Init, PlacesOK
<1>2. Types /\ PlacesOK /\ [Next]_vars => (Types /\ PlacesOK)'
  BY StepTypes, PlacesStep, WorkspaceAssumption
<1>3. Types /\ PlacesOK /\ [Next]_vars =>
        [\A r \in Repos : Stored(r) /\ ~ Stored(r)' =>
           \E a \in Actors : pc[a] = "cloning" /\ on[a] = r /\ pc'[a] # "cloning"]_vars
  <2> SUFFICES ASSUME Types, PlacesOK, [Next]_vars, NEW r \in Repos, Stored(r), ~ Stored(r)'
               PROVE  \E a \in Actors : pc[a] = "cloning" /\ on[a] = r /\ pc'[a] # "cloning"
    OBVIOUS
  <2>1. PICK p \in Places : disk[p][r] = "whole" BY DEF Stored
  <2>2. ASSUME NEW q \in Requests, PutMove(q) PROVE FALSE
    <3>1. dir[q] \in Places /\ Moved(setting, dir[q]) BY <2>2, PutMoves
    <3>2. disk[dir[q]][r] = "absent" BY <3>1 DEF Moved, PlacesOK
    <3>3. \E n \in Places : disk'[n][r] = "whole"
      BY <2>1, <3>1, <3>2 DEF Moved, Clones
    <3>4. QED BY <3>3 DEF Stored
  <2>3. ASSUME NEW dead \in {Requests, Ingests}, Killed(dead) PROVE FALSE
    <3>1. "whole" \notin dead BY WorkspaceAssumption DEF Clones
    <3>2. disk'[p][r] = "whole" BY <2>1, <2>3, <3>1 DEF Killed
    <3>3. QED BY <3>2 DEF Stored
  <2>4. CASE UNCHANGED diskVars BY <2>4 DEF Stored, diskVars
  <2>5. QED
    BY <2>2, <2>3, <2>4, GitKeeps, PlacesElsewhere DEF GatewayKilled, WorkerKilled
<1>4. QED BY <1>1, <1>2, <1>3, PTL DEF Spec, CloneIsKept
=============================================================================
