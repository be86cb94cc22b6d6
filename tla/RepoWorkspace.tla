--------------------------- MODULE RepoWorkspace ---------------------------
(***************************************************************************)
(* The repositories and where their clones lie on the disk: the gateway's  *)
(* repositories.py (sync, delete), settings.py (which moves the directory  *)
(* of the clones), the get-or-create of the run endpoints, and git ingest  *)
(* in the worker.  The gateway serialises its own syncs of a repository by *)
(* a lock in its memory; nothing orders them against the worker, and       *)
(* nothing orders either against a change of git_workspace.                *)
(*                                                                         *)
(* One full name is modelled; Repos are the ids its row may get, one life  *)
(* each.  A request runs to its next await, a git command has a beginning  *)
(* and an end, and a directory is moved by one rename.                     *)
(***************************************************************************)

CONSTANTS Repos,     \* repository ids
          NoRepo,    \* no row found, or nothing worked on
          Places,    \* directories git_workspace may name
          Home,      \* the one seeded by the migration, and the worker's default
          Requests,  \* concurrent requests of the gateway
          Ingests,   \* job slots of the worker
          NoOne,     \* an unlocked lock
          Faults     \* which of "net", "disk", "key", "kill" may happen

\* What lies at a clone's path while no git clone fills it.
Clones == {"absent", "bare", "partial", "whole"}

ASSUME WorkspaceAssumption ==
  /\ NoRepo \notin Repos /\ Home \in Places
  /\ NoOne \notin Requests \cup Ingests /\ Requests \cap Ingests = {}
  /\ Clones \cap (Requests \cup Ingests) = {}
  /\ Faults \subseteq {"net", "disk", "key", "kill"}

VARIABLES
  row,      \* the repositories row of an id: "unborn", "live" or "deleted"
  runs,     \* whether the id has analysis runs
  url,      \* whether the row has a usable clone_url
  setting,  \* the committed value of git_workspace
  written,  \* written[q]: q has updated the settings row and not committed
  exists,   \* whether the directory of a place exists
  disk,     \* disk[p][r]: the clone at p/r, or the actor whose git clone fills it
  lock,     \* _REPO_SYNC_LOCKS
  pc,       \* what an actor does next
  on,       \* the repository it works on
  dir,      \* the place it read from the settings, or moves the clones to
  cwd       \* the place its git fetch runs in, which follows a rename

dbVars    == <<row, runs, url, setting, written>>
diskVars  == <<exists, disk>>
actorVars == <<pc, on, dir, cwd>>
vars      == <<dbVars, diskVars, lock, actorVars>>

Actors   == Requests \cup Ingests
GitSteps == {"check", "clone", "cloning", "fetch", "fetching"}

Init ==
  /\ row = [r \in Repos |-> "unborn"]
  /\ runs = [r \in Repos |-> FALSE]
  /\ url = [r \in Repos |-> FALSE]
  /\ setting = Home
  /\ written = [q \in Requests |-> FALSE]
  /\ exists = [p \in Places |-> FALSE]
  /\ disk = [p \in Places |-> [r \in Repos |-> "absent"]]
  /\ lock = [r \in Repos |-> NoOne]
  /\ pc = [a \in Actors |-> "idle"]
  /\ on = [a \in Actors |-> NoRepo]
  /\ dir = [a \in Actors |-> Home]
  /\ cwd = [a \in Actors |-> Home]

Live == {r \in Repos : row[r] = "live"}

Begin(a, step, r) ==
  /\ pc[a] = "idle"
  /\ pc' = [pc EXCEPT ![a] = step]
  /\ on' = [on EXCEPT ![a] = r]

Goto(a, step) == pc' = [pc EXCEPT ![a] = step] /\ UNCHANGED <<on, dir, cwd>>

\* An actor is done, whether it answered or raised.
Leave(a) ==
  /\ pc' = [pc EXCEPT ![a] = "idle"]
  /\ on' = [on EXCEPT ![a] = NoRepo]
  /\ dir' = [dir EXCEPT ![a] = Home]
  /\ cwd' = [cwd EXCEPT ![a] = Home]

-----------------------------------------------------------------------------
(* Rows: get-or-create with a run, patch, delete.  The unique full_name and  *)
(* the foreign key of analysis_runs are checked when a statement is flushed. *)

FindRepo(q) ==
  /\ \E r \in Live \cup {NoRepo} :
       /\ r = NoRepo => Live = {}
       /\ Begin(q, "insert", r)
  /\ UNCHANGED <<dbVars, diskVars, lock, dir, cwd>>

\* Mutant: provider and name are not unique.
InsertRepo_NoUnique(q, r) ==
  /\ row[r] = "unborn"
  /\ row' = [row EXCEPT ![r] = "live"]
  /\ runs' = [runs EXCEPT ![r] = TRUE]
  /\ url' = [url EXCEPT ![r] = TRUE]

\* The lookup found nothing: a new row with the clone_url of the event.
InsertRepo(q, r) ==
  /\ row[r] = "unborn" /\ Live = {}
  /\ row' = [row EXCEPT ![r] = "live"]
  /\ runs' = [runs EXCEPT ![r] = TRUE]
  /\ url' = [url EXCEPT ![r] = TRUE]

\* It found one: a missing clone_url is filled in.
ReuseRepo(q) ==
  /\ on[q] \in Live
  /\ runs' = [runs EXCEPT ![on[q]] = TRUE]
  /\ url' = [url EXCEPT ![on[q]] = TRUE]
  /\ UNCHANGED row

CreateRun(q) ==
  /\ pc[q] = "insert"
  /\ IF on[q] = NoRepo THEN \E r \in Repos : InsertRepo(q, r) ELSE ReuseRepo(q)
  /\ Leave(q)
  /\ UNCHANGED <<setting, written, diskVars, lock>>

\* Another request inserted the name, or deleted the row, meanwhile: 500.
CreateRunFails(q) ==
  /\ pc[q] = "insert"
  /\ IF on[q] = NoRepo THEN Live # {} ELSE on[q] \notin Live
  /\ Leave(q)
  /\ UNCHANGED <<dbVars, diskVars, lock>>

\* PATCH may clear or set the clone_url; the status it sets is looked at nowhere.
Patch(r) ==
  /\ r \in Live
  /\ url' = [url EXCEPT ![r] = ~ @]
  /\ UNCHANGED <<row, runs, setting, written, diskVars, lock, actorVars>>

\* The runs of a repository are deleted by requests of their own.
DeleteRuns(r) ==
  /\ runs[r]
  /\ runs' = [runs EXCEPT ![r] = FALSE]
  /\ UNCHANGED <<row, url, setting, written, diskVars, lock, actorVars>>

\* 409 when there are dependent rows.
DeleteCheck(q, r) ==
  /\ r \in Live /\ ~ runs[r]
  /\ Begin(q, "delete", r)
  /\ UNCHANGED <<dbVars, diskVars, lock, dir, cwd>>

\* Mutant: the database does not check the foreign key.
DeleteRow_NoForeignKey(r) == r \in Live

DeleteRow(r) == r \in Live /\ ~ runs[r]

\* Only the row goes: the clone stays on the disk.
Delete(q) ==
  /\ pc[q] = "delete"
  /\ row' = IF DeleteRow(on[q]) THEN [row EXCEPT ![on[q]] = "deleted"] ELSE row
  /\ Leave(q)
  /\ UNCHANGED <<runs, url, setting, written, diskVars, lock>>

-----------------------------------------------------------------------------
(* The settings.  Reading the current value, the tests and the move happen   *)
(* without an await in between; the UPDATE, later keys and the commit follow. *)

PutStart(q, p) ==
  /\ Begin(q, "put", NoRepo)
  /\ dir' = [dir EXCEPT ![q] = p]
  /\ UNCHANGED <<dbVars, diskVars, lock, cwd>>

\* The value is the current one already: the loop goes on to the next key.
PutSame(q) ==
  /\ pc[q] = "put" /\ dir[q] = setting
  /\ Goto(q, "put_commit")
  /\ UNCHANGED <<dbVars, diskVars, lock>>

\* The clones below old are below new afterwards; a git clone in progress has
\* lost the directory it writes to, a git fetch goes on in the moved one.
Rename(old, new) ==
  /\ exists' = [exists EXCEPT ![old] = FALSE, ![new] = TRUE]
  /\ disk' = [disk EXCEPT
                ![old] = [r \in Repos |-> "absent"],
                ![new] = [r \in Repos |-> IF disk[old][r] \in Clones THEN disk[old][r]
                                                                    ELSE "partial"]]
  /\ cwd' = [a \in Actors |-> IF pc[a] = "fetching" /\ cwd[a] = old THEN new ELSE cwd[a]]

\* Mutant: moves over a directory that exists.
Movable_Overwrites(p) == exists[setting]

Movable(p) == exists[setting] /\ ~ exists[p]

PutMove(q) ==
  /\ pc[q] = "put" /\ dir[q] # setting
  /\ Movable(dir[q])
  /\ Rename(setting, dir[q])
  /\ pc' = [pc EXCEPT ![q] = "put_write"]
  /\ UNCHANGED <<dbVars, lock, on, dir>>

\* Nothing to move.
PutNoMove(q) ==
  /\ pc[q] = "put" /\ dir[q] # setting /\ ~ exists[setting]
  /\ Goto(q, "put_write")
  /\ UNCHANGED <<dbVars, diskVars, lock>>

\* 409 when the target exists, 500 when the move fails.
PutRefused(q) ==
  /\ pc[q] = "put" /\ dir[q] # setting /\ exists[setting]
  /\ exists[dir[q]] \/ "disk" \in Faults
  /\ Leave(q)
  /\ UNCHANGED <<dbVars, diskVars, lock>>

\* The UPDATE waits for the row lock of another request.
PutWrite(q) ==
  /\ pc[q] = "put_write"
  /\ \A o \in Requests : ~ written[o]
  /\ written' = [written EXCEPT ![q] = TRUE]
  /\ Goto(q, "put_commit")
  /\ UNCHANGED <<row, runs, url, setting, diskVars, lock>>

\* Mutant: the session is not rolled back.
PutKeyRefused_KeepsWrite(q) ==
  /\ "key" \in Faults
  /\ pc[q] = "put_commit"
  /\ Leave(q)
  /\ UNCHANGED <<dbVars, diskVars, lock>>

\* A later key of the request is refused: the session rolls back, the move stays.
PutKeyRefused(q) ==
  /\ "key" \in Faults
  /\ pc[q] = "put_commit"
  /\ written' = [written EXCEPT ![q] = FALSE]
  /\ Leave(q)
  /\ UNCHANGED <<row, runs, url, setting, diskVars, lock>>

PutCommit(q) ==
  /\ pc[q] = "put_commit"
  /\ setting' = IF written[q] THEN dir[q] ELSE setting
  /\ written' = [written EXCEPT ![q] = FALSE]
  /\ Leave(q)
  /\ UNCHANGED <<row, runs, url, diskVars, lock>>

-----------------------------------------------------------------------------
(* sync_repository *)

\* 404, 422 and 409 change nothing.
SyncStart(q, r) ==
  /\ r \in Live /\ url[r] /\ lock[r] = NoOne
  /\ Begin(q, "sync_read", r)
  /\ UNCHANGED <<dbVars, diskVars, lock, dir, cwd>>

\* The setting is awaited after the lock was tested and before it is taken.
SyncRead(q) ==
  /\ pc[q] = "sync_read"
  /\ dir' = [dir EXCEPT ![q] = setting]
  /\ pc' = [pc EXCEPT ![q] = "sync_lock"]
  /\ UNCHANGED <<dbVars, diskVars, lock, on, cwd>>

\* Mutant: the lock that was free when it was tested is taken to be free.
SyncLock_Unchecked(q) ==
  /\ pc[q] = "sync_lock"
  /\ lock' = [lock EXCEPT ![on[q]] = q]
  /\ Goto(q, "check")
  /\ UNCHANGED <<dbVars, diskVars>>

SyncLock(q) ==
  /\ pc[q] = "sync_lock" /\ lock[on[q]] = NoOne
  /\ lock' = [lock EXCEPT ![on[q]] = q]
  /\ Goto(q, "check")
  /\ UNCHANGED <<dbVars, diskVars>>

\* Mutant: an exception leaves the lock taken.
Release_NotOnError(a, ok) ==
  lock' = [r \in Repos |-> IF ok /\ lock[r] = a THEN NoOne ELSE lock[r]]

\* "async with" releases on every way out.
Release(a, ok) ==
  lock' = [r \in Repos |-> IF lock[r] = a THEN NoOne ELSE lock[r]]

\* The git command ended: the request answers, the job goes on or fails.
GitDone(a, ok) ==
  /\ Release(a, ok)
  /\ IF a \in Ingests /\ ok THEN Goto(a, "diff") ELSE Leave(a)

-----------------------------------------------------------------------------
(* clone_or_fetch, for a sync or an ingest *)

\* HEAD decides; otherwise the directory is made.
GitCheck(a) ==
  /\ pc[a] = "check"
  /\ IF disk[dir[a]][on[a]] # "absent"
       THEN Goto(a, "fetch") /\ UNCHANGED exists
       ELSE Goto(a, "clone") /\ exists' = [exists EXCEPT ![dir[a]] = TRUE]
  /\ UNCHANGED <<dbVars, disk, lock>>

\* git refuses a directory that is not empty; the directory it runs in may be gone.
CloneStart(a) ==
  /\ pc[a] = "clone"
  /\ IF exists[dir[a]] /\ disk[dir[a]][on[a]] = "absent"
       THEN /\ disk' = [disk EXCEPT ![dir[a]][on[a]] = a]
            /\ Goto(a, "cloning")
            /\ UNCHANGED lock
       ELSE GitDone(a, FALSE) /\ UNCHANGED disk
  /\ UNCHANGED <<dbVars, exists>>

CloneEnd(a) ==
  /\ pc[a] = "cloning" /\ disk[dir[a]][on[a]] = a
  /\ disk' = [disk EXCEPT ![dir[a]][on[a]] = "whole"]
  /\ GitDone(a, TRUE)
  /\ UNCHANGED <<dbVars, exists>>

\* The network failed, or the directory was moved away: git removes what lies
\* at its path.
CloneFails(a) ==
  /\ pc[a] = "cloning"
  /\ disk[dir[a]][on[a]] # a \/ "net" \in Faults
  /\ disk' = [disk EXCEPT ![dir[a]][on[a]] = "absent"]
  /\ GitDone(a, FALSE)
  /\ UNCHANGED <<dbVars, exists>>

\* git remote set-url, which needs the remote a clone killed early has not.
FetchStart(a) ==
  /\ pc[a] = "fetch"
  /\ IF disk[dir[a]][on[a]] \in {"absent", "bare"}
       THEN GitDone(a, FALSE)
       ELSE /\ pc' = [pc EXCEPT ![a] = "fetching"]
            /\ cwd' = [cwd EXCEPT ![a] = dir[a]]
            /\ UNCHANGED <<on, dir, lock>>
  /\ UNCHANGED <<dbVars, diskVars>>

\* A fetch completes what a killed clone left.
FetchEnd(a) ==
  /\ pc[a] = "fetching"
  /\ disk[cwd[a]][on[a]] # "absent"
  /\ disk' = [disk EXCEPT ![cwd[a]][on[a]] = IF @ = "partial" THEN "whole" ELSE @]
  /\ GitDone(a, TRUE)
  /\ UNCHANGED <<dbVars, exists>>

\* Also when a clone under way in the directory is in its way, or removed it.
FetchFails(a) ==
  /\ pc[a] = "fetching"
  /\ "net" \in Faults \/ disk[cwd[a]][on[a]] \notin {"partial", "whole"}
  /\ GitDone(a, FALSE)
  /\ UNCHANGED <<dbVars, diskVars>>

-----------------------------------------------------------------------------
(* The worker *)

\* Reads the setting, commits, and goes to git.
IngestStart(w, r) ==
  /\ runs[r] /\ url[r]
  /\ Begin(w, "check", r)
  /\ dir' = [dir EXCEPT ![w] = setting]
  /\ UNCHANGED <<dbVars, diskVars, lock, cwd>>

\* Merge base, diff and hunks, from the directory read at the start.
IngestDiff(w) ==
  /\ pc[w] = "diff"
  /\ IF disk[dir[w]][on[w]] = "absent" THEN Leave(w) ELSE Goto(w, "review")
  /\ UNCHANGED <<dbVars, diskVars, lock>>

\* _resolve_repo_dir: the review looks below REPO_WORKSPACE, not in the settings.
ReviewDir == Home

ReviewOpens(w) ==
  /\ pc[w] = "review"
  /\ disk[ReviewDir][on[w]] # "absent"
  /\ Leave(w)
  /\ UNCHANGED <<dbVars, diskVars, lock>>

\* FileNotFoundError: the run fails.
ReviewNotCloned(w) ==
  /\ pc[w] = "review"
  /\ disk[ReviewDir][on[w]] = "absent"
  /\ Leave(w)
  /\ UNCHANGED <<dbVars, diskVars, lock>>

\* A process dies with all it does.  A clone it was making stays as it is, with
\* or without the remote that a fetch needs.
Killed(dead) ==
  /\ "kill" \in Faults
  /\ \E a \in dead : pc[a] # "idle"
  /\ \E left \in {"bare", "partial"} :
       disk' = [p \in Places |-> [r \in Repos |->
                  IF disk[p][r] \in dead THEN left ELSE disk[p][r]]]
  /\ lock' = [r \in Repos |-> IF lock[r] \in dead THEN NoOne ELSE lock[r]]
  /\ pc' = [a \in Actors |-> IF a \in dead THEN "idle" ELSE pc[a]]
  /\ on' = [a \in Actors |-> IF a \in dead THEN NoRepo ELSE on[a]]
  /\ dir' = [a \in Actors |-> IF a \in dead THEN Home ELSE dir[a]]
  /\ cwd' = [a \in Actors |-> IF a \in dead THEN Home ELSE cwd[a]]
  /\ written' = [q \in Requests |-> q \notin dead /\ written[q]]
  /\ UNCHANGED <<row, runs, url, setting, exists>>

GatewayKilled == Killed(Requests)
WorkerKilled  == Killed(Ingests)

-----------------------------------------------------------------------------
Arrive(q) ==
  \/ FindRepo(q)
  \/ \E r \in Repos : DeleteCheck(q, r) \/ SyncStart(q, r)
  \/ \E p \in Places : PutStart(q, p)

RequestStep(q) ==
  \/ CreateRun(q) \/ CreateRunFails(q) \/ Delete(q)
  \/ PutSame(q) \/ PutMove(q) \/ PutNoMove(q) \/ PutRefused(q)
  \/ PutWrite(q) \/ PutKeyRefused(q) \/ PutCommit(q)
  \/ SyncRead(q)

GitStep(a) ==
  \/ GitCheck(a) \/ CloneStart(a) \/ CloneEnd(a) \/ CloneFails(a)
  \/ FetchStart(a) \/ FetchEnd(a) \/ FetchFails(a)

IngestStep(w) == IngestDiff(w) \/ ReviewOpens(w) \/ ReviewNotCloned(w)

Next ==
  \/ \E q \in Requests : Arrive(q) \/ RequestStep(q) \/ SyncLock(q)
  \/ \E a \in Actors : GitStep(a)
  \/ \E w \in Ingests : IngestStep(w) \/ \E r \in Repos : IngestStart(w, r)
  \/ \E r \in Repos : Patch(r) \/ DeleteRuns(r)
  \/ GatewayKilled \/ WorkerKilled

Spec == Init /\ [][Next]_vars

-----------------------------------------------------------------------------
(* Properties *)

Steps == {"idle", "insert", "delete", "put", "put_write", "put_commit",
          "sync_read", "sync_lock", "diff", "review"} \cup GitSteps

(* The types; and an update of the settings that is not committed belongs to *)
(* a request that will commit it or roll it back.                            *)
TypeOK ==
  /\ row \in [Repos -> {"unborn", "live", "deleted"}]
  /\ runs \in [Repos -> BOOLEAN]
  /\ url \in [Repos -> BOOLEAN]
  /\ setting \in Places
  /\ written \in [Requests -> BOOLEAN]
  /\ exists \in [Places -> BOOLEAN]
  /\ disk \in [Places -> [Repos -> Clones \cup Actors]]
  /\ lock \in [Repos -> Requests \cup {NoOne}]
  /\ pc \in [Actors -> Steps]
  /\ on \in [Actors -> Repos \cup {NoRepo}]
  /\ dir \in [Actors -> Places]
  /\ cwd \in [Actors -> Places]
  /\ \A q \in Requests : written[q] => pc[q] = "put_commit"

(* The lock of sync_repository: at most one request at a time runs git on a  *)
(* repository, although the lock is tested before an await and taken after   *)
(* it, and a free lock is not owned by a request that has gone.              *)
OneSyncPerRepository ==
  /\ \A q, o \in Requests :
       pc[q] \in GitSteps /\ pc[o] \in GitSteps /\ on[q] = on[o] => q = o
  /\ \A r \in Repos : lock[r] # NoOne => pc[lock[r]] \in GitSteps /\ on[lock[r]] = r

(* Whatever requests create, look up and delete the repository at the same   *)
(* time, its name has one row at most and every run belongs to that row.     *)
RunsBelongToTheRepository ==
  /\ \A r, s \in Live : r = s
  /\ \A r \in Repos : runs[r] => r \in Live

(* A finished clone is never lost to a change of git_workspace, a kill or    *)
(* another actor's fetch: only a git clone that fails in the same directory  *)
(* removes it.                                                               *)
Stored(r) == \E p \in Places : disk[p][r] = "whole"
CloneIsKept ==
  [][\A r \in Repos : Stored(r) /\ ~ Stored(r)' =>
       \E a \in Actors : pc[a] = "cloning" /\ on[a] = r /\ pc'[a] # "cloning"]_vars
=============================================================================
