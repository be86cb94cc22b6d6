---------------------------- MODULE CodeMapRegen ----------------------------
(***************************************************************************)
(* Regeneration of the code map: background jobs of the gateway (threads   *)
(* that share its in-memory store) and command line processes, each with   *)
(* a store of its own, write the scope graphs and the index under          *)
(* docs/code-map.                                                          *)
(*                                                                         *)
(* A file is written as _atomic_write_json does it: open <path>.tmp, write *)
(* it, rename it over the path.  The temporary name is the same for every  *)
(* writer and an open descriptor follows its file through a rename, so the *)
(* model keeps, for each regenerator, where the file it has open is now.   *)
(***************************************************************************)
EXTENDS Naturals, FiniteSets

CONSTANTS Scopes,      \* top-level directories
          Index,       \* the path of index.json
          Jobs,        \* regen jobs of the gateway
          Pulls,       \* command line processes (pull.sh, post-merge hook)
          Gateway,     \* owner of the jobs' store
          NoScope, NoOne,
          Concurrent,  \* bound: regenerations at the same time
          Faults       \* faults the environment may inject

Regens == Jobs \cup Pulls
Owners == {Gateway} \cup Pulls
Paths  == Scopes \cup {Index}

ASSUME RegenAssumption ==
  /\ Index \notin Scopes /\ NoScope \notin Paths
  /\ NoOne \notin Regens /\ Jobs \cap Pulls = {} /\ Gateway \notin Pulls
  /\ IsFiniteSet(Regens)
  /\ Concurrent \in Nat
  /\ Faults \subseteq {"disk", "kill", "auth", "tree", "pull"}

MAX_TRANSIENT_RETRIES == 1

VARIABLES
  store, streak,         \* each owner's graphs and stale_streak counters
  file, tmp, fd,         \* <path>, <path>.tmp, and where the open file is
  status, phase, asked, processed, failed,      \* the gateway's job dicts
  pc, todo, work         \* each regenerator: next step, scopes left, its scope

fsVars    == <<file, tmp, fd>>
storeVars == <<store, streak>>
jobVars   == <<status, phase, asked, processed, failed>>
vars      == <<storeVars, fsVars, jobVars, pc, todo, work>>

\* A graph is known by its version and by who generated it.  A regenerator
\* adds one to a version another one wrote, so the versions are bounded.
Graph    == [version : 0..Cardinality(Regens), by : Regens \cup {NoOne}]
NoGraph  == [version |-> 0, by |-> NoOne]
NoGraphs == [s \in Scopes |-> NoGraph]
NoStreaks == [s \in Scopes |-> 0]

\* What a file holds: a scope's graph, or in index.json the version of each
\* scope's graph (0: no entry, or a placeholder).
Content  == [kind : {"absent", "empty", "torn", "whole"},
             of : [Scopes -> Graph]]
Absent   == [kind |-> "absent", of |-> NoGraphs]
Empty    == [kind |-> "empty", of |-> NoGraphs]
Torn     == [kind |-> "torn", of |-> NoGraphs]
Whole(g) == [kind |-> "whole", of |-> g]

\* What a regenerator holds: its scope, the graph it was given, the attempt,
\* and the file it is writing.
Work   == [cur : Scopes \cup {NoScope}, old : Graph,
           attempt : 0..MAX_TRANSIENT_RETRIES, path : Paths,
           draft : [Scopes -> Graph]]
NoWork == [cur |-> NoScope, old |-> NoGraph, attempt |-> 0, path |-> Index,
           draft |-> NoGraphs]

Owner(a) == IF a \in Jobs THEN Gateway ELSE a

Steps == {"idle", "pull", "pulling", "begin", "next", "llm", "open", "write", "replace",
          "cards", "index", "put", "fallback", "closing", "gone"}

Init ==
  /\ store = [o \in Owners |-> NoGraphs]
  /\ streak = [o \in Owners |-> NoStreaks]
  /\ file = [p \in Paths |-> Absent]
  /\ tmp = [p \in Paths |-> Absent]
  /\ fd = [a \in Regens |-> "none"]
  /\ status = [j \in Jobs |-> "none"]
  /\ phase = [j \in Jobs |-> "queued"]
  /\ asked = [j \in Jobs |-> {}]
  /\ processed = [j \in Jobs |-> {}]
  /\ failed = [j \in Jobs |-> {}]
  /\ pc = [a \in Regens |-> "idle"]
  /\ todo = [a \in Regens |-> {}]
  /\ work = [a \in Regens |-> NoWork]

----------------------------------------------------------------------------
(* Shared steps *)

Busy == {a \in Regens : pc[a] \notin {"idle", "gone"}}

Goto(a, step) == pc' = [pc EXCEPT ![a] = step]

\* A thread ends; a process takes its store with it.
Leave(a) ==
  /\ Goto(a, "gone")
  /\ todo' = [todo EXCEPT ![a] = {}]
  /\ work' = [work EXCEPT ![a] = NoWork]
  /\ store' = [o \in Owners |-> IF o = a THEN NoGraphs ELSE store[o]]
  /\ streak' = [o \in Owners |-> IF o = a THEN NoStreaks ELSE streak[o]]

TryScope(a, s, g, n) ==
  /\ Goto(a, "llm")
  /\ work' = [work EXCEPT ![a] = [cur |-> s, old |-> g, attempt |-> n,
                                  path |-> Index, draft |-> NoGraphs]]

Save(a, p, content) ==
  /\ Goto(a, "open")
  /\ work' = [work EXCEPT ![a] = [cur |-> work[a].cur, old |-> work[a].old,
                                  attempt |-> work[a].attempt,
                                  path |-> p, draft |-> content]]

\* Fault: the attempts are not counted.
Retry_Forever(a) == TryScope(a, work[a].cur, work[a].old, 0)

\* Fault: one attempt too many.
Retry_OffByOne(a) ==
  /\ work[a].attempt <= MAX_TRANSIENT_RETRIES
  /\ TryScope(a, work[a].cur, work[a].old, work[a].attempt + 1)

\* "range(max_attempts)": MAX_TRANSIENT_RETRIES attempts after the first.
Retry(a) ==
  /\ work[a].attempt < MAX_TRANSIENT_RETRIES
  /\ TryScope(a, work[a].cur, work[a].old, work[a].attempt + 1)

\* An exception inside regen_one_scope.  classify_error goes by the text of
\* the message: any error may look transient.  Outside of it, when the command
\* line writes its fallback index, an exception ends the process.
Fails(a) ==
  /\ \/ work[a].cur = NoScope /\ Leave(a)
     \/ work[a].cur # NoScope /\ Retry(a) /\ UNCHANGED <<todo, storeVars>>
     \/ /\ work[a].cur # NoScope
        /\ Goto(a, "fallback")
        /\ UNCHANGED <<todo, work, storeVars>>
  /\ UNCHANGED <<file, tmp, jobVars>>

----------------------------------------------------------------------------
(* router.py: the jobs *)

\* post_regen and post_repull_regen: one scope, or all of them.
PostRegen(j) ==
  /\ status[j] = "none"
  /\ status' = [status EXCEPT ![j] = "queued"]
  /\ \E what \in {{s} : s \in Scopes} \cup {Scopes} :
       asked' = [asked EXCEPT ![j] = what]
  /\ \E step \in {"begin", "pull"} : Goto(j, step)
  /\ Cardinality(Busy) < Concurrent
  /\ UNCHANGED <<storeVars, fsVars, phase, processed, failed, todo, work>>

BeginPull(j) ==
  /\ pc[j] = "pull"
  /\ status' = [status EXCEPT ![j] = "running"]
  /\ phase' = [phase EXCEPT ![j] = "pulling"]
  /\ Goto(j, "pulling")
  /\ UNCHANGED <<storeVars, fsVars, asked, processed, failed, todo, work>>

\* Fault: the failed pull marks the job and goes on.
PullFails_GoesOn(j) ==
  /\ pc[j] = "pulling"
  /\ status' = [status EXCEPT ![j] = "failed"]
  /\ phase' = [phase EXCEPT ![j] = "done"]
  /\ Goto(j, "begin")
  /\ UNCHANGED <<storeVars, fsVars, asked, processed, failed, todo, work>>

\* Timeout, exception or a non-zero exit: the regen phase is skipped.
PullFails(j) ==
  /\ "pull" \in Faults
  /\ pc[j] = "pulling"
  /\ status' = [status EXCEPT ![j] = "failed"]
  /\ phase' = [phase EXCEPT ![j] = "done"]
  /\ Leave(j)
  /\ UNCHANGED <<fsVars, asked, processed, failed>>

PullSucceeds(j) ==
  /\ pc[j] = "pulling"
  /\ Goto(j, "begin")
  /\ UNCHANGED <<storeVars, fsVars, jobVars, todo, work>>

\* LLMAuthError becomes a RuntimeError, which fails the job before any scope.
BeginRegen(j) ==
  /\ j \in Jobs /\ pc[j] = "begin"
  /\ phase' = [phase EXCEPT ![j] = "regenerating"]
  /\ \/ /\ todo' = [todo EXCEPT ![j] = asked[j]]
        /\ status' = [status EXCEPT ![j] = "running"]
        /\ Goto(j, "next")
     \/ /\ "auth" \in Faults
        /\ status' = [status EXCEPT ![j] = "failed"]
        /\ Goto(j, "closing")
        /\ UNCHANGED todo
  /\ UNCHANGED <<storeVars, fsVars, asked, processed, failed, work>>

\* Fault: the scope is forgotten.
TreeFails_Swallowed(a) ==
  /\ pc[a] = "next"
  /\ \E s \in todo[a] : todo' = [todo EXCEPT ![a] = @ \ {s}]
  /\ UNCHANGED <<storeVars, fsVars, jobVars, pc, work>>

\* Walking the scope's directory raises: the job notes it and takes the next
\* scope, the command line ends.
TreeFails(a) ==
  /\ "tree" \in Faults
  /\ pc[a] = "next"
  /\ \E s \in todo[a] :
       \/ /\ a \in Jobs
          /\ todo' = [todo EXCEPT ![a] = @ \ {s}]
          /\ failed' = [failed EXCEPT ![a] = @ \cup {s}]
          /\ UNCHANGED <<storeVars, pc, work>>
       \/ a \in Pulls /\ Leave(a) /\ UNCHANGED failed
  /\ UNCHANGED <<fsVars, status, phase, asked, processed>>

\* The scopes come in the order the directory lists them.
NextScope(a) ==
  /\ pc[a] = "next"
  /\ \E s \in todo[a] :
       /\ todo' = [todo EXCEPT ![a] = @ \ {s}]
       /\ TryScope(a, s, store[Owner(a)][s], 0)
  /\ UNCHANGED <<storeVars, fsVars, jobVars>>

\* After the last scope the status is set, and in "finally" the phase.
NoScopeLeft(a) ==
  /\ pc[a] = "next"
  /\ todo[a] = {}
  /\ \/ /\ a \in Jobs
        /\ Goto(a, "closing")
        /\ status' = [status EXCEPT ![a] =
                        IF failed[a] = {} THEN "succeeded" ELSE "failed"]
        /\ UNCHANGED <<storeVars, todo, work>>
     \/ a \in Pulls /\ Leave(a) /\ UNCHANGED status
  /\ UNCHANGED <<fsVars, phase, asked, processed, failed>>

CloseJob(j) ==
  /\ pc[j] = "closing"
  /\ phase' = [phase EXCEPT ![j] = "done"]
  /\ Leave(j)
  /\ UNCHANGED <<fsVars, status, asked, processed, failed>>

----------------------------------------------------------------------------
(* regen.py: main *)

\* The process loads what it can read of the disk into its own store.
StartPull(c) ==
  /\ pc[c] = "idle"
  /\ Cardinality(Busy) < Concurrent
  /\ \E affected \in SUBSET Scopes \ {{}} : todo' = [todo EXCEPT ![c] = affected]
  /\ store' = [store EXCEPT ![c] =
       [s \in Scopes |-> IF file[s].kind = "whole" THEN file[s].of[s] ELSE NoGraph]]
  /\ Goto(c, "next")
  /\ UNCHANGED <<streak, fsVars, jobVars, work>>

\* Without a usable provider main writes an index of nothing but placeholders.
_write_fallback_index(c) ==
  /\ "auth" \in Faults
  /\ pc[c] = "idle"
  /\ Cardinality(Busy) < Concurrent
  /\ Save(c, Index, NoGraphs)
  /\ UNCHANGED <<storeVars, fsVars, jobVars, todo>>

----------------------------------------------------------------------------
(* regen.py: regen_one_scope and _update_index *)

LlmAnswers(a) ==
  /\ pc[a] = "llm"
  /\ Save(a, work[a].cur, [NoGraphs EXCEPT ![work[a].cur] =
                             [version |-> work[a].old.version + 1, by |-> a]])
  /\ UNCHANGED <<storeVars, fsVars, jobVars, todo>>

\* The call fails or its answer is no ScopeGraph.
LlmFails(a) == pc[a] = "llm" /\ Fails(a) /\ UNCHANGED fd

\* Fault: writes to the path itself.
Open_InPlace(a) ==
  /\ pc[a] = "open"
  /\ file' = [file EXCEPT ![work[a].path] = Empty]
  /\ tmp' = [tmp EXCEPT ![work[a].path] = Whole(work[a].draft)]
  /\ fd' = [fd EXCEPT ![a] = "tmp"]
  /\ Goto(a, "write")
  /\ UNCHANGED <<storeVars, jobVars, todo, work>>

\* Creates the temporary file or truncates the one another writer has open.
Open(a) ==
  /\ pc[a] = "open"
  /\ tmp' = [tmp EXCEPT ![work[a].path] = Empty]
  /\ fd' = [fd EXCEPT ![a] = "tmp"]
  /\ Goto(a, "write")
  /\ UNCHANGED <<storeVars, file, jobVars, todo, work>>

\* Over what another writer put there, a shorter text leaves its tail.
Blend(content, g) ==
  IF content.kind = "empty" THEN {Whole(g)} ELSE {Whole(g), Torn}

Write(a) ==
  /\ pc[a] = "write"
  /\ \/ /\ fd[a] = "tmp"
        /\ \E c \in Blend(tmp[work[a].path], work[a].draft) :
             tmp' = [tmp EXCEPT ![work[a].path] = c]
        /\ UNCHANGED file
     \/ /\ fd[a] = "final"
        /\ \E c \in Blend(file[work[a].path], work[a].draft) :
             file' = [file EXCEPT ![work[a].path] = c]
        /\ UNCHANGED tmp
     \/ fd[a] = "lost" /\ UNCHANGED <<file, tmp>>
  /\ fd' = [fd EXCEPT ![a] = "none"]
  /\ Goto(a, "replace")
  /\ UNCHANGED <<storeVars, jobVars, todo, work>>

\* Where the file a writer has open is after the rename of p.
Moved(a, p) ==
  CASE work[a].path = p /\ fd[a] = "tmp"   -> "final"
    [] work[a].path = p /\ fd[a] = "final" -> "lost"
    [] OTHER -> fd[a]

Replace(a) ==
  /\ pc[a] = "replace"
  /\ IF tmp[work[a].path].kind = "absent"
       THEN Fails(a) /\ UNCHANGED fd
       ELSE /\ file' = [file EXCEPT ![work[a].path] = tmp[work[a].path]]
            /\ tmp' = [tmp EXCEPT ![work[a].path] = Absent]
            /\ fd' = [b \in Regens |-> Moved(b, work[a].path)]
            /\ \/ work[a].cur = NoScope /\ Leave(a)
               \/ /\ work[a].cur # NoScope
                  /\ Goto(a, IF work[a].path = Index THEN "put" ELSE "cards")
                  /\ UNCHANGED <<storeVars, todo, work>>
            /\ UNCHANGED jobVars

\* One file per module, which nothing reads back.
WriteCards(a) ==
  /\ pc[a] = "cards"
  /\ Goto(a, "index")
  /\ UNCHANGED <<storeVars, fsVars, jobVars, todo, work>>

\* The index is read, changed in memory and written back.
ReadIndex(a) ==
  /\ pc[a] = "index"
  /\ IF file[Index].kind \in {"empty", "torn"}
       THEN Fails(a) /\ UNCHANGED fd
       ELSE /\ Save(a, Index, [file[Index].of EXCEPT
                                 ![work[a].cur].version = work[a].old.version + 1])
            /\ UNCHANGED <<storeVars, fsVars, jobVars, todo>>

\* Disk full, a missing permission and the like.
DiskFails(a) ==
  /\ "disk" \in Faults
  /\ pc[a] \in {"open", "write", "replace", "cards", "index"}
  /\ fd' = [fd EXCEPT ![a] = "none"]
  /\ Fails(a)

\* A job counts a scope as processed whenever regen_one_scope has returned.
Processed(a) ==
  /\ processed' = IF a \in Jobs THEN [processed EXCEPT ![a] = @ \cup {work[a].cur}]
                  ELSE processed
  /\ Goto(a, "next")
  /\ work' = [work EXCEPT ![a] = NoWork]
  /\ UNCHANGED <<fsVars, status, phase, asked, failed, todo>>

Put(a) ==
  /\ pc[a] = "put"
  /\ store' = [store EXCEPT ![Owner(a)][work[a].cur] =
                 [version |-> work[a].old.version + 1, by |-> a]]
  /\ streak' = [streak EXCEPT ![Owner(a)][work[a].cur] = 0]
  /\ Processed(a)

\* Fault: puts the old graph back as if nothing had happened.
Fallback_NotStale(a) ==
  /\ pc[a] = "fallback"
  /\ store' = [store EXCEPT ![Owner(a)][work[a].cur] = work[a].old]
  /\ streak' = [streak EXCEPT ![Owner(a)][work[a].cur] = 0]
  /\ Processed(a)

\* The graph regen_one_scope was given, or an empty placeholder, marked stale.
Fallback(a) ==
  /\ pc[a] = "fallback"
  /\ store' = [store EXCEPT ![Owner(a)][work[a].cur] =
                 IF work[a].old # NoGraph THEN work[a].old ELSE [version |-> 0, by |-> a]]
  /\ streak' = [streak EXCEPT ![Owner(a)][work[a].cur] = @ + 1]
  /\ Processed(a)

----------------------------------------------------------------------------
(* Restarts *)

\* The gateway's jobs and its store are in memory; its threads die anywhere.
GatewayRestarts ==
  LET hit == {j \in Jobs : status[j] # "none"}
      Lost(f, v) == [a \in DOMAIN f |-> IF a \in hit THEN v ELSE f[a]]
  IN /\ "kill" \in Faults
     /\ store' = [store EXCEPT ![Gateway] = NoGraphs]
     /\ streak' = [streak EXCEPT ![Gateway] = NoStreaks]
     /\ status' = Lost(status, "lost")
     /\ phase' = Lost(phase, "done")
     /\ asked' = Lost(asked, {})
     /\ processed' = Lost(processed, {})
     /\ failed' = Lost(failed, {})
     /\ pc' = Lost(pc, "gone")
     /\ todo' = Lost(todo, {})
     /\ work' = Lost(work, NoWork)
     /\ fd' = Lost(fd, "none")
     /\ UNCHANGED <<file, tmp>>

PullKilled(c) ==
  /\ "kill" \in Faults
  /\ c \in Busy
  /\ Leave(c)
  /\ fd' = [fd EXCEPT ![c] = "none"]
  /\ UNCHANGED <<file, tmp, jobVars>>

----------------------------------------------------------------------------

RegenStep(a) ==
  \/ TreeFails(a) \/ NextScope(a) \/ NoScopeLeft(a)
  \/ LlmAnswers(a) \/ LlmFails(a)
  \/ Open(a) \/ Write(a) \/ Replace(a) \/ WriteCards(a) \/ ReadIndex(a)
  \/ DiskFails(a) \/ Put(a) \/ Fallback(a)

JobStep(j) ==
  \/ BeginPull(j) \/ PullFails(j) \/ PullSucceeds(j) \/ BeginRegen(j) \/ CloseJob(j)
  \/ RegenStep(j)

Next ==
  \/ \E j \in Jobs : PostRegen(j) \/ JobStep(j)
  \/ \E c \in Pulls : \/ StartPull(c) \/ _write_fallback_index(c)
                      \/ RegenStep(c) \/ PullKilled(c)
  \/ GatewayRestarts

Spec == Init /\ [][Next]_vars

\* The gateway's thread pool runs its jobs.
FairSpec == Spec /\ \A j \in Jobs : WF_vars(JobStep(j))

----------------------------------------------------------------------------
(* Properties *)

TypeOK ==
  /\ store \in [Owners -> [Scopes -> Graph]]
  /\ streak \in [Owners -> [Scopes -> 0..Cardinality(Regens)]]
  /\ file \in [Paths -> Content] /\ tmp \in [Paths -> Content]
  /\ fd \in [Regens -> {"none", "tmp", "final", "lost"}]
  /\ status \in [Jobs -> {"none", "queued", "running", "succeeded", "failed", "lost"}]
  /\ phase \in [Jobs -> {"queued", "pulling", "regenerating", "done"}]
  /\ asked \in [Jobs -> SUBSET Scopes]
  /\ processed \in [Jobs -> SUBSET Scopes] /\ failed \in [Jobs -> SUBSET Scopes]
  /\ pc \in [Regens -> Steps]
  /\ todo \in [Regens -> SUBSET Scopes]
  /\ work \in [Regens -> Work]

\* _atomic_write_json: whoever reads a scope graph or the index finds all of
\* it, also after a writer was killed half way.
FilesAreWhole == \A p \in Paths : file[p].kind \in {"absent", "whole"}

\* A scope the gateway shows as fresh has a graph on the disk that is as new,
\* and the very same one when a job of the gateway wrote it, although jobs
\* fail after they have replaced the file and command line runs come between.
FreshGraphIsOnDisk ==
  Busy = {} =>
    \A s \in Scopes :
      LET shown == store[Gateway][s]
          disk  == file[s].of[s]
      IN shown # NoGraph /\ streak[Gateway][s] = 0 =>
           /\ disk # NoGraph
           /\ disk.version >= shown.version
           /\ disk.by \in Jobs => disk = shown

\* A job that reports success has been through every scope it was asked for.
SucceededJobDidItsScopes ==
  \A j \in Jobs : status[j] = "succeeded" => processed[j] = asked[j]

\* A poller that stops at phase "done" has seen the last of the job: until a
\* restart forgets it, it keeps its result.
DoneJobIsFinal ==
  [][\A j \in Jobs : phase[j] = "done" /\ status'[j] # "lost" =>
       /\ status[j] \in {"succeeded", "failed"} /\ status'[j] = status[j]
       /\ phase'[j] = "done"
       /\ processed'[j] = processed[j] /\ failed'[j] = failed[j]]_vars

\* Every job ends, or is forgotten by a restart: retries are bounded.
JobSettles ==
  \A j \in Jobs : status[j] = "queued" ~> phase[j] = "done"
=============================================================================
