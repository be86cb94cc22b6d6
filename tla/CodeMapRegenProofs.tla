------------------------ MODULE CodeMapRegenProofs ------------------------
(***************************************************************************)
(* What a poller may rely on about the gateway's regeneration jobs, for    *)
(* any number of jobs, command line processes and scopes that run at the   *)
(* same time, under every fault: a job that reports success has been       *)
(* through its scopes, and a job that is done stays as it is.              *)
(***************************************************************************)
EXTENDS CodeMapRegen, TLAPS

-----------------------------------------------------------------------------
(* The invariant                                                             *)

FunctionsOK ==
  /\ status = [j \in Jobs |-> status[j]]
  /\ phase = [j \in Jobs |-> phase[j]]
  /\ asked = [j \in Jobs |-> asked[j]]
  /\ processed = [j \in Jobs |-> processed[j]]
  /\ failed = [j \in Jobs |-> failed[j]]
  /\ pc = [a \in Regens |-> pc[a]]
  /\ todo = [a \in Regens |-> todo[a]]
  /\ work = [a \in Regens |-> work[a]]

\* Before its first scope, and while it works on one.
Early      == {"idle", "pull", "pulling", "begin"}
ScopeSteps == {"llm", "open", "write", "replace", "cards", "index", "put", "fallback"}

\* Where the scopes of a job are: each is processed, failed, to do, or in work.
ScopesOK(j) ==
  /\ asked[j] \subseteq Scopes
  /\ pc[j] \in Early =>
       processed[j] = {} /\ failed[j] = {} /\ todo[j] = {} /\ work[j].cur = NoScope
  /\ pc[j] = "next" =>
       /\ work[j].cur = NoScope
       /\ processed[j] \cup failed[j] \cup todo[j] = asked[j]
  /\ pc[j] \in ScopeSteps =>
       /\ work[j].cur \in Scopes
       /\ processed[j] \cup failed[j] \cup todo[j] \cup {work[j].cur} = asked[j]

\* What the status and the phase say about where it is.
StatusOK(j) ==
  /\ pc[j] \in Early \cup ScopeSteps \cup {"next", "closing", "gone"}
  /\ status[j] = "none" <=> pc[j] = "idle"
  /\ phase[j] = "done" <=> pc[j] = "gone"
  /\ pc[j] = "closing" => status[j] \in {"succeeded", "failed"}
  /\ pc[j] = "gone" => status[j] \in {"succeeded", "failed", "lost"}
  /\ status[j] = "succeeded" => pc[j] \in {"closing", "gone"} /\ processed[j] = asked[j]

JobOK(j) == ScopesOK(j) /\ StatusOK(j)

JInv == FunctionsOK /\ \A j \in Jobs : JobOK(j)

Same(j) ==
  UNCHANGED <<status[j], phase[j], asked[j], processed[j], failed[j], pc[j], todo[j], work[j].cur>>

LEMMA SameOK == ASSUME NEW j, JobOK(j), Same(j) PROVE JobOK(j)'
BY DEF JobOK, ScopesOK, StatusOK, Same

LEMMA InitJobs == ASSUME RegenAssumption, Init PROVE JInv
<1>1. FunctionsOK BY DEF Init, FunctionsOK
<1>2. ASSUME NEW j \in Jobs PROVE JobOK(j)
  BY DEF Init, NoWork, Regens, JobOK, ScopesOK, StatusOK, Early, ScopeSteps
<1>3. QED BY <1>1, <1>2 DEF JInv

\* A step of one regenerator leaves the others as they are.
LEMMA OneMoves ==
  ASSUME JInv, NEW a \in Regens, FunctionsOK',
         \A j \in Jobs \ {a} : Same(j), a \in Jobs => JobOK(a)'
  PROVE  JInv'
<1>1. ASSUME NEW j \in Jobs \ {a} PROVE JobOK(j)' BY <1>1, SameOK DEF JInv
<1>2. QED BY <1>1 DEF JInv

-----------------------------------------------------------------------------
(* The job as a whole                                                        *)

LEMMA RegensAre == Jobs \subseteq Regens /\ Pulls \subseteq Regens
BY DEF Regens

LEMMA JobLevelSteps ==
  ASSUME RegenAssumption, JInv, NEW j \in Jobs,
         PostRegen(j) \/ BeginPull(j) \/ PullFails(j) \/ PullSucceeds(j) \/ BeginRegen(j)
           \/ CloseJob(j)
  PROVE  JInv'
<1>0. FunctionsOK /\ JobOK(j) /\ j \in Regens BY RegensAre DEF JInv
<1> USE <1>0 DEF FunctionsOK, Same, JobOK, ScopesOK, StatusOK, Early, ScopeSteps
<1>1. CASE PostRegen(j)
  <2>1. FunctionsOK' /\ \A i \in Jobs \ {j} : Same(i) BY <1>1, RegensAre DEF PostRegen, Goto
  <2>2. JobOK(j)' BY <1>1 DEF PostRegen, Goto
  <2>3. QED BY <2>1, <2>2, OneMoves
<1>2. CASE BeginPull(j)
  <2>1. FunctionsOK' /\ \A i \in Jobs \ {j} : Same(i) BY <1>2, RegensAre DEF BeginPull, Goto
  <2>2. JobOK(j)' BY <1>2 DEF BeginPull, Goto
  <2>3. QED BY <2>1, <2>2, OneMoves
<1>3. CASE PullFails(j)
  <2>1. FunctionsOK' /\ \A i \in Jobs \ {j} : Same(i)
    BY <1>3, RegensAre DEF PullFails, Leave, Goto
  <2>2. JobOK(j)' BY <1>3 DEF PullFails, Leave, Goto
  <2>3. QED BY <2>1, <2>2, OneMoves
<1>4. CASE PullSucceeds(j)
  <2>1. FunctionsOK' /\ \A i \in Jobs \ {j} : Same(i)
    BY <1>4, RegensAre DEF PullSucceeds, Goto, jobVars
  <2>2. JobOK(j)' BY <1>4 DEF PullSucceeds, Goto, jobVars
  <2>3. QED BY <2>1, <2>2, OneMoves
<1>5. CASE BeginRegen(j)
  <2>1. FunctionsOK' /\ \A i \in Jobs \ {j} : Same(i) BY <1>5, RegensAre DEF BeginRegen, Goto
  <2>2. JobOK(j)' BY <1>5 DEF BeginRegen, Goto
  <2>3. QED BY <2>1, <2>2, OneMoves
<1>6. CASE CloseJob(j)
  <2>1. FunctionsOK' /\ \A i \in Jobs \ {j} : Same(i)
    BY <1>6, RegensAre DEF CloseJob, Leave, Goto
  <2>2. JobOK(j)' BY <1>6 DEF CloseJob, Leave, Goto
  <2>3. QED BY <2>1, <2>2, OneMoves
<1>7. QED BY <1>1, <1>2, <1>3, <1>4, <1>5, <1>6

-----------------------------------------------------------------------------
(* From scope to scope                                                       *)

LEMMA ScopeLevelSteps ==
  ASSUME RegenAssumption, JInv, NEW a \in Regens,
         TreeFails(a) \/ NextScope(a) \/ NoScopeLeft(a) \/ Put(a) \/ Fallback(a)
  PROVE  JInv'
<1>0. FunctionsOK /\ (a \in Jobs => JobOK(a)) BY DEF JInv
<1>a. Jobs \cap Pulls = {} BY DEF RegenAssumption
<1> USE <1>0, <1>a DEF FunctionsOK, Same, JobOK, ScopesOK, StatusOK, Early, ScopeSteps
<1>1. CASE TreeFails(a)
  <2>1. FunctionsOK' /\ \A i \in Jobs \ {a} : Same(i)
    BY <1>1, RegensAre DEF TreeFails, Leave, Goto, NoWork
  <2>2. a \in Jobs => JobOK(a)' BY <1>1 DEF TreeFails
  <2>3. QED BY <2>1, <2>2, OneMoves
<1>2. CASE NextScope(a)
  <2>1. PICK s \in todo[a] :
          /\ pc[a] = "next" /\ pc' = [pc EXCEPT ![a] = "llm"]
          /\ todo' = [todo EXCEPT ![a] = @ \ {s}]
          /\ work' = [work EXCEPT ![a] = [cur |-> s, old |-> store[Owner(a)][s], attempt |-> 0,
                                          path |-> Index, draft |-> NoGraphs]]
          /\ UNCHANGED jobVars
    BY <1>2 DEF NextScope, TryScope, Goto
  <2>2. FunctionsOK' /\ \A i \in Jobs \ {a} : Same(i) BY <2>1, RegensAre DEF jobVars
  <2>3. a \in Jobs => JobOK(a)' BY <2>1 DEF jobVars
  <2>4. QED BY <2>2, <2>3, OneMoves
<1>3. CASE NoScopeLeft(a)
  <2>1. FunctionsOK' /\ \A i \in Jobs \ {a} : Same(i)
    BY <1>3, RegensAre DEF NoScopeLeft, Leave, Goto, NoWork
  <2>2. a \in Jobs => JobOK(a)' BY <1>3 DEF NoScopeLeft, Goto
  <2>3. QED BY <2>1, <2>2, OneMoves
<1>4. CASE Put(a) \/ Fallback(a)
  <2>1. pc[a] \in {"put", "fallback"} /\ Processed(a) BY <1>4 DEF Put, Fallback
  <2>2. FunctionsOK' /\ \A i \in Jobs \ {a} : Same(i)
    BY <2>1, RegensAre DEF Processed, Goto, NoWork
  <2>3. a \in Jobs => JobOK(a)' BY <2>1 DEF Processed, Goto, NoWork
  <2>4. QED BY <2>2, <2>3, OneMoves
<1>5. QED BY <1>1, <1>2, <1>3, <1>4

-----------------------------------------------------------------------------
(* Inside a scope                                                            *)

\* A step within a scope, which a job does not leave here.
Within(a) ==
  /\ pc' = [pc EXCEPT ![a] = pc'[a]]
  /\ todo' = [todo EXCEPT ![a] = todo'[a]]
  /\ work' = [work EXCEPT ![a] = work'[a]]
  /\ UNCHANGED jobVars
  /\ a \in Jobs => /\ pc[a] \in ScopeSteps /\ pc'[a] \in ScopeSteps
                   /\ todo'[a] = todo[a] /\ work'[a].cur = work[a].cur

LEMMA WithinOK == ASSUME JInv, NEW a \in Regens, Within(a) PROVE JInv'
<1>0. FunctionsOK /\ (a \in Jobs => JobOK(a)) BY DEF JInv
<1> USE <1>0 DEF FunctionsOK, Same, JobOK, ScopesOK, StatusOK, Early, ScopeSteps
<1>1. FunctionsOK' /\ \A i \in Jobs \ {a} : Same(i) BY RegensAre DEF Within, jobVars
<1>2. a \in Jobs => JobOK(a)' BY DEF Within, jobVars
<1>3. QED BY <1>1, <1>2, OneMoves

\* An exception leaves a job in its scope, which it has in all these steps.
LEMMA FailsWithin ==
  ASSUME RegenAssumption, JInv, NEW a \in Regens, pc[a] \in ScopeSteps, Fails(a)
  PROVE  Within(a)
<1>0. /\ FunctionsOK /\ NoScope \notin Scopes
      /\ a \in Jobs => work[a].cur \in Scopes
  BY DEF JInv, JobOK, ScopesOK, RegenAssumption, Paths
<1>1. CASE work[a].cur = NoScope /\ Leave(a)
  BY <1>0, <1>1 DEF Fails, Leave, Goto, Within, FunctionsOK
<1>2. CASE work[a].cur # NoScope /\ Retry(a) /\ UNCHANGED todo
  BY <1>0, <1>2 DEF Fails, Retry, TryScope, Goto, Within, FunctionsOK, ScopeSteps
<1>3. CASE Goto(a, "fallback") /\ UNCHANGED <<todo, work>>
  BY <1>0, <1>3 DEF Fails, Goto, Within, FunctionsOK, ScopeSteps
<1>4. QED BY <1>1, <1>2, <1>3 DEF Fails

LEMMA SaveWithin ==
  ASSUME JInv, NEW a \in Regens, NEW p, NEW content, pc[a] \in ScopeSteps,
         Save(a, p, content), UNCHANGED <<jobVars, todo>>
  PROVE  Within(a)
BY DEF JInv, FunctionsOK, Save, Goto, Within, ScopeSteps

LEMMA FileSteps ==
  ASSUME RegenAssumption, JInv, NEW a \in Regens,
         LlmAnswers(a) \/ LlmFails(a) \/ Open(a) \/ Write(a) \/ Replace(a) \/ WriteCards(a)
           \/ ReadIndex(a) \/ DiskFails(a)
  PROVE  Within(a)
<1>0. /\ FunctionsOK /\ NoScope \notin Scopes
      /\ a \in Jobs /\ pc[a] \in ScopeSteps => work[a].cur \in Scopes
  BY DEF JInv, JobOK, ScopesOK, RegenAssumption, Paths
<1>1. CASE LlmAnswers(a)
  BY <1>1, SaveWithin DEF LlmAnswers, ScopeSteps
<1>2. CASE LlmFails(a) \/ DiskFails(a)
  BY <1>2, FailsWithin DEF LlmFails, DiskFails, ScopeSteps
<1>3. CASE Open(a) \/ Write(a) \/ WriteCards(a)
  BY <1>0, <1>3 DEF Open, Write, WriteCards, Goto, Within, FunctionsOK, ScopeSteps
<1>4. CASE Replace(a)
  <2>1. CASE Fails(a) BY <1>4, <2>1, FailsWithin DEF Replace, ScopeSteps
  <2>2. CASE work[a].cur = NoScope /\ Leave(a) /\ UNCHANGED jobVars
    BY <1>0, <1>4, <2>2 DEF Replace, Leave, Goto, Within, FunctionsOK, ScopeSteps
  <2>3. CASE \E step \in {"put", "cards"} : Goto(a, step) /\ UNCHANGED <<todo, work, jobVars>>
    BY <1>0, <1>4, <2>3 DEF Replace, Goto, Within, FunctionsOK, ScopeSteps
  <2>4. QED BY <1>4, <2>1, <2>2, <2>3 DEF Replace
<1>5. CASE ReadIndex(a)
  <2>1. CASE Fails(a) BY <1>5, <2>1, FailsWithin DEF ReadIndex, ScopeSteps
  <2>2. CASE ~ Fails(a) BY <1>5, <2>2, SaveWithin DEF ReadIndex, ScopeSteps
  <2>3. QED BY <2>1, <2>2
<1>6. QED BY <1>1, <1>2, <1>3, <1>4, <1>5

-----------------------------------------------------------------------------
(* Command line processes and restarts                                       *)

LEMMA PullSteps ==
  ASSUME RegenAssumption, JInv, NEW c \in Pulls,
         StartPull(c) \/ _write_fallback_index(c) \/ PullKilled(c)
  PROVE  JInv'
<1>0. FunctionsOK /\ c \in Regens /\ c \notin Jobs BY RegensAre DEF JInv, RegenAssumption
<1>1. FunctionsOK' /\ \A i \in Jobs \ {c} : Same(i)
  BY <1>0, RegensAre DEF StartPull, _write_fallback_index, PullKilled, Save, Leave, Goto,
     FunctionsOK, Same, jobVars
<1>2. QED BY <1>0, <1>1, OneMoves

\* The jobs there were are forgotten, the others are as they were.
LEMMA RestartJobs == ASSUME RegenAssumption, JInv, GatewayRestarts PROVE JInv'
<1>0. FunctionsOK BY DEF JInv
<1>1. FunctionsOK' BY <1>0 DEF GatewayRestarts, FunctionsOK
<1>2. ASSUME NEW j \in Jobs PROVE JobOK(j)'
  <2>0. JobOK(j) BY DEF JInv
  <2>1. CASE status[j] = "none"
    BY <1>0, <2>0, <2>1, RegensAre, SameOK DEF GatewayRestarts, FunctionsOK, Same
  <2>2. CASE status[j] # "none"
    <3>1. status'[j] = "lost" /\ phase'[j] = "done" /\ pc'[j] = "gone" /\ asked'[j] = {}
      BY <1>0, <2>2, RegensAre DEF GatewayRestarts, FunctionsOK
    <3>2. QED BY <3>1 DEF JobOK, ScopesOK, StatusOK, Early, ScopeSteps
  <2>3. QED BY <2>1, <2>2
<1>3. QED BY <1>1, <1>2 DEF JInv

LEMMA NextJobs == ASSUME RegenAssumption, JInv, [Next]_vars PROVE JInv'
<1>1. CASE UNCHANGED vars
  BY <1>1 DEF vars, jobVars, JInv, FunctionsOK, JobOK, ScopesOK, StatusOK
<1>2. ASSUME NEW a \in Regens, RegenStep(a) PROVE JInv'
  BY <1>2, FileSteps, WithinOK, ScopeLevelSteps DEF RegenStep
<1>3. QED BY <1>1, <1>2, JobLevelSteps, PullSteps, RestartJobs, RegensAre DEF Next, JobStep

LEMMA Inductive == Spec => []JInv
<1>1. Init => JInv BY InitJobs, RegenAssumption
<1>2. JInv /\ [Next]_vars => JInv' BY NextJobs, RegenAssumption
<1>3. QED BY <1>1, <1>2, PTL DEF Spec

-----------------------------------------------------------------------------
(* A job that reports success has been through every scope it was asked for, *)
(* however many jobs and processes run beside it, and whatever failed in     *)
(* between: _do_regen_phase loses no scope.                                  *)
THEOREM SuccessIsComplete == Spec => []SucceededJobDidItsScopes
<1>1. JInv => SucceededJobDidItsScopes
  BY DEF JInv, JobOK, StatusOK, SucceededJobDidItsScopes
<1>2. QED BY <1>1, Inductive, PTL

\* A job that is done is in no step of its own any more.
LEMMA DoneStays ==
  ASSUME RegenAssumption, JInv, [Next]_vars, NEW j \in Jobs, phase[j] = "done"
  PROVE  Same(j) \/ status'[j] = "lost"
<1>0. FunctionsOK /\ j \in Regens /\ pc[j] = "gone" /\ status[j] # "none"
  BY RegensAre DEF JInv, JobOK, StatusOK
<1>1. CASE UNCHANGED vars BY <1>1 DEF vars, jobVars, Same
<1>2. CASE GatewayRestarts BY <1>0, <1>2 DEF GatewayRestarts, FunctionsOK
<1>3. ASSUME NEW i \in Jobs, PostRegen(i) \/ BeginPull(i) \/ PullFails(i) \/ PullSucceeds(i)
                               \/ BeginRegen(i) \/ CloseJob(i)
      PROVE  Same(j)
  <2>1. i # j
    BY <1>0, <1>3 DEF PostRegen, BeginPull, PullFails, PullSucceeds, BeginRegen, CloseJob
  <2>2. QED
    BY <1>0, <1>3, <2>1, RegensAre DEF PostRegen, BeginPull, PullFails, PullSucceeds, BeginRegen,
       CloseJob, Leave, Goto, jobVars, FunctionsOK, Same
<1>4. ASSUME NEW a \in Regens, RegenStep(a) PROVE Same(j)
  <2>1. CASE TreeFails(a) \/ NextScope(a) \/ NoScopeLeft(a) \/ Put(a) \/ Fallback(a)
    BY <1>0, <2>1, RegensAre DEF TreeFails, NextScope, TryScope, NoScopeLeft, Put, Fallback,
       Processed, Leave, Goto, jobVars, FunctionsOK, Same
  <2>2. CASE Within(a)
    BY <1>0, <2>2 DEF Within, jobVars, FunctionsOK, Same, ScopeSteps
  <2>3. QED BY <1>4, <2>1, <2>2, FileSteps DEF RegenStep
<1>5. ASSUME NEW c \in Pulls, StartPull(c) \/ _write_fallback_index(c) \/ PullKilled(c)
      PROVE  Same(j)
  <2>1. c # j BY DEF RegenAssumption
  <2>2. QED BY <1>0, <1>5, <2>1, RegensAre DEF StartPull, _write_fallback_index, PullKilled,
               Save, Leave, Goto, jobVars, FunctionsOK, Same
<1>6. QED BY <1>1, <1>2, <1>3, <1>4, <1>5, RegensAre DEF Next, JobStep

(* A poller that stops at phase "done" has seen the job's last status: no    *)
(* thread, pull or process changes it, and only a restart forgets it.        *)
THEOREM DoneIsFinal == Spec => DoneJobIsFinal
<1>1. ASSUME JInv, [Next]_vars
      PROVE  [\A j \in Jobs : phase[j] = "done" /\ status'[j] # "lost" =>
                /\ status[j] \in {"succeeded", "failed"} /\ status'[j] = status[j]
                /\ phase'[j] = "done"
                /\ processed'[j] = processed[j] /\ failed'[j] = failed[j]]_vars
  <2>1. ASSUME NEW j \in Jobs, phase[j] = "done", status'[j] # "lost"
        PROVE  /\ status[j] \in {"succeeded", "failed"} /\ status'[j] = status[j]
               /\ phase'[j] = "done"
               /\ processed'[j] = processed[j] /\ failed'[j] = failed[j]
    <3>1. Same(j) BY <1>1, <2>1, DoneStays, RegenAssumption
    <3>2. status[j] \in {"succeeded", "failed", "lost"}
      BY <1>1, <2>1 DEF JInv, JobOK, StatusOK
    <3>3. QED BY <2>1, <3>1, <3>2 DEF Same
  <2>2. QED BY <2>1
<1>2. QED BY <1>1, Inductive, PTL DEF Spec, DoneJobIsFinal
=============================================================================
