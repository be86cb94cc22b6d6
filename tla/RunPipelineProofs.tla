------------------------- MODULE RunPipelineProofs -------------------------
(***************************************************************************)
(* What RunPipeline guarantees for any number of runs, job slots, manual   *)
(* requests, findings, days and deliveries, under every fault.             *)
(***************************************************************************)
EXTENDS RunPipeline, TLAPS

----------------------------------------------------------------------------
(* The helpers every stage is built from *)

LEMMA UpdateStatusType ==
  ASSUME DbTypeOK, NEW r, NEW s \in Statuses, update_status(r, s)
  PROVE  status' \in [Runs -> Statuses]
BY DEF DbTypeOK, update_status

LEMMA UpdateFailedType ==
  ASSUME DbTypeOK, NEW r, NEW why \in {"message", "timeout", "empty"}, update_failed(r, why)
  PROVE  /\ status' \in [Runs -> Statuses]
         /\ reason' \in [Runs -> {"none", "message", "timeout", "empty"}]
<1>1. "failed" \in Statuses
  BY DEF Statuses, Terminal
<1>2. QED
  BY <1>1 DEF DbTypeOK, update_failed, update_status

LEMMA NothingType == Nothing \in Snapshot
BY DEF Nothing, Snapshot

\* An actor that goes on keeps its run.
LEMMA GotoType ==
  ASSUME ActorTypeOK, NEW a \in Actors, pc[a] # "idle",
         NEW step \in Steps, NEW snap \in Snapshot, Goto(a, step, snap)
  PROVE  ActorTypeOK'
BY DEF ActorTypeOK, Goto

LEMMA LeaveType ==
  ASSUME ActorTypeOK, NEW a \in Actors, Leave(a)
  PROVE  ActorTypeOK'
<1>1. "idle" \in Steps
  BY DEF Steps
<1>2. QED
  BY <1>1, NothingType DEF ActorTypeOK, Leave

LEMMA AdvanceType ==
  ASSUME ActorTypeOK, NEW a \in Actors, pc[a] # "idle",
         NEW step \in Steps, Advance(a, step)
  PROVE  ActorTypeOK'
BY GotoType, LeaveType, NothingType DEF Advance

LEMMA AbortType ==
  ASSUME DbTypeOK, ActorTypeOK, NEW a \in Actors, pc[a] # "idle", Abort(a)
  PROVE  DbTypeOK' /\ ActorTypeOK'
<1>1. "handle" \in Steps
  BY DEF Steps, HandlerSteps
<1>2. ActorTypeOK'
  BY <1>1, AdvanceType DEF Abort, Raise
<1>3. DbTypeOK'
  BY DEF Abort, dbVars, DbTypeOK
<1>4. QED BY <1>2, <1>3

----------------------------------------------------------------------------
(* Type correctness *)

LEMMA StageType ==
  ASSUME PipelineAssumption, TypeOK, NEW a \in Actors, StageStep(a)
  PROVE  DbTypeOK' /\ ActorTypeOK'
<1> USE DEF TypeOK
<1> DEFINE R == on[a]
<1>0. /\ pc[a] # "idle" /\ R \in Runs
      /\ {"fetching", "review", "reviewing", "score", "scoring", "report", "rendered",
          "reporting", "finish", "handle"} \subseteq Steps
      /\ {"git_fetching", "git_ingested", "agent_review_started",
          "agent_review_completed", "scored"} \subseteq Statuses
  BY DEF StageStep, At, IngestStart, GitFails, IngestDone, ReviewStart, ReviewDone,
         ScoreStart, ScoreDone, ReportStart, ReportWrite, ReportDone, PhaseRaises,
         ActorTypeOK, Steps, PhaseSteps, HandlerSteps, Statuses
<1>1. CASE Abort(a)
  BY <1>0, <1>1, AbortType
<1>2. CASE IngestStart(a) /\ ~Abort(a)
  BY <1>0, <1>2, UpdateStatusType, GotoType, NothingType DEF IngestStart, DbTypeOK
<1>3. CASE GitFails(a)
  BY <1>0, <1>3, UpdateFailedType, AdvanceType DEF GitFails, Raise, DbTypeOK
<1>4. CASE IngestDone(a) /\ ~Abort(a)
  <2>1. copies' \in [Runs -> 0..2]
    BY <1>0, <1>4 DEF IngestDone, DbTypeOK
  <2>2. QED
    BY <1>0, <1>4, <2>1, UpdateStatusType, AdvanceType DEF IngestDone, DbTypeOK
<1>5. CASE ReviewStart(a) /\ ~Abort(a)
  <2>1. [Nothing EXCEPT !.copies = copies[R]] \in Snapshot
    BY <1>0 DEF Nothing, Snapshot, DbTypeOK
  <2>2. QED
    BY <1>0, <1>5, <2>1, UpdateStatusType, GotoType DEF ReviewStart, DbTypeOK
<1>6. CASE ReviewDone(a) /\ ~Abort(a)
  <2>1. PICK kept \in SUBSET (1..MaxFindings) :
          /\ findings' = [findings EXCEPT ![R] = @ \cup ({day} \X kept)]
          /\ update_status(R, "agent_review_completed")
          /\ \E step \in {"score", "handle"} : Advance(a, step)
          /\ UNCHANGED <<reason, retryOf, copies, scores, report, file>>
    BY <1>6 DEF ReviewDone, Raise
  <2>2. {day} \X kept \subseteq FindingId
    BY DEF FindingId, QueueTypeOK
  <2>3. findings' \in [Runs -> SUBSET FindingId]
    BY <1>0, <2>1, <2>2 DEF DbTypeOK
  <2>4. QED
    BY <1>0, <2>1, <2>3, UpdateStatusType, AdvanceType DEF DbTypeOK
<1>7. CASE ScoreStart(a) /\ ~Abort(a)
  <2>1. [Nothing EXCEPT !.findings = findings[R]] \in Snapshot
    BY <1>0 DEF Nothing, Snapshot, DbTypeOK
  <2>2. QED
    BY <1>0, <1>7, <2>1, GotoType DEF ScoreStart, DbTypeOK, dbVars
<1>8. CASE ScoreDone(a) /\ ~Abort(a)
  <2>1. seen[a].findings \in SUBSET FindingId
    BY DEF ActorTypeOK, Snapshot
  <2>2. scores' \in [Runs -> SUBSET SUBSET FindingId]
    BY <1>0, <1>8, <2>1 DEF ScoreDone, DbTypeOK
  <2>3. QED
    BY <1>0, <1>8, <2>2, UpdateStatusType, AdvanceType DEF ScoreDone, DbTypeOK
<1>9. CASE ReportStart(a) /\ ~Abort(a)
  <2>1. [copies |-> 0, findings |-> findings[R], scores |-> scores[R]] \in Snapshot
    BY <1>0 DEF Snapshot, DbTypeOK
  <2>2. QED
    BY <1>0, <1>9, <2>1, GotoType DEF ReportStart, DbTypeOK, dbVars
<1>10. CASE ReportWrite(a)
  <2>1. [findings |-> seen[a].findings, scores |-> seen[a].scores] \in Rendering
    BY DEF ActorTypeOK, Snapshot, Rendering
  <2>2. file' \in [Runs -> SUBSET Rendering]
    BY <1>0, <1>10, <2>1 DEF ReportWrite, DbTypeOK
  <2>3. QED
    BY <1>0, <1>10, <2>2, GotoType, NothingType DEF ReportWrite, DbTypeOK, dbVars
<1>11. CASE ReportDone(a) /\ ~Abort(a)
  BY <1>0, <1>11, AdvanceType DEF ReportDone, DbTypeOK
<1>12. CASE PhaseRaises(a)
  BY <1>1, <1>12 DEF PhaseRaises
<1>13. QED
  BY <1>1, <1>2, <1>3, <1>4, <1>5, <1>6, <1>7, <1>8, <1>9, <1>10, <1>11, <1>12 DEF StageStep

\* A stage step leaves the queue and the clock alone.
LEMMA StageLeavesQueue ==
  ASSUME NEW a, StageStep(a)
  PROVE  UNCHANGED <<job, tries, day>>
BY DEF StageStep, At, IngestStart, GitFails, IngestDone, ReviewStart, ReviewDone,
       ScoreStart, ScoreDone, ReportStart, ReportWrite, ReportDone, PhaseRaises, queueVars

LEMMA WorkerType ==
  ASSUME PipelineAssumption, TypeOK, NEW w \in Workers, WorkerStep(w)
  PROVE  TypeOK'
<1> USE DEF TypeOK
<1>0. /\ w \in Actors
      /\ {"score", "ending", "handle_timeout"} \subseteq Steps
      /\ {"agent_review_completed", "completed"} \subseteq Statuses
      /\ \A step \in {"finish", "review", "reviewing"} \cup HandlerSteps : step # "idle"
  BY DEF Actors, Steps, PhaseSteps, HandlerSteps, Statuses, Terminal
<1>1. CASE StageStep(w)
  BY <1>0, <1>1, StageType, StageLeavesQueue DEF QueueTypeOK
<1>2. CASE ReviewSkipped(w)
  BY <1>0, <1>2, UpdateStatusType, AdvanceType
  DEF ReviewSkipped, At, DbTypeOK, QueueTypeOK, queueVars
<1>3. CASE ReviewTimeout(w)
  BY <1>0, <1>3, UpdateFailedType, GotoType, NothingType
  DEF ReviewTimeout, At, DbTypeOK, QueueTypeOK, queueVars
<1>4. CASE Complete(w)
  BY <1>0, <1>4, UpdateStatusType, GotoType, NothingType
  DEF Complete, At, DbTypeOK, QueueTypeOK, queueVars
<1>5. CASE RecordFailure(w)
  <2> DEFINE why == IF pc[w] = "handle" THEN "message" ELSE "empty"
  <2>1. DbTypeOK'
    <3>1. why \in {"message", "timeout", "empty"} /\ update_failed(on[w], why)
      BY <1>5 DEF RecordFailure
    <3> HIDE DEF why
    <3>2. QED BY <1>5, <3>1, UpdateFailedType DEF RecordFailure, DbTypeOK
  <2>2. ActorTypeOK' /\ QueueTypeOK'
    BY <1>0, <1>5, GotoType, NothingType DEF RecordFailure, QueueTypeOK, queueVars
  <2>3. QED BY <2>1, <2>2
<1>6. CASE HandlerDbFails(w)
  BY <1>0, <1>6, GotoType, NothingType
  DEF HandlerDbFails, DbTypeOK, QueueTypeOK, queueVars, dbVars
<1>7. CASE FinishJob(w)
  BY <1>0, <1>7, LeaveType DEF FinishJob, DbTypeOK, QueueTypeOK, dbVars
<1>8. QED
  BY <1>1, <1>2, <1>3, <1>4, <1>5, <1>6, <1>7 DEF WorkerStep

\* What a request may ask for.
Stages == {"ingest", "review", "score", "report"}

LEMMA TypeStep ==
  ASSUME PipelineAssumption, TypeOK, [Next]_vars
  PROVE  TypeOK'
<1> USE DEF TypeOK
<1>1. CASE UNCHANGED vars
  BY <1>1 DEF vars, dbVars, queueVars, actorVars, DbTypeOK, QueueTypeOK, ActorTypeOK
<1>2. ASSUME NEW r \in Runs, NEW parent \in Runs \cup {NoRun}, NewRun(r, parent)
      PROVE  TypeOK'
  <2>1. "trigger_received" \in Statuses
    BY DEF Statuses
  <2>2. QED
    BY <1>2, <2>1 DEF NewRun, DbTypeOK, QueueTypeOK, ActorTypeOK, actorVars
<1>3. ASSUME NEW r \in Runs, Enqueue(r) \/ EnqueueFails(r) \/ GiveUp(r)
      PROVE  TypeOK'
  <2>1. QueueTypeOK'
    BY <1>3 DEF Enqueue, EnqueueFails, GiveUp, QueueTypeOK
  <2>2. DbTypeOK' /\ ActorTypeOK'
    BY <1>3 DEF Enqueue, EnqueueFails, GiveUp, DbTypeOK, ActorTypeOK, dbVars, actorVars
  <2>3. QED BY <2>1, <2>2
<1>4. ASSUME NEW r \in Runs, DeleteRun(r)
      PROVE  TypeOK'
  <2>1. "deleted" \in Statuses
    BY DEF Statuses
  <2>2. QED
    BY <1>4, <2>1 DEF DeleteRun, DbTypeOK, QueueTypeOK, ActorTypeOK, queueVars, actorVars
<1>5. ASSUME NEW q \in Requests, NEW r \in Runs, NEW step \in Stages, StageRequest(q, r, step)
      PROVE  TypeOK'
  <2>1. q \in Actors /\ Stages \subseteq Steps
    BY DEF Actors, Steps, PhaseSteps, Stages
  <2>2. ActorTypeOK'
    BY <1>5, <2>1 DEF StageRequest, ActorTypeOK
  <2>3. QED
    BY <1>5, <2>2 DEF StageRequest, DbTypeOK, QueueTypeOK, dbVars, queueVars
<1>6. ASSUME NEW w \in Workers, NEW r \in Runs, Pick(w, r)
      PROVE  TypeOK'
  <2>1. w \in Actors /\ "ingest" \in Steps
    BY DEF Actors, Steps, PhaseSteps
  <2>2. ActorTypeOK'
    BY <1>6, <2>1 DEF Pick, ActorTypeOK
  <2>3. QueueTypeOK'
    BY <1>6, PipelineAssumption DEF Pick, QueueTypeOK
  <2>4. QED
    BY <1>6, <2>2, <2>3 DEF Pick, DbTypeOK, dbVars
<1>7. ASSUME NEW w \in Workers, Crash(w) \/ JobTimeout(w)
      PROVE  TypeOK'
  <2>1. w \in Actors
    BY DEF Actors
  <2>2. ActorTypeOK'
    BY <1>7, <2>1, LeaveType DEF Crash, JobTimeout
  <2>3. QED
    BY <1>7, <2>2 DEF Crash, JobTimeout, DbTypeOK, QueueTypeOK, dbVars
<1>8. ASSUME NEW q \in Requests, StageStep(q)
      PROVE  TypeOK'
  BY <1>8, StageType, StageLeavesQueue DEF QueueTypeOK, Actors
<1>9. CASE Midnight
  BY <1>9, PipelineAssumption
  DEF Midnight, DbTypeOK, QueueTypeOK, ActorTypeOK, dbVars, queueVars, actorVars
<1>10. QED
  BY <1>1, <1>2, <1>3, <1>4, <1>5, <1>6, <1>7, <1>8, <1>9, WorkerType
  DEF Next, CreateRun, GithubWebhook, GitlabWebhook, RetryRun,
      trigger_ingest, trigger_review, trigger_score, trigger_report, Stages

LEMMA TypeInit == Init => TypeOK
<1>1. Init => DbTypeOK
  BY DEF Init, DbTypeOK, Statuses
<1>2. Init => QueueTypeOK
  BY PipelineAssumption DEF Init, QueueTypeOK
<1>3. Init => ActorTypeOK
  BY NothingType DEF Init, ActorTypeOK, Steps
<1>4. QED BY <1>1, <1>2, <1>3 DEF TypeOK

\* No step of the gateway, of ARQ or of a stage leaves the columns, the queue
\* entries and the actors' positions outside the values the code knows.
THEOREM TypeCorrect == Spec => []TypeOK
<1>1. TypeOK /\ [Next]_vars => TypeOK'
  BY TypeStep, PipelineAssumption
<1>2. QED BY TypeInit, <1>1, PTL DEF Spec

----------------------------------------------------------------------------
(* What one step may do to the database: the facts every invariant below   *)
(* rests on.                                                               *)

Same(r) ==
  /\ status'[r] = status[r] /\ copies'[r] = copies[r] /\ findings'[r] = findings[r]
  /\ scores'[r] = scores[r] /\ report'[r] = report[r]

\* The steps at which a worker is beyond the reset of its run's status.
Working == PhaseSteps \ {"ingest"}

\* A stage of actor a writes its own run's rows only, and only if the run exists.
StageWrites(a, r) ==
  /\ \/ status'[r] = status[r]
     \/ Exists(r) /\ status'[r] \notin {"unborn", "deleted", "completed"}
  /\ copies'[r] = copies[r] \/ Exists(r)
  /\ \/ findings'[r] = findings[r]
     \/ Exists(r) /\ a \in Workers /\ pc[a] = "reviewing"
  /\ \/ scores'[r] = scores[r]
     \/ /\ Exists(r) /\ scores[r] = {} /\ pc[a] = "scoring"
        /\ scores'[r] = {seen[a].findings} /\ status'[r] = "scored"
  /\ \/ report'[r] = report[r]
     \/ /\ Exists(r) /\ ~report[r] /\ report'[r]
        /\ status'[r] = status[r] /\ scores'[r] = scores[r]

LEMMA UpdateStatusEffect ==
  ASSUME DbTypeOK, NEW R \in Runs, NEW s, update_status(R, s)
  PROVE  /\ status'[R] = IF Exists(R) THEN s ELSE status[R]
         /\ \A r \in Runs : r # R => status'[r] = status[r]
BY DEF update_status, DbTypeOK

LEMMA StageEffect ==
  ASSUME TypeOK, NEW a \in Actors, StageStep(a)
  PROVE  /\ pc[a] # "idle" /\ on[a] \in Runs
         /\ \A r \in Runs : r # on[a] => Same(r)
         /\ StageWrites(a, on[a])
<1> USE DEF TypeOK
<1> DEFINE R == on[a]
<1>0. pc[a] # "idle" /\ R \in Runs
  BY DEF StageStep, At, IngestStart, GitFails, IngestDone, ReviewStart, ReviewDone,
         ScoreStart, ScoreDone, ReportStart, ReportWrite, ReportDone, PhaseRaises,
         ActorTypeOK, Steps, PhaseSteps, HandlerSteps
<1>1. CASE UNCHANGED dbVars
  BY <1>0, <1>1 DEF dbVars, Same, StageWrites
<1>2. CASE IngestStart(a)
  BY <1>0, <1>1, <1>2, UpdateStatusEffect DEF IngestStart, Abort, Same, StageWrites
<1>3. CASE GitFails(a)
  BY <1>0, <1>3, UpdateStatusEffect DEF GitFails, update_failed, Same, StageWrites
<1>4. CASE IngestDone(a)
  BY <1>0, <1>1, <1>4, UpdateStatusEffect DEF IngestDone, Abort, Same, StageWrites, DbTypeOK
<1>5. CASE ReviewStart(a)
  BY <1>0, <1>1, <1>5, UpdateStatusEffect DEF ReviewStart, Abort, Same, StageWrites
<1>6. CASE ReviewDone(a)
  <2>1. CASE Abort(a)
    BY <1>1, <2>1 DEF Abort
  <2>2. CASE ~Abort(a)
    <3>1. PICK kept \in SUBSET (1..MaxFindings) :
            /\ kept # {} => a \in Workers
            /\ kept # {} => Exists(R)
            /\ findings' = [findings EXCEPT ![R] = @ \cup ({day} \X kept)]
            /\ update_status(R, "agent_review_completed")
            /\ UNCHANGED <<copies, scores, report>>
      BY <1>6, <2>2 DEF ReviewDone
    <3>2. CASE kept = {}
      <4>1. findings' = findings
        BY <3>1, <3>2, <1>0 DEF DbTypeOK
      <4>2. QED
        BY <1>0, <3>1, <4>1, UpdateStatusEffect DEF Same, StageWrites
    <3>3. CASE kept # {}
      <4>1. pc[a] = "reviewing"
        BY <1>6 DEF ReviewDone, At
      <4>2. \A r \in Runs : r # R => findings'[r] = findings[r]
        BY <1>0, <3>1 DEF DbTypeOK
      <4>3. QED
        BY <1>0, <3>1, <3>3, <4>1, <4>2, UpdateStatusEffect DEF Same, StageWrites
    <3>4. QED BY <3>2, <3>3
  <2>3. QED BY <2>1, <2>2
<1>7. CASE ScoreStart(a)
  BY <1>1, <1>7 DEF ScoreStart, Abort, dbVars
<1>8. CASE ScoreDone(a)
  BY <1>0, <1>1, <1>8, UpdateStatusEffect
  DEF ScoreDone, Scorable, At, Abort, Same, StageWrites, DbTypeOK
<1>9. CASE ReportStart(a)
  BY <1>1, <1>9 DEF ReportStart, Abort, dbVars
<1>10. CASE ReportWrite(a)
  BY <1>1, <1>10 DEF ReportWrite
<1>11. CASE ReportDone(a)
  BY <1>0, <1>1, <1>11 DEF ReportDone, Reportable, Abort, Same, StageWrites, DbTypeOK
<1>12. CASE PhaseRaises(a)
  BY <1>1, <1>12 DEF PhaseRaises, Abort
<1>13. QED
  BY <1>2, <1>3, <1>4, <1>5, <1>6, <1>7, <1>8, <1>9, <1>10, <1>11, <1>12 DEF StageStep

Rest(r) ==
  /\ copies'[r] = copies[r] /\ findings'[r] = findings[r]
  /\ scores'[r] = scores[r] /\ report'[r] = report[r]

Created(r)   == status[r] = "unborn" /\ status'[r] = "trigger_received" /\ Rest(r)
Deleted(r)   == /\ Exists(r) /\ status'[r] = "deleted"
                /\ copies'[r] = 0 /\ findings'[r] = {} /\ scores'[r] = {} /\ ~report'[r]
Staged(r)    == \E a \in Actors : pc[a] # "idle" /\ on[a] = r /\ StageWrites(a, r)
Completed(r) == /\ \E w \in Workers : pc[w] = "finish" /\ on[w] = r
                /\ Exists(r) /\ status'[r] = "completed" /\ Rest(r)

\* The five things that can happen to the rows of a run in one step.
DbStep(r) == Same(r) \/ Created(r) \/ Deleted(r) \/ Staged(r) \/ Completed(r)

\* No step touches the rows of two runs.
OnlyRun(R) == DbStep(R) /\ \A r \in Runs : r # R => Same(r)

LEMMA WorkerEffect ==
  ASSUME TypeOK, NEW w \in Workers, WorkerStep(w)
  PROVE  pc[w] # "idle" /\ on[w] \in Runs /\ OnlyRun(on[w])
<1> USE DEF TypeOK
<1>0. w \in Actors
  BY DEF Actors
<1>1. CASE StageStep(w)
  BY <1>0, <1>1, StageEffect DEF OnlyRun, DbStep, Staged
<1>2. CASE ReviewSkipped(w) \/ ReviewTimeout(w) \/ RecordFailure(w)
  <2>1. /\ pc[w] # "idle" /\ on[w] \in Runs
        /\ copies' = copies /\ findings' = findings /\ scores' = scores /\ report' = report
    BY <1>0, <1>2
    DEF ReviewSkipped, ReviewTimeout, RecordFailure, At, ActorTypeOK, HandlerSteps
  <2>2. PICK s \in {"agent_review_completed", "failed"} : update_status(on[w], s)
    BY <1>2 DEF ReviewSkipped, ReviewTimeout, RecordFailure, update_failed
  <2>3. StageWrites(w, on[w]) /\ \A r \in Runs : r # on[w] => Same(r)
    BY <2>1, <2>2, UpdateStatusEffect DEF Same, StageWrites
  <2>4. QED
    BY <1>0, <2>1, <2>3 DEF OnlyRun, DbStep, Staged
<1>3. CASE Complete(w)
  <2>1. /\ pc[w] = "finish" /\ on[w] \in Runs /\ update_status(on[w], "completed")
        /\ copies' = copies /\ findings' = findings /\ scores' = scores /\ report' = report
    BY <1>0, <1>3 DEF Complete, At, ActorTypeOK
  <2>2. QED
    BY <2>1, UpdateStatusEffect DEF OnlyRun, DbStep, Same, Completed, Rest
<1>4. CASE HandlerDbFails(w) \/ FinishJob(w)
  BY <1>0, <1>4
  DEF HandlerDbFails, FinishJob, HandlerSteps, ActorTypeOK, dbVars, OnlyRun, DbStep, Same
<1>5. QED
  BY <1>1, <1>2, <1>3, <1>4 DEF WorkerStep

LEMMA EffectOnOneRun ==
  ASSUME TypeOK, [Next]_vars
  PROVE  \E R : OnlyRun(R)
<1> USE DEF TypeOK
<1>1. CASE UNCHANGED dbVars
  BY <1>1 DEF dbVars, OnlyRun, DbStep, Same
<1>2. CASE UNCHANGED vars
  BY <1>1, <1>2 DEF vars
<1>3. ASSUME NEW born \in Runs, NEW parent, NewRun(born, parent)
      PROVE  OnlyRun(born)
  BY <1>3 DEF NewRun, OnlyRun, DbStep, Same, Created, Rest, DbTypeOK
<1>4. ASSUME NEW gone \in Runs, DeleteRun(gone)
      PROVE  OnlyRun(gone)
  BY <1>4 DEF DeleteRun, OnlyRun, DbStep, Same, Deleted, DbTypeOK
<1>5. ASSUME NEW s \in Runs, Enqueue(s) \/ EnqueueFails(s) \/ GiveUp(s)
      PROVE  UNCHANGED dbVars
  BY <1>5 DEF Enqueue, EnqueueFails, GiveUp
<1>6. ASSUME NEW a, NEW s, Pick(a, s) \/ \E step \in Stages : StageRequest(a, s, step)
      PROVE  UNCHANGED dbVars
  BY <1>6 DEF StageRequest, Pick
<1>7. ASSUME NEW w, Crash(w) \/ JobTimeout(w)
      PROVE  UNCHANGED dbVars
  BY <1>7 DEF Crash, JobTimeout
<1>8. ASSUME NEW q \in Requests, StageStep(q)
      PROVE  OnlyRun(on[q])
  BY <1>8, StageEffect DEF OnlyRun, DbStep, Staged, Actors
<1>9. CASE Midnight
  BY <1>1, <1>9 DEF Midnight
<1>10. QED
  BY <1>1, <1>2, <1>3, <1>4, <1>5, <1>6, <1>7, <1>8, <1>9, WorkerEffect
  DEF Next, CreateRun, GithubWebhook, GitlabWebhook, RetryRun,
      trigger_ingest, trigger_review, trigger_score, trigger_report, Stages

LEMMA Effect ==
  ASSUME TypeOK, [Next]_vars, NEW r \in Runs
  PROVE  DbStep(r)
BY EffectOnOneRun DEF OnlyRun, DbStep

----------------------------------------------------------------------------
(* Rows and runs *)

\* No interleaving of stages with a deletion leaves a change unit, a finding, a
\* score or a report behind for a run that is not in the database.
THEOREM NoOrphanRows == Spec => []RowsBelongToRuns
<1>1. Init => RowsBelongToRuns
  BY DEF Init, RowsBelongToRuns, Exists
<1>2. TypeOK /\ RowsBelongToRuns /\ [Next]_vars => RowsBelongToRuns'
  <2> SUFFICES ASSUME TypeOK, RowsBelongToRuns, [Next]_vars, NEW r \in Runs, ~Exists(r)'
               PROVE  copies'[r] = 0 /\ findings'[r] = {} /\ scores'[r] = {} /\ ~report'[r]
    BY DEF RowsBelongToRuns
  <2>1. DbStep(r)
    BY Effect
  <2>2. QED
    BY <2>1 DEF DbStep, Same, Created, Deleted, Staged, Completed, StageWrites, Rest,
                RowsBelongToRuns, Exists
<1>3. QED BY <1>1, <1>2, TypeCorrect, PTL DEF Spec

\* However stages, redeliveries and manual requests overlap, a score once
\* written is the run's score until the run is deleted.
THEOREM ScoreIsFinal == Spec => ScoreIsWrittenOnce
<1>1. TypeOK /\ [Next]_vars =>
        [\A r \in Runs :
           scores[r] # {} /\ status'[r] # "deleted" => scores'[r] = scores[r]]_vars
  <2> SUFFICES ASSUME TypeOK, [Next]_vars, NEW r \in Runs,
                      scores[r] # {}, status'[r] # "deleted"
               PROVE  scores'[r] = scores[r]
    OBVIOUS
  <2>1. QED
    BY Effect DEF DbStep, Same, Created, Deleted, Staged, Completed, StageWrites, Rest
<1>2. QED BY <1>1, TypeCorrect, PTL DEF Spec, ScoreIsWrittenOnce

----------------------------------------------------------------------------
(* Completed runs.  A run is announced as completed by the worker that     *)
(* holds its job, at the end of a pipeline in which that worker alone      *)
(* added findings, scored them and wrote the report.  So the invariant has *)
(* to say that a job is held once, that a worker past its ingest has       *)
(* reopened its run, and what each later step of the worker builds on.     *)

\* An actor works on a run that was created, and so never on one that is
\* created behind its back.
Born ==
  /\ \A a \in Actors : pc[a] # "idle" => status[on[a]] # "unborn"
  /\ \A r \in Runs : job[r] # "none" => status[r] # "unborn"

\* At-least-once delivery, but not twice at the same time.
OneSlotPerJob ==
  \A w \in Workers : pc[w] # "idle" =>
    /\ job[on[w]] = "running"
    /\ \A v \in Workers : pc[v] # "idle" /\ on[v] = on[w] => v = w

Late == {"report", "rendered", "reporting", "finish"}

BuildsOn(w) ==
  /\ pc[w] \in Working => status[on[w]] # "completed"
  /\ pc[w] = "scoring" => seen[w].findings = findings[on[w]]
  /\ pc[w] \in Late => scores[on[w]] = {findings[on[w]]}
  /\ pc[w] = "finish" => report[on[w]]

WorkersBuild ==
  \A w \in Workers : pc[w] # "idle" /\ Exists(on[w]) => BuildsOn(w)

CompletedOK ==
  \A r \in Runs : status[r] = "completed" => scores[r] = {findings[r]} /\ report[r]

IInv == TypeOK /\ Born /\ OneSlotPerJob /\ WorkersBuild /\ CompletedOK

\* Where the actors are after a step of one of them.
OthersStay(a) ==
  \A b \in Actors : b # a => pc'[b] = pc[b] /\ on'[b] = on[b] /\ seen'[b] = seen[b]

LEMMA GotoEffect ==
  ASSUME ActorTypeOK, NEW a \in Actors, NEW step, NEW snap, Goto(a, step, snap)
  PROVE  OthersStay(a) /\ pc'[a] = step /\ on'[a] = on[a] /\ seen'[a] = snap
BY DEF Goto, OthersStay, ActorTypeOK

LEMMA LeaveEffect ==
  ASSUME ActorTypeOK, NEW a \in Actors, Leave(a)
  PROVE  OthersStay(a) /\ pc'[a] = "idle"
BY DEF Leave, OthersStay, ActorTypeOK

LEMMA AdvanceEffect ==
  ASSUME ActorTypeOK, NEW a \in Actors, NEW step, Advance(a, step)
  PROVE  /\ OthersStay(a)
         /\ pc'[a] = "idle" \/ (pc'[a] = step /\ on'[a] = on[a])
BY GotoEffect, LeaveEffect DEF Advance

LEMMA AbortEffect ==
  ASSUME ActorTypeOK, NEW a \in Actors, Abort(a)
  PROVE  /\ OthersStay(a) /\ UNCHANGED dbVars
         /\ pc'[a] = "idle" \/ (pc'[a] = "handle" /\ on'[a] = on[a])
BY AdvanceEffect DEF Abort, Raise

\* A stage moves its own actor only, which keeps its run or ends.
LEMMA StageMoves ==
  ASSUME TypeOK, NEW a \in Actors, StageStep(a)
  PROVE  OthersStay(a) /\ (pc'[a] = "idle" \/ on'[a] = on[a])
BY GotoEffect, AdvanceEffect, AbortEffect
DEF TypeOK, StageStep, Raise, IngestStart, GitFails, IngestDone, ReviewStart, ReviewDone,
    ScoreStart, ScoreDone, ReportStart, ReportWrite, ReportDone, PhaseRaises

LEMMA WorkerMoves ==
  ASSUME TypeOK, NEW w \in Workers, WorkerStep(w)
  PROVE  /\ OthersStay(w)
         /\ \/ pc'[w] = "idle" /\ (StageStep(w) \/ FinishJob(w))
            \/ on'[w] = on[w] /\ job' = job
<1>1. w \in Actors
  BY DEF Actors
<1>2. CASE StageStep(w)
  BY <1>1, <1>2, StageMoves, StageLeavesQueue
<1>3. CASE FinishJob(w)
  BY <1>1, <1>3, LeaveEffect DEF FinishJob, TypeOK
<1>4. CASE \/ ReviewSkipped(w) \/ ReviewTimeout(w) \/ Complete(w)
           \/ RecordFailure(w) \/ HandlerDbFails(w)
  <2>1. job' = job
    BY <1>4 DEF ReviewSkipped, ReviewTimeout, Complete, RecordFailure, HandlerDbFails,
                At, queueVars
  <2>2. OthersStay(w) /\ on'[w] = on[w]
    BY <1>1, <1>4, GotoEffect
    DEF ReviewSkipped, ReviewTimeout, Complete, RecordFailure, HandlerDbFails, Advance, TypeOK
  <2>3. QED BY <2>1, <2>2
<1>5. QED BY <1>2, <1>3, <1>4 DEF WorkerStep

\* Each step of a worker establishes what its next step builds on.
LEMMA StageBuilds ==
  ASSUME TypeOK, NEW w \in Workers, StageStep(w),
         Exists(on[w]) => BuildsOn(w),
         pc'[w] # "idle", Exists(on[w])'
  PROVE  BuildsOn(w)'
<1> USE DEF TypeOK
<1> DEFINE R == on[w]
<1>0. /\ w \in Actors /\ R \in Runs /\ on'[w] = R
      /\ StageWrites(w, R) /\ Exists(R) /\ BuildsOn(w)
  <2>1. w \in Actors
    BY DEF Actors
  <2>2. R \in Runs /\ on'[w] = R /\ StageWrites(w, R)
    BY <2>1, StageEffect, StageMoves
  <2>3. Exists(R)
    BY <2>2 DEF StageWrites, Exists
  <2>4. QED BY <2>1, <2>2, <2>3
<1>1. CASE Abort(w)
  BY <1>0, <1>1, AbortEffect DEF BuildsOn, Working, PhaseSteps, Late
<1>2. CASE IngestStart(w) /\ ~Abort(w)
  <2>1. update_status(R, "git_fetching") /\ pc'[w] = "fetching"
    BY <1>0, <1>2, GotoEffect DEF IngestStart
  <2>2. QED
    BY <1>0, <2>1, UpdateStatusEffect DEF BuildsOn, Late
<1>3. CASE GitFails(w)
  BY <1>0, <1>3, AdvanceEffect DEF GitFails, Raise, BuildsOn, Working, PhaseSteps, Late
<1>4. CASE IngestDone(w) /\ ~Abort(w)
  <2>1. update_status(R, "git_ingested") /\ pc'[w] = "review"
    BY <1>0, <1>4, AdvanceEffect DEF IngestDone
  <2>2. QED
    BY <1>0, <2>1, UpdateStatusEffect DEF BuildsOn, Late
<1>5. CASE ReviewStart(w) /\ ~Abort(w)
  <2>1. update_status(R, "agent_review_started") /\ pc'[w] = "reviewing"
    BY <1>0, <1>5, GotoEffect DEF ReviewStart
  <2>2. QED
    BY <1>0, <2>1, UpdateStatusEffect DEF BuildsOn, Late
<1>6. CASE ReviewDone(w) /\ ~Abort(w)
  <2>1. update_status(R, "agent_review_completed") /\ pc'[w] \in {"score", "handle"}
    BY <1>0, <1>6, AdvanceEffect DEF ReviewDone, Raise
  <2>2. QED
    BY <1>0, <2>1, UpdateStatusEffect DEF BuildsOn, Working, PhaseSteps, Late
<1>7. CASE ScoreStart(w) /\ ~Abort(w)
  <2>1. /\ UNCHANGED dbVars /\ pc[w] = "score" /\ pc'[w] = "scoring"
        /\ seen'[w] = [Nothing EXCEPT !.findings = findings[R]]
    BY <1>0, <1>7, GotoEffect DEF ScoreStart, At
  <2>2. seen'[w].findings = findings[R]
    BY <2>1 DEF Nothing
  <2>3. QED
    BY <1>0, <2>1, <2>2 DEF BuildsOn, Working, PhaseSteps, Late, dbVars
<1>8. CASE ScoreDone(w) /\ ~Abort(w)
  <2>1. /\ update_status(R, "scored") /\ pc[w] = "scoring" /\ pc'[w] = "report"
        /\ findings' = findings
        /\ scores' = [scores EXCEPT ![R] = {seen[w].findings}]
    BY <1>0, <1>8, AdvanceEffect DEF ScoreDone, At
  <2>2. scores'[R] = {findings'[R]}
    BY <1>0, <2>1 DEF BuildsOn, DbTypeOK
  <2>3. QED
    BY <1>0, <2>1, <2>2, UpdateStatusEffect DEF BuildsOn
<1>9. CASE ReportStart(w) /\ ~Abort(w)
  <2>1. UNCHANGED dbVars /\ pc[w] = "report" /\ pc'[w] = "rendered"
    BY <1>0, <1>9, GotoEffect DEF ReportStart, At
  <2>2. QED
    BY <1>0, <2>1 DEF BuildsOn, Working, PhaseSteps, Late, dbVars
<1>10. CASE ReportWrite(w)
  <2>1. UNCHANGED dbVars /\ pc[w] = "rendered" /\ pc'[w] = "reporting"
    BY <1>0, <1>10, GotoEffect DEF ReportWrite, At
  <2>2. QED
    BY <1>0, <2>1 DEF BuildsOn, Working, PhaseSteps, Late, dbVars
<1>11. CASE ReportDone(w) /\ ~Abort(w)
  <2>1. /\ pc[w] = "reporting" /\ pc'[w] = "finish"
        /\ report' = [report EXCEPT ![R] = TRUE]
        /\ UNCHANGED <<status, findings, scores>>
    BY <1>0, <1>11, AdvanceEffect DEF ReportDone, At
  <2>2. report'[R]
    BY <1>0, <2>1 DEF DbTypeOK
  <2>3. QED
    BY <1>0, <2>1, <2>2 DEF BuildsOn, Working, PhaseSteps, Late
<1>12. CASE PhaseRaises(w)
  BY <1>1, <1>12 DEF PhaseRaises
<1>13. QED
  BY <1>1, <1>2, <1>3, <1>4, <1>5, <1>6, <1>7, <1>8, <1>9, <1>10, <1>11, <1>12 DEF StageStep

LEMMA WorkerBuilds ==
  ASSUME TypeOK, NEW w \in Workers, WorkerStep(w),
         Exists(on[w]) => BuildsOn(w),
         pc'[w] # "idle", Exists(on[w])'
  PROVE  BuildsOn(w)'
<1>0. w \in Actors /\ on[w] \in Runs
  BY WorkerEffect DEF Actors
<1>1. CASE StageStep(w)
  BY <1>1, StageBuilds
<1>2. CASE ReviewSkipped(w)
  <2>1. update_status(on[w], "agent_review_completed") /\ pc'[w] = "score" /\ on'[w] = on[w]
    BY <1>0, <1>2, GotoEffect DEF ReviewSkipped, Advance, TypeOK
  <2>2. status'[on[w]] # "completed"
    BY <1>0, <2>1, UpdateStatusEffect DEF TypeOK, Exists
  <2>3. QED
    BY <2>1, <2>2 DEF BuildsOn, Late
<1>3. CASE ReviewTimeout(w) \/ Complete(w) \/ RecordFailure(w) \/ HandlerDbFails(w)
  <2>1. pc'[w] \in {"handle_timeout", "ending"}
    BY <1>0, <1>3, GotoEffect
    DEF ReviewTimeout, Complete, RecordFailure, HandlerDbFails, TypeOK
  <2>2. QED
    BY <2>1 DEF BuildsOn, Working, PhaseSteps, Late
<1>4. CASE FinishJob(w)
  BY <1>0, <1>4, LeaveEffect DEF FinishJob, TypeOK
<1>5. QED
  BY <1>1, <1>2, <1>3, <1>4 DEF WorkerStep

\* What a worker builds on survives the steps of others at its run.
LEMMA BystanderBuilds ==
  ASSUME TypeOK, NEW w \in Workers, Exists(on[w]) => BuildsOn(w),
         pc'[w] = pc[w], on'[w] = on[w], seen'[w] = seen[w], Exists(on[w])',
         \/ Same(on[w])
         \/ Deleted(on[w])
         \/ \E q \in Requests : StageWrites(q, on[w])
  PROVE  BuildsOn(w)'
<1>1. Exists(on[w])
  BY DEF Same, Deleted, StageWrites, Exists
<1>2. CASE Same(on[w])
  BY <1>1, <1>2 DEF Same, BuildsOn
<1>3. CASE Deleted(on[w])
  BY <1>3 DEF Deleted, Exists
<1>4. ASSUME NEW q \in Requests, StageWrites(q, on[w])
      PROVE  BuildsOn(w)'
  <2>1. findings'[on[w]] = findings[on[w]]
    BY <1>4, PipelineAssumption DEF StageWrites
  <2>2. pc[w] \in Late => scores'[on[w]] = scores[on[w]]
    BY <1>1, <1>4 DEF StageWrites, BuildsOn
  <2>3. QED
    BY <1>1, <1>4, <2>1, <2>2 DEF StageWrites, BuildsOn
<1>5. QED BY <1>2, <1>3, <1>4

LEMMA BuildsStep ==
  ASSUME IInv, [Next]_vars
  PROVE  WorkersBuild'
<1> USE DEF IInv
<1> SUFFICES ASSUME NEW w \in Workers, pc'[w] # "idle", Exists(on[w])'
             PROVE  BuildsOn(w)'
  BY DEF WorkersBuild
<1>0. /\ w \in Actors
      /\ pc[w] # "idle" => on[w] \in Runs /\ status[on[w]] # "unborn"
      /\ pc[w] # "idle" => (Exists(on[w]) => BuildsOn(w))
  BY DEF Actors, WorkersBuild, Born, TypeOK, ActorTypeOK
<1>1. CASE pc[w] # "idle" /\ pc'[w] = pc[w] /\ on'[w] = on[w] /\ seen'[w] = seen[w]
           /\ (Same(on[w]) \/ Deleted(on[w]) \/ \E q \in Requests : StageWrites(q, on[w]))
  BY <1>0, <1>1, BystanderBuilds
<1>2. CASE UNCHANGED <<dbVars, actorVars>>
  BY <1>0, <1>1, <1>2 DEF dbVars, actorVars, Same
<1>3. ASSUME NEW r \in Runs, NEW parent, NewRun(r, parent)
      PROVE  BuildsOn(w)'
  BY <1>0, <1>1, <1>3 DEF NewRun, Same, actorVars, TypeOK, DbTypeOK
<1>4. ASSUME NEW r \in Runs, DeleteRun(r)
      PROVE  BuildsOn(w)'
  BY <1>0, <1>1, <1>4 DEF DeleteRun, Same, Deleted, actorVars, TypeOK, DbTypeOK
<1>5. ASSUME NEW q \in Requests, NEW r \in Runs, NEW step \in Stages, StageRequest(q, r, step)
      PROVE  BuildsOn(w)'
  <2>1. q # w
    BY PipelineAssumption
  <2>2. QED
    BY <1>0, <1>1, <1>5, <2>1 DEF StageRequest, Same, dbVars, TypeOK, ActorTypeOK
<1>6. ASSUME NEW v \in Workers, NEW r \in Runs, Pick(v, r)
      PROVE  BuildsOn(w)'
  <2>1. CASE v # w
    BY <1>0, <1>1, <1>6, <2>1 DEF Pick, Same, dbVars, TypeOK, ActorTypeOK
  <2>2. CASE v = w
    BY <1>0, <1>6, <2>2 DEF Pick, TypeOK, ActorTypeOK, BuildsOn, Working, Late
  <2>3. QED BY <2>1, <2>2
<1>7. ASSUME NEW v \in Workers, Crash(v) \/ JobTimeout(v)
      PROVE  BuildsOn(w)'
  <2>1. v \in Actors /\ Leave(v) /\ UNCHANGED dbVars
    BY <1>7 DEF Crash, JobTimeout, Actors
  <2>2. OthersStay(v) /\ v # w
    BY <2>1, LeaveEffect DEF TypeOK
  <2>3. QED
    BY <1>0, <1>1, <2>1, <2>2 DEF OthersStay, Same, dbVars
<1>8. ASSUME NEW q \in Requests, StageStep(q)
      PROVE  BuildsOn(w)'
  <2>1. q \in Actors /\ q # w
    BY PipelineAssumption DEF Actors
  <2>2. OthersStay(q)
    BY <1>8, <2>1, StageMoves
  <2>3. Same(on[w]) \/ StageWrites(q, on[w])
    BY <1>0, <1>8, <2>1, <2>2, StageEffect DEF OthersStay
  <2>4. QED
    BY <1>0, <1>1, <2>1, <2>2, <2>3 DEF OthersStay
<1>9. ASSUME NEW v \in Workers, WorkerStep(v)
      PROVE  BuildsOn(w)'
  <2>1. v \in Actors /\ OthersStay(v) /\ OnlyRun(on[v]) /\ pc[v] # "idle"
    BY <1>9, WorkerMoves, WorkerEffect DEF Actors
  <2>2. CASE v # w
    <3>1. pc[w] # "idle" /\ on[w] # on[v]
      BY <1>0, <2>1, <2>2 DEF OthersStay, OneSlotPerJob
    <3>2. Same(on[w])
      BY <1>0, <2>1, <3>1 DEF OnlyRun
    <3>3. QED
      BY <1>0, <1>1, <2>1, <2>2, <3>1, <3>2 DEF OthersStay
  <2>3. CASE v = w
    <3>1. on'[w] = on[w]
      BY <1>9, <2>3, WorkerMoves, StageMoves, <1>0
    <3>2. QED
      BY <1>0, <1>9, <2>1, <2>3, <3>1, WorkerBuilds
  <2>4. QED BY <2>2, <2>3
<1>10. CASE Midnight
  BY <1>2, <1>10 DEF Midnight
<1>11. ASSUME NEW r \in Runs, Enqueue(r) \/ EnqueueFails(r) \/ GiveUp(r)
       PROVE  BuildsOn(w)'
  BY <1>2, <1>11 DEF Enqueue, EnqueueFails, GiveUp
<1>12. CASE UNCHANGED vars
  BY <1>2, <1>12 DEF vars
<1>13. QED
  BY <1>3, <1>4, <1>5, <1>6, <1>7, <1>8, <1>9, <1>10, <1>11, <1>12
  DEF Next, CreateRun, GithubWebhook, GitlabWebhook, RetryRun,
      trigger_ingest, trigger_review, trigger_score, trigger_report, Stages

\* The database half of the invariant.
LEMMA CompletedStep ==
  ASSUME IInv, [Next]_vars
  PROVE  CompletedOK'
<1> USE DEF IInv
<1> SUFFICES ASSUME NEW r \in Runs, status'[r] = "completed"
             PROVE  scores'[r] = {findings'[r]} /\ report'[r]
  BY DEF CompletedOK
<1>1. DbStep(r)
  BY Effect
<1>2. CASE Same(r)
  BY <1>2 DEF Same, CompletedOK
<1>3. CASE Created(r) \/ Deleted(r)
  BY <1>3 DEF Created, Deleted
<1>4. CASE Staged(r)
  <2>1. PICK a \in Actors : pc[a] # "idle" /\ on[a] = r /\ StageWrites(a, r)
    BY <1>4 DEF Staged
  <2>2. status[r] = "completed" /\ Exists(r)
    BY <2>1 DEF StageWrites, Exists
  <2>3. scores[r] = {findings[r]} /\ report[r]
    BY <2>2 DEF CompletedOK
  <2>4. findings'[r] = findings[r]
    BY <2>1, <2>2 DEF StageWrites, WorkersBuild, BuildsOn, Working, PhaseSteps
  <2>5. QED
    BY <2>1, <2>3, <2>4 DEF StageWrites
<1>5. CASE Completed(r)
  BY <1>5 DEF Completed, Rest, WorkersBuild, BuildsOn, Late
<1>6. QED BY <1>1, <1>2, <1>3, <1>4, <1>5 DEF DbStep

\* Once created, a run is never unborn again.
LEMMA StaysBorn ==
  ASSUME TypeOK, [Next]_vars, NEW r \in Runs, status[r] # "unborn"
  PROVE  status'[r] # "unborn"
<1>1. DbStep(r)
  BY Effect
<1>2. QED
  BY <1>1 DEF DbStep, Same, Created, Deleted, Staged, Completed, StageWrites

LEMMA BornStep ==
  ASSUME IInv, [Next]_vars
  PROVE  Born'
<1> USE DEF IInv, TypeOK
<1> DEFINE ActorsBorn == \A a \in Actors : pc[a] # "idle" => status[on[a]] # "unborn"
           JobsBorn   == \A r \in Runs : job[r] # "none" => status[r] # "unborn"
<1>1. ASSUME NEW b \in Actors, OthersStay(b), pc'[b] = "idle" \/ on'[b] = on[b], pc[b] # "idle"
      PROVE  ActorsBorn'
  BY <1>1, StaysBorn DEF OthersStay, ActorTypeOK, Born
<1>2. ASSUME UNCHANGED actorVars
      PROVE  ActorsBorn'
  BY <1>2, StaysBorn DEF actorVars, ActorTypeOK, Born
<1>3. ASSUME \A r \in Runs : job'[r] # "none" => job[r] # "none" \/ status'[r] # "unborn"
      PROVE  JobsBorn'
  BY <1>3, StaysBorn DEF Born
<1>4. ASSUME NEW r \in Runs, NEW parent, NewRun(r, parent)
      PROVE  ActorsBorn' /\ JobsBorn'
  <2>1. \A s \in Runs : job'[s] # "none" => job[s] # "none" \/ status'[s] # "unborn"
    BY <1>4 DEF NewRun, DbTypeOK, QueueTypeOK
  <2>2. QED BY <1>2, <1>3, <1>4, <2>1 DEF NewRun
<1>5. ASSUME NEW r \in Runs, Enqueue(r) \/ EnqueueFails(r) \/ GiveUp(r)
      PROVE  ActorsBorn' /\ JobsBorn'
  <2>1. \A s \in Runs : job'[s] # "none" => job[s] # "none"
    BY <1>5 DEF Enqueue, EnqueueFails, GiveUp, QueueTypeOK
  <2>2. QED BY <1>2, <1>3, <1>5, <2>1 DEF Enqueue, EnqueueFails, GiveUp
<1>6. ASSUME NEW r \in Runs, DeleteRun(r)
      PROVE  ActorsBorn' /\ JobsBorn'
  BY <1>2, <1>3, <1>6 DEF DeleteRun, queueVars
<1>7. ASSUME NEW q \in Requests, NEW r \in Runs, NEW step \in Stages, StageRequest(q, r, step)
      PROVE  ActorsBorn' /\ JobsBorn'
  <2>1. status[r] # "unborn" /\ status' = status
    BY <1>7 DEF StageRequest, Exists, dbVars
  <2>2. ActorsBorn'
    BY <1>7, <2>1 DEF StageRequest, ActorTypeOK, Born
  <2>3. QED BY <1>3, <1>7, <2>2 DEF StageRequest, queueVars
<1>8. ASSUME NEW w \in Workers, NEW r \in Runs, Pick(w, r)
      PROVE  ActorsBorn' /\ JobsBorn'
  <2>1. status[r] # "unborn" /\ status' = status
    BY <1>8 DEF Pick, Born, dbVars
  <2>2. ActorsBorn'
    BY <1>8, <2>1 DEF Pick, ActorTypeOK, Born
  <2>3. \A s \in Runs : job'[s] # "none" => job[s] # "none"
    BY <1>8 DEF Pick, QueueTypeOK
  <2>4. QED BY <1>3, <2>2, <2>3
<1>9. ASSUME NEW w \in Workers, Crash(w) \/ JobTimeout(w) \/ FinishJob(w)
      PROVE  ActorsBorn' /\ JobsBorn'
  <2>1. w \in Actors /\ OthersStay(w) /\ pc'[w] = "idle" /\ pc[w] # "idle"
    BY <1>9, LeaveEffect
    DEF Crash, JobTimeout, FinishJob, Actors, PhaseSteps, HandlerSteps
  <2>2. job[on[w]] = "none" \/ \A s \in Runs : job'[s] # "none" => job[s] # "none"
    BY <1>9 DEF Crash, JobTimeout, FinishJob, QueueTypeOK
  <2>3. job[on[w]] # "none"
    BY <1>9, <2>1 DEF OneSlotPerJob
  <2>4. QED BY <1>1, <1>3, <2>1, <2>2, <2>3
<1>10. ASSUME NEW q \in Requests, StageStep(q)
       PROVE  ActorsBorn' /\ JobsBorn'
  BY <1>1, <1>3, <1>10, StageMoves, StageEffect, StageLeavesQueue DEF Actors
<1>11. ASSUME NEW w \in Workers, WorkerStep(w)
       PROVE  ActorsBorn' /\ JobsBorn'
  <2>1. CASE FinishJob(w)
    BY <1>9, <2>1
  <2>2. CASE ~FinishJob(w)
    BY <1>1, <1>3, <1>11, <2>2, WorkerMoves, WorkerEffect, StageLeavesQueue DEF Actors
  <2>3. QED BY <2>1, <2>2
<1>12. CASE Midnight
  BY <1>2, <1>3, <1>12 DEF Midnight, queueVars, Born
<1>13. CASE UNCHANGED vars
  BY <1>2, <1>3, <1>13 DEF vars, queueVars, Born
<1>14. QED
  BY <1>4, <1>5, <1>6, <1>7, <1>8, <1>9, <1>10, <1>11, <1>12, <1>13
  DEF Next, CreateRun, GithubWebhook, GitlabWebhook, RetryRun,
      trigger_ingest, trigger_review, trigger_score, trigger_report, Stages, Born

LEMMA OneSlotStep ==
  ASSUME IInv, [Next]_vars
  PROVE  OneSlotPerJob'
<1> USE DEF IInv, TypeOK
<1>1. ASSUME UNCHANGED actorVars,
             \A r \in Runs : job[r] = "running" => job'[r] = "running"
      PROVE  OneSlotPerJob'
  BY <1>1 DEF actorVars, OneSlotPerJob, ActorTypeOK, Actors
<1>2. ASSUME NEW b \in Actors, OthersStay(b), pc[b] # "idle",
             pc'[b] = "idle" \/ on'[b] = on[b], UNCHANGED job
      PROVE  OneSlotPerJob'
  BY <1>2 DEF OthersStay, OneSlotPerJob, ActorTypeOK, Actors
<1>3. ASSUME NEW r \in Runs, NEW parent, NewRun(r, parent)
      PROVE  OneSlotPerJob'
  BY <1>1, <1>3 DEF NewRun, Born, QueueTypeOK
<1>4. ASSUME NEW r \in Runs, Enqueue(r) \/ EnqueueFails(r) \/ GiveUp(r)
      PROVE  OneSlotPerJob'
  BY <1>1, <1>4 DEF Enqueue, EnqueueFails, GiveUp, QueueTypeOK
<1>5. ASSUME NEW r \in Runs, DeleteRun(r)
      PROVE  OneSlotPerJob'
  BY <1>1, <1>5 DEF DeleteRun, queueVars
<1>6. ASSUME NEW q \in Requests, NEW r \in Runs, NEW step \in Stages, StageRequest(q, r, step)
      PROVE  OneSlotPerJob'
  <2>1. \A w \in Workers : pc'[w] = pc[w] /\ on'[w] = on[w]
    BY <1>6, PipelineAssumption DEF StageRequest, ActorTypeOK, Actors
  <2>2. QED
    BY <1>6, <2>1 DEF StageRequest, queueVars, OneSlotPerJob
<1>7. ASSUME NEW w \in Workers, NEW r \in Runs, Pick(w, r)
      PROVE  OneSlotPerJob'
  <2>1. /\ \A v \in Workers : v # w => pc'[v] = pc[v] /\ on'[v] = on[v]
        /\ on'[w] = r /\ job'[r] = "running"
        /\ \A s \in Runs : s # r => job'[s] = job[s]
    BY <1>7 DEF Pick, ActorTypeOK, QueueTypeOK, Actors
  <2>2. \A v \in Workers : pc[v] # "idle" => on[v] # r /\ on[v] \in Runs
    BY <1>7 DEF Pick, OneSlotPerJob, ActorTypeOK, Actors
  <2>3. QED
    BY <2>1, <2>2 DEF OneSlotPerJob
<1>8. ASSUME NEW w \in Workers, Crash(w) \/ JobTimeout(w) \/ FinishJob(w)
      PROVE  OneSlotPerJob'
  <2>1. w \in Actors /\ OthersStay(w) /\ pc'[w] = "idle" /\ pc[w] # "idle" /\ on[w] \in Runs
    BY <1>8, LeaveEffect
    DEF Crash, JobTimeout, FinishJob, ActorTypeOK, Actors, PhaseSteps, HandlerSteps
  <2>2. \A r \in Runs : r # on[w] => job'[r] = job[r]
    BY <1>8 DEF Crash, JobTimeout, FinishJob, QueueTypeOK
  <2>3. \A v \in Workers : pc'[v] # "idle" =>
          /\ v # w /\ pc[v] # "idle" /\ on'[v] = on[v] /\ on[v] \in Runs
          /\ on[v] # on[w]
    BY <2>1 DEF OthersStay, OneSlotPerJob, ActorTypeOK, Actors
  <2>4. QED
    BY <2>2, <2>3 DEF OneSlotPerJob
<1>9. ASSUME NEW q \in Requests, StageStep(q)
      PROVE  OneSlotPerJob'
  BY <1>2, <1>9, StageMoves, StageEffect, StageLeavesQueue DEF Actors
<1>10. ASSUME NEW w \in Workers, WorkerStep(w)
       PROVE  OneSlotPerJob'
  <2>1. CASE FinishJob(w)
    BY <1>8, <2>1
  <2>2. CASE ~FinishJob(w)
    BY <1>2, <1>10, <2>2, WorkerMoves, WorkerEffect, StageLeavesQueue DEF Actors
  <2>3. QED BY <2>1, <2>2
<1>11. CASE Midnight
  BY <1>1, <1>11 DEF Midnight, queueVars
<1>12. CASE UNCHANGED vars
  BY <1>1, <1>12 DEF vars, queueVars
<1>13. QED
  BY <1>3, <1>4, <1>5, <1>6, <1>7, <1>8, <1>9, <1>10, <1>11, <1>12
  DEF Next, CreateRun, GithubWebhook, GitlabWebhook, RetryRun,
      trigger_ingest, trigger_review, trigger_score, trigger_report, Stages

\* The inductive invariant: one slot per job, each worker builds on what it did.
THEOREM Inductive == Spec => []IInv
<1>1. Init => IInv
  <2> SUFFICES ASSUME Init PROVE Born /\ OneSlotPerJob /\ WorkersBuild /\ CompletedOK
    BY TypeInit DEF IInv
  <2> QED
    BY DEF Init, Born, OneSlotPerJob, WorkersBuild, CompletedOK, Actors
<1>2. IInv /\ [Next]_vars => IInv'
  BY TypeStep, BornStep, OneSlotStep, BuildsStep, CompletedStep, PipelineAssumption DEF IInv
<1>3. QED BY <1>1, <1>2, PTL DEF Spec

\* A run shown as completed has its score and its report, however often its job
\* was delivered and whatever was deleted or requested by hand meanwhile.
THEOREM CompletedRunsHaveResults == Spec => []CompletedHasResults
<1>1. IInv => CompletedHasResults
  BY DEF IInv, CompletedOK, CompletedHasResults
<1>2. QED BY <1>1, Inductive, PTL

\* The score of a completed run is the score of exactly its findings.
THEOREM CompletedScoreIsCurrent == Spec => []CompletedScoreCoversFindings
<1>1. IInv => CompletedScoreCoversFindings
  BY DEF IInv, CompletedOK, CompletedScoreCoversFindings
<1>2. QED BY <1>1, Inductive, PTL

----------------------------------------------------------------------------
(* Refinement *)

\* What readers of the gateway rely on is kept: each step of the pipeline is a
\* step of RunLifecycle at one run, or none.
THEOREM Refinement == Spec => ImplementsLifecycle
<1> DEFINE ph == [r \in Runs |-> PhaseOf(status[r])]
           sc == [r \in Runs |-> scores[r] # {}]
<1>1. Init => Lifecycle!Init
  BY DEF Init, Lifecycle!Init, PhaseOf
<1>2. IInv /\ [Next]_vars => [Lifecycle!Next]_(Lifecycle!vars)
  <2> SUFFICES ASSUME IInv, [Next]_vars
               PROVE  Lifecycle!Next \/ UNCHANGED Lifecycle!vars
    OBVIOUS
  <2>0. TypeOK /\ TypeOK'
    BY TypeStep, PipelineAssumption DEF IInv
  <2>1. PICK R : OnlyRun(R)
    BY <2>0, EffectOnOneRun
  <2>2. /\ report \in [Runs -> BOOLEAN] /\ report' \in [Runs -> BOOLEAN]
        /\ scores \in [Runs -> SUBSET SUBSET FindingId]
        /\ \A r \in Runs : status[r] \in Statuses /\ status'[r] \in Statuses
    BY <2>0 DEF TypeOK, DbTypeOK
  <2>3. ASSUME R \in Runs => scores'[R] = scores[R] /\ report'[R] = report[R]
        PROVE  sc' = sc /\ report' = report
    <3>1. \A r \in Runs : scores'[r] = scores[r] /\ report'[r] = report[r]
      BY <2>1, <2>3 DEF OnlyRun, Same
    <3>2. QED BY <2>2, <3>1
  <2>4. CASE R \notin Runs \/ Same(R)
    <3>1. \A r \in Runs : Same(r)
      BY <2>1, <2>4 DEF OnlyRun
    <3>2. ph' = ph /\ sc' = sc /\ report' = report
      BY <2>2, <3>1 DEF Same
    <3>3. QED BY <3>2 DEF Lifecycle!vars
  <2>5. CASE R \in Runs /\ ~Same(R)
    <3> DEFINE p == PhaseOf(status'[R])
    <3>1. /\ ph' = [ph EXCEPT ![R] = p]
          /\ sc' = [sc EXCEPT ![R] = (scores'[R] # {})]
          /\ report' = [report EXCEPT ![R] = report'[R]]
      BY <2>1, <2>2, <2>5 DEF OnlyRun, Same
    <3> HIDE DEF p
    <3>2. /\ ph[R] = PhaseOf(status[R])
          /\ sc[R] = (scores[R] # {})
          /\ Exists(R) => ph[R] \in Lifecycle!Live
      BY <2>2, <2>5 DEF Exists, PhaseOf, Lifecycle!Live, Statuses, Terminal
    <3>3. CASE Created(R)
      <4>1. ph[R] = "none" /\ p = "open"
        BY <3>2, <3>3 DEF Created, PhaseOf, p
      <4>2. sc' = sc /\ report' = report
        BY <2>3, <3>3 DEF Created, Rest
      <4>3. Lifecycle!Open(R)
        BY <3>1, <4>1, <4>2 DEF Lifecycle!Open, Lifecycle!Become
      <4>4. QED BY <2>5, <4>3 DEF Lifecycle!Next
    <3>4. CASE Deleted(R)
      <4>1. ph[R] \in Lifecycle!Live /\ p = "gone" /\ scores'[R] = {} /\ report'[R] = FALSE
        BY <2>2, <2>5, <3>2, <3>4 DEF Deleted, PhaseOf, p
      <4>2. Lifecycle!Delete(R)
        BY <3>1, <4>1 DEF Lifecycle!Delete, Lifecycle!Become
      <4>3. QED BY <2>5, <4>2 DEF Lifecycle!Next
    <3>5. CASE Completed(R)
      <4>1. scores'[R] # {} /\ report'[R]
        BY <2>5, <3>5, CompletedStep DEF Completed, CompletedOK
      <4>2. ph[R] \in Lifecycle!Live /\ p = "succeeded" /\ sc[R] /\ report[R]
        BY <3>2, <3>5, <4>1 DEF Completed, Rest, PhaseOf, p
      <4>3. sc' = sc /\ report' = report
        BY <2>3, <3>5 DEF Completed, Rest
      <4>4. Lifecycle!Succeed(R)
        BY <3>1, <4>2, <4>3 DEF Lifecycle!Succeed, Lifecycle!Become
      <4>5. QED BY <2>5, <4>4 DEF Lifecycle!Next
    <3>6. CASE Staged(R)
      <4>1. PICK a \in Actors : StageWrites(a, R)
        BY <3>6 DEF Staged
      <4>2. CASE report'[R] # report[R]
        <5>1. /\ ph[R] \in Lifecycle!Live /\ report[R] = FALSE /\ report'[R] = TRUE
              /\ status'[R] = status[R] /\ scores'[R] = scores[R]
          BY <2>2, <2>5, <3>2, <4>1, <4>2 DEF StageWrites
        <5>2. ph' = ph /\ sc' = sc
          BY <3>1, <3>2, <5>1 DEF p
        <5>3. Lifecycle!RecordReport(R)
          BY <3>1, <5>1, <5>2 DEF Lifecycle!RecordReport
        <5>4. QED BY <2>5, <5>3 DEF Lifecycle!Next
      <4>3. CASE scores'[R] # scores[R]
        <5>1. /\ ph[R] \in Lifecycle!Live /\ p = "open" /\ report'[R] = report[R]
              /\ scores[R] = {} /\ scores'[R] # {}
          BY <3>2, <4>1, <4>3 DEF StageWrites, PhaseOf, p
        <5>2. report' = report
          BY <2>2, <3>1, <5>1
        <5>3. Lifecycle!RecordScore(R)
          BY <3>1, <3>2, <5>1, <5>2 DEF Lifecycle!RecordScore, Lifecycle!Become
        <5>4. QED BY <2>5, <5>3 DEF Lifecycle!Next
      <4>4. CASE report'[R] = report[R] /\ scores'[R] = scores[R]
        <5>1. sc' = sc /\ report' = report
          BY <2>3, <4>4
        <5>2. CASE status'[R] = status[R]
          BY <3>1, <3>2, <5>1, <5>2 DEF Lifecycle!vars, p
        <5>3. CASE status'[R] # status[R]
          <6>1. ph[R] \in Lifecycle!Live /\ p \in {"open", "failed"}
            BY <2>2, <2>5, <3>2, <4>1, <5>3 DEF StageWrites, PhaseOf, p
          <6>2. Lifecycle!Work(R) \/ Lifecycle!Fail(R)
            BY <3>1, <5>1, <6>1 DEF Lifecycle!Work, Lifecycle!Fail, Lifecycle!Become
          <6>3. QED BY <2>5, <6>2 DEF Lifecycle!Next
        <5>4. QED BY <5>2, <5>3
      <4>5. QED BY <4>2, <4>3, <4>4
    <3>7. QED BY <2>1, <2>5, <3>3, <3>4, <3>5, <3>6 DEF OnlyRun, DbStep
  <2>6. QED BY <2>4, <2>5
<1>3. QED
  BY <1>1, <1>2, Inductive, PTL DEF Spec, ImplementsLifecycle, Lifecycle!Spec
============================================================================
