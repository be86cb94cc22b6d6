---------------------------- MODULE RunPipeline ----------------------------
(***************************************************************************)
(* The life of an analysis run: the gateway's handlers that create, retry  *)
(* and delete runs and that start single stages by hand, the ARQ queue     *)
(* that delivers a job at least once, and the worker's full_pipeline.      *)
(*                                                                         *)
(* Every action is one database transaction (or one write to the disk or   *)
(* the queue) of one actor.  Between two actions of an actor every other   *)
(* actor may move, so what a stage read before an await may be stale when  *)
(* it commits.  The database contributes its constraints: a child row of a *)
(* missing run, a second score or report of a run and a second finding     *)
(* with the same finding_id are refused, and the refusal poisons the       *)
(* session, so that the whole transaction is lost.                         *)
(***************************************************************************)
EXTENDS Naturals

CONSTANTS Runs,         \* run ids the database may hand out
          Workers,      \* job slots of the worker process (max_jobs)
          Requests,     \* concurrent manual stage requests of the gateway
          NoRun,        \* what an idle actor is working on
          MaxDay,       \* bound: UTC days the behaviour spans
          MaxFindings,  \* bound: findings one review produces
          MaxTries,     \* deliveries of a job before ARQ gives up
          Faults        \* the faults the environment may inject

ASSUME PipelineAssumption ==
  /\ NoRun \notin Runs
  /\ Workers \cap Requests = {}
  /\ MaxDay \in Nat \ {0} /\ MaxFindings \in Nat /\ MaxTries \in Nat \ {0}
  /\ Faults \subseteq {"crash", "job_timeout", "handler_db", "queue"}

VARIABLES
  status,    \* analysis_runs.status, "unborn" before and "deleted" after
  reason,    \* analysis_runs.failure_reason
  retryOf,   \* trigger_events: the run a retry was made from
  copies,    \* change_units: how often the diff was inserted, 2 for "more"
  findings,  \* findings: the finding_ids of each run
  scores,    \* scores: the rows of each run, each the findings it is of
  report,    \* reports: whether the run has a row
  file,      \* REPORTS_DIR: what the report on disk was rendered from
  job,       \* the queue entry of each run
  tries,     \* how often the job was delivered
  day,       \* the UTC date review stamps on finding_ids
  pc, on, seen  \* each actor: next step, its run, what it has read

dbVars    == <<status, reason, retryOf, copies, findings, scores, report>>
queueVars == <<job, tries>>
actorVars == <<pc, on, seen>>
vars      == <<dbVars, file, queueVars, day, actorVars>>

Actors    == Workers \cup Requests
FindingId == (1..MaxDay) \X (1..MaxFindings)

RETRYABLE_STATUSES == {"failed"}  \* nothing sets the other two
Terminal == {"completed", "failed"}
Statuses == {"unborn", "trigger_received", "git_fetching", "git_ingested",
             "agent_review_started", "agent_review_completed", "scored",
             "deleted"} \cup Terminal

\* The steps of a phase, of the failure handler, and of leaving the job.
PhaseSteps   == {"ingest", "fetching", "review", "reviewing", "score",
                 "scoring", "report", "rendered", "reporting", "finish"}
HandlerSteps == {"handle", "handle_timeout"}
Steps        == {"idle", "ending"} \cup PhaseSteps \cup HandlerSteps

Snapshot == [copies : 0..2, findings : SUBSET FindingId,
             scores : SUBSET SUBSET FindingId]
Rendering == [findings : SUBSET FindingId, scores : SUBSET SUBSET FindingId]
Nothing  == [copies |-> 0, findings |-> {}, scores |-> {}]

Init ==
  /\ status = [r \in Runs |-> "unborn"]
  /\ reason = [r \in Runs |-> "none"]
  /\ retryOf = [r \in Runs |-> NoRun]
  /\ copies = [r \in Runs |-> 0]
  /\ findings = [r \in Runs |-> {}]
  /\ scores = [r \in Runs |-> {}]
  /\ report = [r \in Runs |-> FALSE]
  /\ file = [r \in Runs |-> {}]
  /\ job = [r \in Runs |-> "none"]
  /\ tries = [r \in Runs |-> 0]
  /\ day = 1
  /\ pc = [a \in Actors |-> "idle"]
  /\ on = [a \in Actors |-> NoRun]
  /\ seen = [a \in Actors |-> Nothing]

----------------------------------------------------------------------------
(* Shared steps *)

Exists(r) == status[r] \notin {"unborn", "deleted"}

\* Fault: writes the row whether it is there or not.
update_status_Upsert(r, s) == status' = [status EXCEPT ![r] = s]

\* The DAO returns None for a missing run and its callers do not look.
update_status(r, s) ==
  status' = IF Exists(r) THEN [status EXCEPT ![r] = s] ELSE status

\* As update_status with a failure_reason, which replaces an earlier one.
update_failed(r, why) ==
  /\ update_status(r, "failed")
  /\ reason' = IF Exists(r) THEN [reason EXCEPT ![r] = why] ELSE reason

Goto(a, step, snap) ==
  /\ pc' = [pc EXCEPT ![a] = step]
  /\ seen' = [seen EXCEPT ![a] = snap]
  /\ UNCHANGED on

Leave(a) ==
  /\ pc' = [pc EXCEPT ![a] = "idle"]
  /\ on' = [on EXCEPT ![a] = NoRun]
  /\ seen' = [seen EXCEPT ![a] = Nothing]

\* The worker goes on to another phase; a request has only the one.
Advance(a, step) ==
  IF a \in Workers THEN Goto(a, step, Nothing) ELSE Leave(a)

\* Fault: the phases' exceptions are swallowed.
Raise_Swallowed(a) == Advance(a, "finish")

\* An exception: the session rolls back, the worker's handler takes over
\* and a request answers with an error.
Raise(a) == Advance(a, "handle")
Abort(a) == Raise(a) /\ UNCHANGED <<dbVars, file>>

At(a, step) == pc[a] = step /\ UNCHANGED <<queueVars, day>>

----------------------------------------------------------------------------
(* Gateway: analysis_runs.py, webhook.py, webhook_gitlab.py *)

NewRun(r, parent) ==
  /\ status[r] = "unborn"
  /\ status' = [status EXCEPT ![r] = "trigger_received"]
  /\ retryOf' = [retryOf EXCEPT ![r] = parent]
  /\ job' = [job EXCEPT ![r] = "pending"]
  /\ UNCHANGED <<reason, copies, findings, scores, report, file, tries, day,
                 actorVars>>

\* The row is committed first and the job enqueued after.  A webhook that is
\* delivered again creates another run: nothing remembers the delivery.
CreateRun(r)     == NewRun(r, NoRun)
GithubWebhook(r) == NewRun(r, NoRun)
GitlabWebhook(r) == NewRun(r, NoRun)

RetryRun(original, r) ==
  /\ status[original] \in RETRYABLE_STATUSES
  /\ NewRun(r, original)

Enqueue(r) ==
  /\ job[r] = "pending"
  /\ job' = [job EXCEPT ![r] = "queued"]
  /\ UNCHANGED <<dbVars, file, tries, day, actorVars>>

\* "refused": enqueue_job raised, and db.rollback() after the commit undoes
\* nothing.  "unqueued": no pool, or the process died before enqueueing.
EnqueueFails(r) ==
  /\ "queue" \in Faults
  /\ job[r] = "pending"
  /\ \E outcome \in {"refused", "unqueued"} :
       job' = [job EXCEPT ![r] = outcome]
  /\ UNCHANGED <<dbVars, file, tries, day, actorVars>>

\* Every table's rows go in one transaction; the report file and the queue
\* entry stay.
DeleteRun(r) ==
  /\ Exists(r)
  /\ status' = [status EXCEPT ![r] = "deleted"]
  /\ reason' = [reason EXCEPT ![r] = "none"]
  /\ copies' = [copies EXCEPT ![r] = 0]
  /\ findings' = [findings EXCEPT ![r] = {}]
  /\ scores' = [scores EXCEPT ![r] = {}]
  /\ report' = [report EXCEPT ![r] = FALSE]
  /\ UNCHANGED <<retryOf, file, queueVars, day, actorVars>>

\* None of the manual endpoints looks at the status.
StageRequest(q, r, step) ==
  /\ pc[q] = "idle"
  /\ Exists(r)
  /\ pc' = [pc EXCEPT ![q] = step]
  /\ on' = [on EXCEPT ![q] = r]
  /\ UNCHANGED <<dbVars, file, queueVars, day, seen>>

trigger_ingest(q, r) == StageRequest(q, r, "ingest")
trigger_review(q, r) == StageRequest(q, r, "review")
trigger_score(q, r)  == StageRequest(q, r, "score")
trigger_report(q, r) == StageRequest(q, r, "report")

----------------------------------------------------------------------------
(* ARQ: a job leaves the queue only when its function has ended. *)

Pick(w, r) ==
  /\ pc[w] = "idle"
  /\ job[r] = "queued"
  /\ tries[r] < MaxTries
  /\ job' = [job EXCEPT ![r] = "running"]
  /\ tries' = [tries EXCEPT ![r] = @ + 1]
  /\ pc' = [pc EXCEPT ![w] = "ingest"]
  /\ on' = [on EXCEPT ![w] = r]
  /\ UNCHANGED <<dbVars, file, day, seen>>

GiveUp(r) ==
  /\ job[r] = "queued"
  /\ tries[r] = MaxTries
  /\ job' = [job EXCEPT ![r] = "exhausted"]
  /\ UNCHANGED <<dbVars, file, tries, day, actorVars>>

\* The worker process dies or is shut down: the job is delivered again.
Crash(w) ==
  /\ "crash" \in Faults
  /\ pc[w] # "idle"
  /\ job' = [job EXCEPT ![on[w]] = "queued"]
  /\ Leave(w)
  /\ UNCHANGED <<dbVars, file, tries, day>>

\* job_timeout cancels the task; CancelledError passes "except Exception".
JobTimeout(w) ==
  /\ "job_timeout" \in Faults
  /\ pc[w] \in PhaseSteps \cup HandlerSteps
  /\ job' = [job EXCEPT ![on[w]] = "done"]
  /\ Leave(w)
  /\ UNCHANGED <<dbVars, file, tries, day>>

FinishJob(w) ==
  /\ pc[w] = "ending"
  /\ job' = [job EXCEPT ![on[w]] = "done"]
  /\ Leave(w)
  /\ UNCHANGED <<dbVars, file, tries, day>>

----------------------------------------------------------------------------
(* Phase 1: ingest *)

IngestStart(a) ==
  /\ At(a, "ingest")
  /\ IF Exists(on[a])
       THEN /\ update_status(on[a], "git_fetching")
            /\ Goto(a, "fetching", Nothing)
            /\ UNCHANGED <<reason, retryOf, copies, findings, scores, report,
                           file>>
       ELSE Abort(a)

\* Fault: goes on to the review after recording the error.
GitFails_GoesOn(a) ==
  /\ At(a, "fetching")
  /\ update_failed(on[a], "message")
  /\ Advance(a, "review")
  /\ UNCHANGED <<retryOf, copies, findings, scores, report, file>>

\* GitError from the fetch or from the diff.
GitFails(a) ==
  /\ At(a, "fetching")
  /\ update_failed(on[a], "message")
  /\ Raise(a)
  /\ UNCHANGED <<retryOf, copies, findings, scores, report, file>>

\* An empty diff inserts no change unit and so meets no foreign key.
IngestDone(a) ==
  /\ At(a, "fetching")
  /\ \E changed \in BOOLEAN :
       IF changed /\ ~Exists(on[a]) THEN Abort(a)
       ELSE /\ copies' = IF changed
                           THEN [copies EXCEPT ![on[a]] = IF @ = 0 THEN 1 ELSE 2]
                           ELSE copies
            /\ update_status(on[a], "git_ingested")
            /\ Advance(a, "review")
            /\ UNCHANGED <<reason, retryOf, findings, scores, report, file>>

----------------------------------------------------------------------------
(* Phase 2: agent review *)

\* Worker only: no usable LLM provider in the settings.
ReviewSkipped(w) ==
  /\ At(w, "review")
  /\ update_status(on[w], "agent_review_completed")
  /\ Advance(w, "score")
  /\ UNCHANGED <<reason, retryOf, copies, findings, scores, report, file>>

ReviewStart(a) ==
  /\ At(a, "review")
  /\ IF Exists(on[a])
       THEN /\ update_status(on[a], "agent_review_started")
            /\ Goto(a, "reviewing", [Nothing EXCEPT !.copies = copies[on[a]]])
            /\ UNCHANGED <<reason, retryOf, copies, findings, scores, report,
                           file>>
       ELSE Abort(a)

\* finding_id is F-<date>-<index>, counted from 1 in every run: kept are the
\* indices whose finding passed validation.  The ids must be new in the whole
\* table.  The gateway passes review_run a client that is no LLMProvider;
\* every agent call of a request raises and yields no finding.  The timeout may
\* meet the worker's commit: it takes effect, and the session of the handler that
\* would record the timeout is lost.
ReviewDone(a) ==
  /\ At(a, "reviewing")
  /\ \E kept \in SUBSET (1..MaxFindings) :
       LET ids   == {day} \X kept
           taken == UNION {findings[r] : r \in Runs}
       IN /\ kept # {} => a \in Workers /\ seen[a].copies > 0
          /\ IF kept # {} /\ (~Exists(on[a]) \/ ids \cap taken # {})
               THEN Abort(a)
               ELSE /\ findings' = [findings EXCEPT ![on[a]] = @ \cup ids]
                    /\ update_status(on[a], "agent_review_completed")
                    /\ Advance(a, "score") \/ (a \in Workers /\ Raise(a))
                    /\ UNCHANGED <<reason, retryOf, copies, scores, report,
                                   file>>

\* Fault: a status no reader knows.
ReviewTimeout_Status(w) ==
  /\ At(w, "reviewing")
  /\ update_status(on[w], "timed_out")
  /\ Goto(w, "handle_timeout", Nothing)
  /\ UNCHANGED <<reason, retryOf, copies, findings, scores, report, file>>

\* Fault: reviews again, as often as it takes.
ReviewTimeout_Retries(w) ==
  /\ At(w, "reviewing")
  /\ Goto(w, "review", Nothing)
  /\ UNCHANGED <<dbVars, file>>

\* Worker only: wait_for cancels the review and the inner handler commits.
ReviewTimeout(w) ==
  /\ At(w, "reviewing")
  /\ update_failed(on[w], "timeout")
  /\ Goto(w, "handle_timeout", Nothing)
  /\ UNCHANGED <<retryOf, copies, findings, scores, report, file>>

----------------------------------------------------------------------------
(* Phase 3: score.  The guard reads, the UNIQUE(run_id) index decides. *)

\* Fault: scores.run_id references nothing.
Scorable_NoForeignKey(r) == scores[r] = {}

Scorable(r) == Exists(r) /\ scores[r] = {}

\* Fault: an existing score counts as this phase done.
ScoreStart_Lenient(a) ==
  /\ At(a, "score")
  /\ IF Scorable(on[a])
       THEN Goto(a, "scoring", [Nothing EXCEPT !.findings = findings[on[a]]])
       ELSE Advance(a, "report")
  /\ UNCHANGED <<dbVars, file>>

ScoreStart(a) ==
  /\ At(a, "score")
  /\ IF Scorable(on[a])
       THEN /\ Goto(a, "scoring", [Nothing EXCEPT !.findings = findings[on[a]]])
            /\ UNCHANGED <<dbVars, file>>
       ELSE Abort(a)

\* Fault: the second scorer replaces the first one's row.
ScoreDone_Upsert(a) ==
  /\ At(a, "scoring")
  /\ IF Exists(on[a])
       THEN /\ scores' = [scores EXCEPT ![on[a]] = {seen[a].findings}]
            /\ update_status(on[a], "scored")
            /\ Advance(a, "report")
            /\ UNCHANGED <<reason, retryOf, copies, findings, report, file>>
       ELSE Abort(a)

ScoreDone(a) ==
  /\ At(a, "scoring")
  /\ IF Scorable(on[a])
       THEN /\ scores' = [scores EXCEPT ![on[a]] = {seen[a].findings}]
            /\ update_status(on[a], "scored")
            /\ Advance(a, "report")
            /\ UNCHANGED <<reason, retryOf, copies, findings, report, file>>
       ELSE Abort(a)

----------------------------------------------------------------------------
(* Phase 4: report.  The file is written before the row is inserted. *)

Reportable(r) == Exists(r) /\ ~report[r]

\* Fault: renders without the score.
ReportStart_NoScore(a) ==
  /\ At(a, "report")
  /\ IF Reportable(on[a])
       THEN /\ Goto(a, "rendered", [Nothing EXCEPT !.findings = findings[on[a]]])
            /\ UNCHANGED <<dbVars, file>>
       ELSE Abort(a)

ReportStart(a) ==
  /\ At(a, "report")
  /\ IF Reportable(on[a])
       THEN /\ Goto(a, "rendered", [copies |-> 0, findings |-> findings[on[a]],
                                   scores |-> scores[on[a]]])
            /\ UNCHANGED <<dbVars, file>>
       ELSE Abort(a)

ReportWrite(a) ==
  /\ At(a, "rendered")
  /\ file' = [file EXCEPT ![on[a]] = {[findings |-> seen[a].findings,
                                       scores   |-> seen[a].scores]}]
  /\ Goto(a, "reporting", Nothing)
  /\ UNCHANGED dbVars

ReportDone(a) ==
  /\ At(a, "reporting")
  /\ IF Reportable(on[a])
       THEN /\ report' = [report EXCEPT ![on[a]] = TRUE]
            /\ Advance(a, "finish")
            /\ UNCHANGED <<status, reason, retryOf, copies, findings, scores,
                           file>>
       ELSE Abort(a)

----------------------------------------------------------------------------
(* The end of full_pipeline *)

\* Fault: raises after the commit, inside the try.
Complete_ThenRaises(w) ==
  /\ At(w, "finish")
  /\ update_status(on[w], "completed")
  /\ Raise(w)
  /\ UNCHANGED <<reason, retryOf, copies, findings, scores, report, file>>

Complete(w) ==
  /\ At(w, "finish")
  /\ update_status(on[w], "completed")
  /\ Goto(w, "ending", Nothing)
  /\ UNCHANGED <<reason, retryOf, copies, findings, scores, report, file>>

\* Anything a phase does not foresee: the database, git, the disk, a repository
\* without clone_url or not cloned where the worker looks for it.
PhaseRaises(a) ==
  /\ pc[a] \in PhaseSteps
  /\ Abort(a)
  /\ UNCHANGED <<queueVars, day>>

\* Fault: leaves the run as the failed phase left it.
RecordFailure_Silent(w) ==
  /\ pc[w] \in HandlerSteps
  /\ Goto(w, "ending", Nothing)
  /\ UNCHANGED <<dbVars, file, queueVars, day>>

\* str(TimeoutError()) is empty, and so is the reason it leaves behind.
RecordFailure(w) ==
  /\ pc[w] \in HandlerSteps
  /\ update_failed(on[w], IF pc[w] = "handle" THEN "message" ELSE "empty")
  /\ Goto(w, "ending", Nothing)
  /\ UNCHANGED <<retryOf, copies, findings, scores, report, file, queueVars,
                 day>>

\* The handler's own database error is swallowed.
HandlerDbFails(w) ==
  /\ "handler_db" \in Faults
  /\ pc[w] \in HandlerSteps
  /\ Goto(w, "ending", Nothing)
  /\ UNCHANGED <<dbVars, file, queueVars, day>>

Midnight ==
  /\ day < MaxDay
  /\ day' = day + 1
  /\ UNCHANGED <<dbVars, file, queueVars, actorVars>>

----------------------------------------------------------------------------

StageStep(a) ==
  \/ IngestStart(a) \/ GitFails(a) \/ IngestDone(a)
  \/ ReviewStart(a) \/ ReviewDone(a)
  \/ ScoreStart(a) \/ ScoreDone(a)
  \/ ReportStart(a) \/ ReportWrite(a) \/ ReportDone(a)
  \/ PhaseRaises(a)

WorkerStep(w) ==
  \/ StageStep(w)
  \/ ReviewSkipped(w) \/ ReviewTimeout(w)
  \/ Complete(w) \/ RecordFailure(w) \/ HandlerDbFails(w) \/ FinishJob(w)

Next ==
  \/ \E r \in Runs : \/ CreateRun(r) \/ GithubWebhook(r) \/ GitlabWebhook(r)
                     \/ Enqueue(r) \/ EnqueueFails(r) \/ DeleteRun(r) \/ GiveUp(r)
  \/ \E original, r \in Runs : RetryRun(original, r)
  \/ \E q \in Requests, r \in Runs : \/ trigger_ingest(q, r) \/ trigger_review(q, r)
                                      \/ trigger_score(q, r) \/ trigger_report(q, r)
  \/ \E q \in Requests : StageStep(q)
  \/ \E w \in Workers, r \in Runs : Pick(w, r)
  \/ \E w \in Workers : WorkerStep(w) \/ Crash(w) \/ JobTimeout(w)
  \/ Midnight

Spec == Init /\ [][Next]_vars

\* The event loops and ARQ's poll keep running; users, faults and the clock
\* owe nothing.
Fairness ==
  /\ \A r \in Runs : /\ WF_vars(Enqueue(r) \/ EnqueueFails(r))
                     /\ WF_vars(GiveUp(r) \/ \E w \in Workers : Pick(w, r))
  /\ \A w \in Workers : WF_vars(WorkerStep(w))

FairSpec == Spec /\ Fairness

----------------------------------------------------------------------------
(* Properties *)

DbTypeOK ==
  /\ status \in [Runs -> Statuses]
  /\ reason \in [Runs -> {"none", "message", "timeout", "empty"}]
  /\ retryOf \in [Runs -> Runs \cup {NoRun}]
  /\ copies \in [Runs -> 0..2]
  /\ findings \in [Runs -> SUBSET FindingId]
  /\ scores \in [Runs -> SUBSET SUBSET FindingId]
  /\ report \in [Runs -> BOOLEAN]
  /\ file \in [Runs -> SUBSET Rendering]

QueueTypeOK ==
  /\ job \in [Runs -> {"none", "pending", "refused", "unqueued", "queued",
                       "running", "done", "exhausted"}]
  /\ tries \in [Runs -> 0..MaxTries]
  /\ day \in 1..MaxDay

ActorTypeOK ==
  /\ pc \in [Actors -> Steps]
  /\ on \in [Actors -> Runs \cup {NoRun}]
  /\ seen \in [Actors -> Snapshot]
  /\ \A a \in Actors : pc[a] # "idle" => on[a] \in Runs

\* The columns, the queue entries and what each actor holds keep to the values
\* the code knows, and an actor in the middle of a stage has a run.
TypeOK == DbTypeOK /\ QueueTypeOK /\ ActorTypeOK

\* A run the gateway shows as completed has its score and its report, whoever
\* computed them and however often its job was delivered (tasks.py:138-148).
CompletedHasResults ==
  \A r \in Runs : status[r] = "completed" => scores[r] # {} /\ report[r]

\* Every change unit, finding, score and report belongs to a run that is in the
\* database, also when the run is deleted while a stage is about to commit.
RowsBelongToRuns ==
  \A r \in Runs :
    ~Exists(r) => /\ copies[r] = 0 /\ findings[r] = {}
                  /\ scores[r] = {} /\ ~report[r]

\* However stages, redeliveries and manual POST /score calls overlap, a score
\* that was published is not replaced while its run exists.
ScoreIsWrittenOnce ==
  [][\A r \in Runs :
       scores[r] # {} /\ status'[r] # "deleted" => scores'[r] = scores[r]]_vars

\* The score of a completed run was computed from exactly the findings the run
\* has, although score_run reads them long before it commits and anybody may
\* POST /score, /review or /ingest in between.
CompletedScoreCoversFindings ==
  \A r \in Runs : status[r] = "completed" => scores[r] = {findings[r]}

\* With no manual stage requests the report file of a completed run shows the
\* score and the findings the database has (reporting/service.py:50-108).
ReportFileIsCurrent ==
  \A r \in Runs : status[r] = "completed" =>
    file[r] = {[findings |-> findings[r], scores |-> scores[r]]}

\* When ARQ is through with a job its run is in a status the user can act on:
\* completed, or failed and hence retryable (analysis_runs.py:188).
NoRunIsStuck ==
  \A r \in Runs : job[r] = "done" => status[r] \in Terminal \cup {"deleted"}

\* A completed run stays completed, whatever raises, times out or loses a write,
\* until its job is delivered again or a manual request works on it.
CompletedIsFinal ==
  [][\A r \in Runs : status[r] = "completed" /\ tries[r] <= 1 =>
       \/ status'[r] \in {"completed", "deleted"}
       \/ \E q \in Requests : on[q] = r /\ pc'[q] # pc[q]]_vars

\* A job that is delivered once does not complete its run with the
\* failure_reason of something that went wrong, which no update clears.
CompletedHasNoReason ==
  \A r \in Runs : status[r] = "completed" /\ tries[r] <= 1 => reason[r] = "none"

\* Every job that is queued is eventually acknowledged or given up, whatever
\* crashes (worker/main.py: at-least-once delivery with bounded tries).
JobSettles ==
  \A r \in Runs : job[r] = "queued" ~> job[r] \in {"done", "exhausted"}

\* Every run is eventually completed, failed or deleted, unless the queue did
\* not take its job or ARQ gave it up after MaxTries crashes.
RunSettles ==
  \A r \in Runs : status[r] = "trigger_received" ~>
    \/ status[r] \in Terminal \cup {"deleted"}
    \/ job[r] \in {"refused", "unqueued", "exhausted"}

PhaseOf(s) ==
  CASE s = "unborn"    -> "none"
    [] s = "deleted"   -> "gone"
    [] s = "completed" -> "succeeded"
    [] s = "failed"    -> "failed"
    [] OTHER           -> "open"

Lifecycle == INSTANCE RunLifecycle WITH
  phase    <- [r \in Runs |-> PhaseOf(status[r])],
  scored   <- [r \in Runs |-> scores[r] # {}],
  reported <- report

\* The pipeline keeps what RunLifecycle promises about results and deletion.
ImplementsLifecycle == Lifecycle!Spec
============================================================================
