-------------------------- MODULE RunOutcomeProofs --------------------------
(***************************************************************************)
(* How runs end: a job that is through leaves no open run, a completed run *)
(* stays completed, carries no failure_reason and has its report on disk.  *)
(* These need more than the other results: what a job's first delivery     *)
(* did, and for all but the second that nobody works on runs by hand.      *)
(***************************************************************************)
EXTENDS RunPipelineProofs

----------------------------------------------------------------------------
(* No run is left open, if also no cancellation and no lost write keeps    *)
(* full_pipeline from recording how it ended.                              *)

Undisturbed == Requests = {} /\ Faults \cap {"job_timeout", "handler_db"} = {}

Settled(r) == status[r] \in Terminal \cup {"deleted"}

\* A worker that is through has settled its run, and nobody reopens it after.
Outcomes ==
  /\ \A r \in Runs : job[r] = "done" => Settled(r)
  /\ \A w \in Workers : pc[w] = "ending" => Settled(on[w])

\* What ends the pipeline has written the run's last status, or found it deleted.
LEMMA EndingSettles ==
  ASSUME IInv, Undisturbed, NEW w \in Workers, Complete(w) \/ RecordFailure(w)
  PROVE  Settled(on[w])'
<1>1. w \in Actors /\ pc[w] # "idle" /\ on[w] \in Runs
  BY DEF Complete, RecordFailure, At, HandlerSteps, Actors, IInv, TypeOK, ActorTypeOK
<1>2. status[on[w]] # "unborn"
  BY <1>1 DEF IInv, Born
<1>3. PICK s \in Terminal : update_status(on[w], s)
  BY DEF Complete, RecordFailure, update_failed, Terminal
<1>4. status'[on[w]] \in Terminal \cup {"deleted"}
  BY <1>1, <1>2, <1>3, UpdateStatusEffect DEF IInv, TypeOK, Exists
<1>5. on' = on
  BY DEF Complete, RecordFailure, Goto
<1>6. QED BY <1>4, <1>5 DEF Settled

\* Nothing but the end of the job happens at the step "ending".
LEMMA EndingOnlyFinishes ==
  ASSUME NEW w \in Workers, WorkerStep(w), pc[w] = "ending"
  PROVE  FinishJob(w)
BY DEF WorkerStep, StageStep, At, IngestStart, GitFails, IngestDone, ReviewStart,
       ReviewDone, ScoreStart, ScoreDone, ReportStart, ReportWrite, ReportDone,
       PhaseRaises, PhaseSteps, HandlerSteps, ReviewSkipped, ReviewTimeout, Complete,
       RecordFailure, HandlerDbFails

\* Only a recorded outcome leads there.
LEMMA EndingIsRecorded ==
  ASSUME IInv, Undisturbed, NEW w \in Workers, WorkerStep(w), pc'[w] = "ending"
  PROVE  Complete(w) \/ RecordFailure(w)
<1> USE DEF IInv, TypeOK
<1>0. w \in Actors
  BY DEF Actors
<1>1. CASE StageStep(w)
  <2>1. pc'[w] \in {"idle", "fetching", "review", "reviewing", "score", "scoring",
                    "report", "rendered", "reporting", "finish", "handle"}
    BY <1>0, <1>1, GotoEffect, AdvanceEffect, AbortEffect
    DEF StageStep, Raise, IngestStart, GitFails, IngestDone, ReviewStart, ReviewDone,
        ScoreStart, ScoreDone, ReportStart, ReportWrite, ReportDone, PhaseRaises
  <2>2. QED BY <2>1
<1>2. CASE ReviewSkipped(w) \/ ReviewTimeout(w)
  BY <1>0, <1>2, GotoEffect, AdvanceEffect DEF ReviewSkipped, ReviewTimeout
<1>3. CASE HandlerDbFails(w)
  BY <1>3 DEF HandlerDbFails, Undisturbed
<1>4. CASE FinishJob(w)
  BY <1>0, <1>4, LeaveEffect DEF FinishJob
<1>5. QED
  BY <1>1, <1>2, <1>3, <1>4 DEF WorkerStep

\* A settled run stays settled as long as no slot but one that is ending has it.
LEMMA SettledStays ==
  ASSUME IInv, Undisturbed, [Next]_vars, NEW r \in Runs, Settled(r),
         \A w \in Workers : pc[w] # "idle" /\ on[w] = r => pc[w] = "ending"
  PROVE  Settled(r)'
<1> USE DEF IInv
<1>1. CASE UNCHANGED status
  BY <1>1 DEF Settled
<1>2. ASSUME NEW born \in Runs, NEW parent, NewRun(born, parent)
      PROVE  Settled(r)'
  BY <1>2 DEF NewRun, Settled, Terminal, TypeOK, DbTypeOK
<1>3. ASSUME NEW gone \in Runs, DeleteRun(gone)
      PROVE  Settled(r)'
  BY <1>3 DEF DeleteRun, Settled, TypeOK, DbTypeOK
<1>4. ASSUME NEW s \in Runs, \/ Enqueue(s) \/ EnqueueFails(s) \/ GiveUp(s)
                             \/ \E w \in Workers : Pick(w, s)
      PROVE  UNCHANGED status
  BY <1>4 DEF Enqueue, EnqueueFails, GiveUp, Pick, dbVars
<1>5. ASSUME NEW w \in Workers, Crash(w) \/ JobTimeout(w)
      PROVE  UNCHANGED status
  BY <1>5 DEF Crash, JobTimeout, dbVars
<1>6. ASSUME NEW w \in Workers, WorkerStep(w)
      PROVE  Settled(r)'
  <2>1. pc[w] # "idle" /\ OnlyRun(on[w])
    BY <1>6, WorkerEffect
  <2>2. CASE on[w] # r
    BY <2>1, <2>2 DEF OnlyRun, Same, Settled
  <2>3. CASE on[w] = r
    BY <1>1, <1>6, <2>1, <2>3, EndingOnlyFinishes DEF FinishJob, dbVars
  <2>4. QED BY <2>2, <2>3
<1>7. CASE Midnight \/ UNCHANGED vars
  BY <1>1, <1>7 DEF Midnight, vars, dbVars
<1>8. QED
  BY <1>1, <1>2, <1>3, <1>4, <1>5, <1>6, <1>7
  DEF Next, Undisturbed, CreateRun, GithubWebhook, GitlabWebhook, RetryRun

\* What a step adds to the queue's "done" and to the workers at "ending".
LEMMA NewlyDone ==
  ASSUME IInv, Undisturbed, [Next]_vars
  PROVE  /\ \A r \in Runs : job'[r] = "done" =>
              job[r] = "done" \/ \E w \in Workers : on[w] = r /\ pc[w] = "ending"
         /\ \A w \in Workers : pc'[w] = "ending" =>
              \/ pc[w] = "ending" /\ on'[w] = on[w]
              \/ Complete(w) \/ RecordFailure(w)
<1> DEFINE Goal ==
      /\ \A r \in Runs : job'[r] = "done" =>
           job[r] = "done" \/ \E w \in Workers : on[w] = r /\ pc[w] = "ending"
      /\ \A w \in Workers : pc'[w] = "ending" =>
           \/ pc[w] = "ending" /\ on'[w] = on[w]
           \/ Complete(w) \/ RecordFailure(w)
<1> USE DEF IInv, TypeOK
<1>1. ASSUME UNCHANGED actorVars, \A r \in Runs : job'[r] = "done" => job[r] = "done"
      PROVE  Goal
  BY <1>1 DEF actorVars
<1>2. ASSUME NEW r \in Runs, NEW parent, NewRun(r, parent)
      PROVE  Goal
  BY <1>1, <1>2 DEF NewRun, QueueTypeOK
<1>3. ASSUME NEW r \in Runs, Enqueue(r) \/ EnqueueFails(r) \/ GiveUp(r) \/ DeleteRun(r)
      PROVE  Goal
  BY <1>1, <1>3 DEF Enqueue, EnqueueFails, GiveUp, DeleteRun, queueVars, QueueTypeOK
<1>4. ASSUME NEW w \in Workers, NEW r \in Runs, Pick(w, r)
      PROVE  Goal
  <2>1. \A v \in Workers : pc'[v] = "ending" => pc[v] = "ending" /\ on'[v] = on[v]
    BY <1>4 DEF Pick, ActorTypeOK, Actors
  <2>2. \A s \in Runs : job'[s] = "done" => job[s] = "done"
    BY <1>4 DEF Pick, QueueTypeOK
  <2>3. QED BY <2>1, <2>2
<1>5. ASSUME NEW w \in Workers, Crash(w) \/ FinishJob(w)
      PROVE  Goal
  <2>1. w \in Actors /\ OthersStay(w) /\ pc'[w] = "idle"
    BY <1>5, LeaveEffect DEF Crash, FinishJob, Actors
  <2>2. \A s \in Runs : job'[s] = "done" =>
          job[s] = "done" \/ (on[w] = s /\ pc[w] = "ending")
    BY <1>5 DEF Crash, FinishJob, QueueTypeOK
  <2>3. \A v \in Workers : pc'[v] = "ending" => pc[v] = "ending" /\ on'[v] = on[v]
    BY <2>1 DEF OthersStay, Actors
  <2>4. QED BY <2>2, <2>3
<1>6. ASSUME NEW w \in Workers, WorkerStep(w), ~FinishJob(w)
      PROVE  Goal
  <2>1. OthersStay(w) /\ UNCHANGED job
    BY <1>6, WorkerMoves, StageLeavesQueue
  <2>2. pc'[w] = "ending" => Complete(w) \/ RecordFailure(w)
    BY <1>6, EndingIsRecorded
  <2>3. \A v \in Workers : v # w => pc'[v] = pc[v] /\ on'[v] = on[v]
    BY <2>1 DEF OthersStay, Actors
  <2>4. QED BY <2>1, <2>2, <2>3
<1>7. CASE Midnight \/ UNCHANGED vars
  BY <1>1, <1>7 DEF Midnight, vars, queueVars
<1>8. \A w \in Workers : ~JobTimeout(w)
  BY DEF JobTimeout, Undisturbed
<1>9. Goal
  BY <1>2, <1>3, <1>4, <1>5, <1>6, <1>7, <1>8
  DEF Next, Undisturbed, CreateRun, GithubWebhook, GitlabWebhook, RetryRun
<1>10. QED BY <1>9

LEMMA OutcomesStep ==
  ASSUME IInv, Undisturbed, Outcomes, [Next]_vars
  PROVE  Outcomes'
<1>1. ASSUME NEW r \in Runs, job'[r] = "done"
      PROVE  Settled(r)'
  <2>1. CASE job[r] = "done"
    BY <2>1, SettledStays DEF IInv, OneSlotPerJob, Outcomes
  <2>2. ASSUME NEW w \in Workers, on[w] = r, pc[w] = "ending"
        PROVE  Settled(r)'
    BY <2>2, SettledStays DEF IInv, OneSlotPerJob, Outcomes
  <2>3. QED BY <1>1, <2>1, <2>2, NewlyDone
<1>2. ASSUME NEW w \in Workers, pc'[w] = "ending"
      PROVE  Settled(on[w])'
  <2>1. CASE pc[w] = "ending" /\ on'[w] = on[w]
    <3>1. on[w] \in Runs
      BY <2>1 DEF IInv, TypeOK, ActorTypeOK, Actors
    <3>2. status'[on[w]] \in Terminal \cup {"deleted"}
      BY <2>1, <3>1, SettledStays DEF IInv, OneSlotPerJob, Outcomes, Settled
    <3>3. QED BY <2>1, <3>2 DEF Settled
  <2>2. CASE Complete(w) \/ RecordFailure(w)
    BY <2>2, EndingSettles
  <2>3. QED BY <1>2, <2>1, <2>2, NewlyDone
<1>3. QED BY <1>1, <1>2 DEF Outcomes

\* Whatever phase fails, however many slots work and crash and however often jobs
\* are delivered: when ARQ is through with a job, its run has ended or is gone.
THEOREM NoRunIsLeftOpen ==
  ASSUME Undisturbed
  PROVE  Spec => []NoRunIsStuck
<1>1. Init => Outcomes
  BY DEF Init, Outcomes, Actors
<1>2. IInv /\ Outcomes /\ [Next]_vars => Outcomes'
  BY OutcomesStep
<1>3. Outcomes => NoRunIsStuck
  BY DEF Outcomes, Settled, NoRunIsStuck
<1>4. QED BY <1>1, <1>2, <1>3, Inductive, PTL DEF Spec
----------------------------------------------------------------------------
(* Deliveries.  What a job's first delivery writes depends on what it has  *)
(* written before; a redelivery may find anything.                         *)

\* Only a delivery counts the deliveries, and it starts an idle slot.
LEMMA TriesCountDeliveries ==
  ASSUME TypeOK, [Next]_vars, NEW r \in Runs
  PROVE  \/ tries'[r] = tries[r]
         \/ \E w \in Workers : Pick(w, r) /\ tries'[r] = tries[r] + 1
<1> USE DEF TypeOK
<1>1. CASE UNCHANGED tries
  BY <1>1
<1>2. ASSUME NEW w \in Workers, NEW s \in Runs, Pick(w, s)
      PROVE  \/ tries'[r] = tries[r]
             \/ \E v \in Workers : Pick(v, r) /\ tries'[r] = tries[r] + 1
  BY <1>2 DEF Pick, QueueTypeOK
<1>3. ASSUME NEW w \in Workers, WorkerStep(w)
      PROVE  UNCHANGED tries
  BY <1>3, StageLeavesQueue
  DEF WorkerStep, ReviewSkipped, ReviewTimeout, Complete, RecordFailure, HandlerDbFails,
      FinishJob, At, queueVars
<1>4. ASSUME NEW w \in Workers, Crash(w) \/ JobTimeout(w)
      PROVE  UNCHANGED tries
  BY <1>4 DEF Crash, JobTimeout
<1>5. ASSUME NEW q \in Requests, StageStep(q)
      PROVE  UNCHANGED tries
  BY <1>5, StageLeavesQueue
<1>6. ASSUME NEW q, NEW s, NEW step, StageRequest(q, s, step)
      PROVE  UNCHANGED tries
  BY <1>6 DEF StageRequest, queueVars
<1>7. ASSUME NEW s, \/ Enqueue(s) \/ EnqueueFails(s) \/ GiveUp(s) \/ DeleteRun(s)
                    \/ \E parent : NewRun(s, parent)
      PROVE  UNCHANGED tries
  BY <1>7 DEF Enqueue, EnqueueFails, GiveUp, DeleteRun, NewRun, queueVars
<1>8. CASE Midnight \/ UNCHANGED vars
  BY <1>8 DEF Midnight, vars, queueVars
<1>9. QED
  BY <1>1, <1>2, <1>3, <1>4, <1>5, <1>6, <1>7, <1>8
  DEF Next, CreateRun, GithubWebhook, GitlabWebhook, RetryRun,
      trigger_ingest, trigger_review, trigger_score, trigger_report

\* How a job slot comes to be where it is: its job was delivered to it, or it
\* made a step, or it waited while somebody else did something.
Delivered(w) == \E r \in Runs : Pick(w, r) /\ pc'[w] = "ingest" /\ on'[w] = r
Worked(w)    == pc[w] # "idle" /\ on'[w] = on[w] /\ WorkerStep(w)
Waited(w)    == pc[w] # "idle" /\ pc'[w] = pc[w] /\ on'[w] = on[w] /\ seen'[w] = seen[w]

LEMMA SlotHistory ==
  ASSUME IInv, [Next]_vars, NEW w \in Workers, pc'[w] # "idle"
  PROVE  Delivered(w) \/ Worked(w) \/ Waited(w)
<1> USE DEF IInv, TypeOK
<1>0. w \in Actors
  BY DEF Actors
<1>1. CASE UNCHANGED actorVars
  BY <1>1 DEF actorVars, Waited
<1>2. ASSUME NEW a \in Actors, a # w, OthersStay(a)
      PROVE  Waited(w)
  BY <1>0, <1>2 DEF OthersStay, Waited
<1>3. ASSUME NEW v \in Workers, NEW r \in Runs, Pick(v, r)
      PROVE  Delivered(w) \/ Waited(w)
  BY <1>0, <1>3 DEF Pick, ActorTypeOK, Actors, Delivered, Waited
<1>4. ASSUME NEW q \in Requests, NEW r, NEW step, StageRequest(q, r, step)
      PROVE  Waited(w)
  <2>1. q # w
    BY PipelineAssumption
  <2>2. QED
    BY <1>0, <1>4, <2>1 DEF StageRequest, ActorTypeOK, Waited
<1>5. ASSUME NEW v \in Workers, Crash(v) \/ JobTimeout(v)
      PROVE  Waited(w)
  BY <1>2, <1>5, LeaveEffect DEF Crash, JobTimeout, Actors
<1>6. ASSUME NEW q \in Requests, StageStep(q)
      PROVE  Waited(w)
  BY <1>2, <1>6, StageMoves, PipelineAssumption DEF Actors
<1>7. ASSUME NEW v \in Workers, WorkerStep(v)
      PROVE  Worked(w) \/ Waited(w)
  BY <1>0, <1>2, <1>7, WorkerMoves, WorkerEffect, StageMoves DEF Actors, Worked
<1>8. ASSUME NEW r, \/ Enqueue(r) \/ EnqueueFails(r) \/ GiveUp(r) \/ DeleteRun(r)
                    \/ \E parent : NewRun(r, parent)
      PROVE  UNCHANGED actorVars
  BY <1>8 DEF Enqueue, EnqueueFails, GiveUp, DeleteRun, NewRun
<1>9. CASE Midnight \/ UNCHANGED vars
  BY <1>1, <1>9 DEF Midnight, vars
<1>10. QED
  BY <1>1, <1>3, <1>4, <1>5, <1>6, <1>7, <1>8, <1>9
  DEF Next, CreateRun, GithubWebhook, GitlabWebhook, RetryRun,
      trigger_ingest, trigger_review, trigger_score, trigger_report

\* The worker that held the run at its last step completes it; nobody else does.
LEMMA OnlyCompleteCompletes ==
  ASSUME IInv, [Next]_vars, NEW r \in Runs, status[r] # "completed", status'[r] = "completed"
  PROVE  \E w \in Workers : on[w] = r /\ Complete(w)
<1> USE DEF IInv, TypeOK
<1>1. CASE UNCHANGED status
  BY <1>1
<1>2. ASSUME NEW a \in Actors, StageStep(a)
      PROVE  FALSE
  BY <1>2, StageEffect DEF Same, StageWrites
<1>3. ASSUME NEW w \in Workers, WorkerStep(w)
      PROVE  on[w] = r /\ Complete(w)
  <2>1. on[w] = r
    BY <1>3, WorkerEffect DEF OnlyRun, Same
  <2>2. CASE ReviewSkipped(w) \/ ReviewTimeout(w) \/ RecordFailure(w)
    <3>1. PICK s \in {"agent_review_completed", "failed"} : update_status(r, s)
      BY <2>1, <2>2 DEF ReviewSkipped, ReviewTimeout, RecordFailure, update_failed
    <3>2. QED BY <3>1, UpdateStatusEffect
  <2>3. CASE HandlerDbFails(w) \/ FinishJob(w)
    BY <1>1, <2>3 DEF HandlerDbFails, FinishJob, dbVars
  <2>4. CASE StageStep(w)
    BY <1>2, <2>4 DEF Actors
  <2>5. QED BY <1>3, <2>1, <2>2, <2>3, <2>4 DEF WorkerStep
<1>4. ASSUME NEW s \in Runs, DeleteRun(s) \/ \E parent : NewRun(s, parent)
      PROVE  FALSE
  BY <1>4 DEF DeleteRun, NewRun, DbTypeOK
<1>5. ASSUME NEW s, \/ Enqueue(s) \/ EnqueueFails(s) \/ GiveUp(s)
                    \/ \E w : Pick(w, s)
                    \/ \E q, step : StageRequest(q, s, step)
      PROVE  UNCHANGED status
  BY <1>5 DEF Enqueue, EnqueueFails, GiveUp, Pick, StageRequest, dbVars
<1>6. ASSUME NEW w, Crash(w) \/ JobTimeout(w)
      PROVE  UNCHANGED status
  BY <1>6 DEF Crash, JobTimeout, dbVars
<1>7. CASE Midnight \/ UNCHANGED vars
  BY <1>7 DEF Midnight, vars, dbVars
<1>8. QED
  BY <1>1, <1>2, <1>3, <1>4, <1>5, <1>6, <1>7
  DEF Next, CreateRun, GithubWebhook, GitlabWebhook, RetryRun, Actors,
      trigger_ingest, trigger_review, trigger_score, trigger_report

\* A run is not completed before its job is delivered, and during the first
\* delivery only by the step that ends it.
DeliveriesOK ==
  /\ \A r \in Runs : tries[r] = 0 => status[r] # "completed"
  /\ \A w \in Workers : pc[w] # "idle" =>
       /\ tries[on[w]] > 0
       /\ tries[on[w]] = 1 /\ status[on[w]] = "completed" => pc[w] = "ending"

\* A job that is in a slot is not delivered again meanwhile.
LEMMA HeldJobKeepsTries ==
  ASSUME IInv, [Next]_vars, NEW w \in Workers, pc[w] # "idle"
  PROVE  on[w] \in Runs /\ tries'[on[w]] = tries[on[w]]
BY TriesCountDeliveries DEF IInv, TypeOK, ActorTypeOK, Actors, OneSlotPerJob, Pick

LEMMA DeliveriesStep ==
  ASSUME IInv, DeliveriesOK, [Next]_vars
  PROVE  DeliveriesOK'
<1> USE DEF IInv, TypeOK
<1>0. \A r \in Runs : tries[r] \in Nat
  BY PipelineAssumption DEF QueueTypeOK
<1>1. ASSUME NEW r \in Runs, tries'[r] = 0
      PROVE  status'[r] # "completed"
  <2>1. tries[r] = 0
    BY <1>0, <1>1, TriesCountDeliveries
  <2>2. QED
    BY <2>1, OnlyCompleteCompletes DEF DeliveriesOK, Complete, At
<1>2. ASSUME NEW w \in Workers, pc'[w] # "idle"
      PROVE  /\ tries'[on'[w]] > 0
             /\ tries'[on'[w]] = 1 /\ status'[on'[w]] = "completed" => pc'[w] = "ending"
  <2>1. CASE Delivered(w)
    <3>1. PICK r \in Runs : Pick(w, r) /\ on'[w] = r
      BY <2>1 DEF Delivered
    <3>2. tries'[r] = tries[r] + 1 /\ status' = status
      BY <3>1 DEF Pick, QueueTypeOK, dbVars
    <3>3. QED
      BY <1>0, <3>1, <3>2 DEF DeliveriesOK
  <2>2. ASSUME pc[w] # "idle", on'[w] = on[w],
               status'[on[w]] = "completed", tries[on[w]] = 1,
               WorkerStep(w) \/ pc'[w] = pc[w]
        PROVE  pc'[w] = "ending"
    <3>1. CASE status[on[w]] = "completed"
      <4>1. pc[w] = "ending"
        BY <2>2, <3>1 DEF DeliveriesOK
      <4>2. QED
        BY <1>2, <2>2, <4>1, EndingOnlyFinishes, LeaveEffect DEF FinishJob, Actors
    <3>2. CASE status[on[w]] # "completed"
      <4>1. PICK v \in Workers : on[v] = on[w] /\ Complete(v)
        BY <2>2, <3>2, OnlyCompleteCompletes, HeldJobKeepsTries
      <4>2. v = w
        BY <2>2, <4>1 DEF OneSlotPerJob, Complete, At
      <4>3. QED
        BY <4>1, <4>2, GotoEffect DEF Complete, Actors
    <3>3. QED BY <3>1, <3>2
  <2>3. CASE Worked(w) \/ Waited(w)
    BY <2>2, <2>3, HeldJobKeepsTries DEF Worked, Waited, DeliveriesOK
  <2>4. QED BY <1>2, <2>1, <2>3, SlotHistory
<1>3. QED BY <1>1, <1>2 DEF DeliveriesOK

THEOREM DeliveriesInductive == Spec => []DeliveriesOK
<1>1. Init => DeliveriesOK
  BY DEF Init, DeliveriesOK, Actors
<1>2. IInv /\ DeliveriesOK /\ [Next]_vars => DeliveriesOK'
  BY DeliveriesStep
<1>3. QED BY <1>1, <1>2, Inductive, PTL DEF Spec

\* A manual request that does anything leaves the step it was at.
LEMMA RequestsMoveOn ==
  ASSUME TypeOK, NEW q \in Requests, StageStep(q)
  PROVE  pc'[q] # pc[q]
<1> USE DEF TypeOK
<1>1. q \in Actors /\ q \notin Workers
  BY PipelineAssumption DEF Actors
<1>2. pc[q] # "idle"
  BY <1>1, StageEffect
<1>3. CASE \E step : Advance(q, step)
  BY <1>1, <1>2, <1>3, LeaveEffect DEF Advance
<1>4. CASE IngestStart(q) \/ ReviewStart(q) \/ ScoreStart(q) \/ ReportStart(q) \/ ReportWrite(q)
  BY <1>1, <1>3, <1>4, GotoEffect
  DEF IngestStart, ReviewStart, ScoreStart, ReportStart, ReportWrite, At, Abort, Raise
<1>5. QED
  BY <1>3, <1>4
  DEF StageStep, GitFails, IngestDone, ReviewDone, ScoreDone, ReportDone, PhaseRaises,
      Abort, Raise

\* While a job is delivered for the first time nothing of the pipeline takes a
\* completed run back: no late exception, no timeout and no failure handler.
THEOREM CompletionIsFinal == Spec => CompletedIsFinal
<1>1. IInv /\ DeliveriesOK /\ [Next]_vars =>
        [\A r \in Runs : status[r] = "completed" /\ tries[r] <= 1 =>
           \/ status'[r] \in {"completed", "deleted"}
           \/ \E q \in Requests : on[q] = r /\ pc'[q] # pc[q]]_vars
  <2> SUFFICES ASSUME IInv, DeliveriesOK, [Next]_vars, NEW r \in Runs,
                      status[r] = "completed", tries[r] <= 1,
                      status'[r] \notin {"completed", "deleted"}
               PROVE  \E q \in Requests : on[q] = r /\ pc'[q] # pc[q]
    OBVIOUS
  <2> USE DEF IInv, TypeOK
  <2>1. CASE UNCHANGED status
    BY <2>1
  <2>2. ASSUME NEW q \in Requests, StageStep(q)
        PROVE  on[q] = r /\ pc'[q] # pc[q]
    BY <2>2, StageEffect, RequestsMoveOn DEF Same, Actors
  <2>3. ASSUME NEW w \in Workers, WorkerStep(w)
        PROVE  FALSE
    <3>1. on[w] = r /\ pc[w] # "idle"
      BY <2>3, WorkerEffect DEF OnlyRun, Same
    <3>2. tries[r] = 1
      BY <3>1, PipelineAssumption DEF DeliveriesOK, QueueTypeOK
    <3>3. FinishJob(w)
      BY <2>3, <3>1, <3>2, EndingOnlyFinishes DEF DeliveriesOK
    <3>4. QED BY <2>1, <3>3 DEF FinishJob, dbVars
  <2>4. ASSUME NEW s \in Runs, DeleteRun(s) \/ \E parent : NewRun(s, parent)
        PROVE  FALSE
    BY <2>4 DEF DeleteRun, NewRun, DbTypeOK
  <2>5. ASSUME NEW s, \/ Enqueue(s) \/ EnqueueFails(s) \/ GiveUp(s)
                      \/ \E w : Pick(w, s)
                      \/ \E q, step : StageRequest(q, s, step)
        PROVE  UNCHANGED status
    BY <2>5 DEF Enqueue, EnqueueFails, GiveUp, Pick, StageRequest, dbVars
  <2>6. ASSUME NEW w, Crash(w) \/ JobTimeout(w)
        PROVE  UNCHANGED status
    BY <2>6 DEF Crash, JobTimeout, dbVars
  <2>7. CASE Midnight \/ UNCHANGED vars
    BY <2>7 DEF Midnight, vars, dbVars
  <2>8. QED
    BY <2>1, <2>2, <2>3, <2>4, <2>5, <2>6, <2>7
    DEF Next, CreateRun, GithubWebhook, GitlabWebhook, RetryRun,
        trigger_ingest, trigger_review, trigger_score, trigger_report
<1>2. QED
  BY <1>1, Inductive, DeliveriesInductive, PTL DEF Spec, CompletedIsFinal

----------------------------------------------------------------------------
(* Without manual requests a run is written by the worker that holds its   *)
(* job, by DeleteRun, and by nobody else.                                  *)

\* A run that is in the database at the end of a step was there before it, or
\* has just been created.
LEMMA ExistedBefore ==
  ASSUME IInv, [Next]_vars, NEW r \in Runs, Exists(r)', status[r] # "unborn"
  PROVE  Exists(r)
<1>1. DbStep(r)
  BY Effect DEF IInv
<1>2. QED
  BY <1>1 DEF DbStep, Same, Created, Deleted, Staged, Completed, StageWrites, Exists

\* Who writes a failure_reason: a stage that fails, the review's own timeout and
\* the failure handler, each together with the status; a deletion clears it.
Fails(a) == GitFails(a) \/ ReviewTimeout(a) \/ RecordFailure(a)

LEMMA ReasonEffect ==
  ASSUME IInv, [Next]_vars, NEW r \in Runs
  PROVE  \/ reason'[r] = reason[r]
         \/ status'[r] = "deleted" /\ reason'[r] = "none"
         \/ \E a \in Actors : on[a] = r /\ Fails(a) /\ status'[r] = "failed"
<1> DEFINE Goal == \/ reason'[r] = reason[r]
                   \/ status'[r] = "deleted" /\ reason'[r] = "none"
                   \/ \E a \in Actors : on[a] = r /\ Fails(a) /\ status'[r] = "failed"
<1> USE DEF IInv, TypeOK
<1>1. CASE UNCHANGED reason
  BY <1>1
<1>2. ASSUME NEW a \in Actors, Fails(a)
      PROVE  Goal
  <2>1. on[a] \in Runs /\ \E why : update_failed(on[a], why)
    BY <1>2 DEF Fails, GitFails, ReviewTimeout, RecordFailure, At, ActorTypeOK, HandlerSteps
  <2>2. reason'[r] # reason[r] => on[a] = r /\ status'[r] = "failed"
    BY <2>1 DEF update_failed, update_status, DbTypeOK
  <2>3. QED BY <1>2, <2>2
<1>3. ASSUME NEW a \in Actors, StageStep(a)
      PROVE  Goal
  BY <1>1, <1>2, <1>3
  DEF StageStep, IngestStart, IngestDone, ReviewStart, ReviewDone, ScoreStart, ScoreDone,
      ReportStart, ReportWrite, ReportDone, PhaseRaises, Abort, dbVars, Fails
<1>4. ASSUME NEW w \in Workers, WorkerStep(w)
      PROVE  Goal
  BY <1>1, <1>2, <1>3, <1>4
  DEF WorkerStep, ReviewSkipped, Complete, HandlerDbFails, FinishJob, dbVars, Fails, Actors
<1>5. ASSUME NEW s \in Runs, DeleteRun(s)
      PROVE  Goal
  BY <1>5 DEF DeleteRun, DbTypeOK
<1>6. ASSUME NEW s, \/ Enqueue(s) \/ EnqueueFails(s) \/ GiveUp(s)
                    \/ \E parent : NewRun(s, parent)
                    \/ \E w : Pick(w, s)
                    \/ \E q, step : StageRequest(q, s, step)
      PROVE  UNCHANGED reason
  BY <1>6 DEF Enqueue, EnqueueFails, GiveUp, NewRun, Pick, StageRequest, dbVars
<1>7. ASSUME NEW w, Crash(w) \/ JobTimeout(w)
      PROVE  UNCHANGED reason
  BY <1>7 DEF Crash, JobTimeout, dbVars
<1>8. CASE Midnight \/ UNCHANGED vars
  BY <1>8 DEF Midnight, vars, dbVars
<1>9. Goal
  BY <1>1, <1>3, <1>4, <1>5, <1>6, <1>7, <1>8
  DEF Next, CreateRun, GithubWebhook, GitlabWebhook, RetryRun, Actors,
      trigger_ingest, trigger_review, trigger_score, trigger_report
<1>10. QED BY <1>9

\* Whoever fails is out of the phases, and who is out of them does not return.
LEMMA FailureEndsPhases ==
  ASSUME TypeOK, NEW w \in Workers
  PROVE  /\ Fails(w) => pc[w] # "idle" /\ pc'[w] \notin PhaseSteps
         /\ WorkerStep(w) /\ pc'[w] \in PhaseSteps => pc[w] \in PhaseSteps
<1> USE DEF TypeOK
<1>0. w \in Actors
  BY DEF Actors
<1>1. ASSUME Fails(w)
      PROVE  pc[w] # "idle" /\ pc'[w] \notin PhaseSteps
  BY <1>0, <1>1, GotoEffect
  DEF Fails, GitFails, ReviewTimeout, RecordFailure, Raise, Advance, At, HandlerSteps,
      PhaseSteps
<1>2. ASSUME WorkerStep(w), pc'[w] \in PhaseSteps
      PROVE  pc[w] \in PhaseSteps
  <2>1. CASE StageStep(w) \/ ReviewSkipped(w) \/ ReviewTimeout(w) \/ Complete(w)
    BY <2>1
    DEF StageStep, At, IngestStart, GitFails, IngestDone, ReviewStart, ReviewDone,
        ScoreStart, ScoreDone, ReportStart, ReportWrite, ReportDone, PhaseRaises,
        ReviewSkipped, ReviewTimeout, Complete, PhaseSteps
  <2>2. CASE RecordFailure(w) \/ HandlerDbFails(w) \/ FinishJob(w)
    BY <1>0, <1>2, <2>2, GotoEffect, LeaveEffect
    DEF RecordFailure, HandlerDbFails, FinishJob, PhaseSteps
  <2>3. QED BY <1>2, <2>1, <2>2 DEF WorkerStep
<1>3. QED BY <1>1, <1>2

\* The first delivery has recorded no failure as long as it is in its phases.
ReasonsOK ==
  /\ \A r \in Runs : tries[r] = 0 => reason[r] = "none"
  /\ \A w \in Workers : pc[w] \in PhaseSteps /\ Exists(on[w]) /\ tries[on[w]] = 1 =>
       reason[on[w]] = "none"
  /\ CompletedHasNoReason

LEMMA ReasonsStep ==
  ASSUME IInv, DeliveriesOK, DeliveriesOK', ReasonsOK, Requests = {}, [Next]_vars
  PROVE  ReasonsOK'
<1> USE DEF IInv, TypeOK
<1>0. /\ \A r \in Runs : tries[r] \in Nat
      /\ Actors = Workers
      /\ "idle" \notin PhaseSteps
  BY PipelineAssumption DEF QueueTypeOK, Actors, PhaseSteps
<1>1. ASSUME NEW r \in Runs, tries'[r] = 0
      PROVE  reason'[r] = "none"
  <2>1. tries[r] = 0 /\ reason[r] = "none"
    BY <1>0, <1>1, TriesCountDeliveries DEF ReasonsOK
  <2>2. \A w \in Workers : Fails(w) => on[w] # r
    BY <1>0, <2>1, FailureEndsPhases DEF DeliveriesOK
  <2>3. QED BY <1>0, <2>1, <2>2, ReasonEffect
<1>2. ASSUME NEW w \in Workers, pc[w] \in PhaseSteps, on'[w] = on[w], tries[on[w]] = 1,
             Exists(on[w])', pc'[w] \in PhaseSteps \/ Complete(w)
      PROVE  reason'[on[w]] = "none"
  <2>1. /\ pc[w] # "idle" /\ on[w] \in Runs /\ status[on[w]] # "unborn"
        /\ status'[on[w]] \notin {"unborn", "deleted"}
    BY <1>0, <1>2 DEF Born, ActorTypeOK, Exists
  <2>2. Exists(on[w])
    BY <2>1, ExistedBefore DEF Exists
  <2>3. reason[on[w]] = "none"
    BY <1>2, <2>1, <2>2 DEF ReasonsOK
  <2>4. \A a \in Workers : on[a] = on[w] => ~Fails(a)
    <3> SUFFICES ASSUME NEW a \in Workers, on[a] = on[w], Fails(a)
                 PROVE  FALSE
      OBVIOUS
    <3>1. a = w /\ pc'[w] \notin PhaseSteps
      BY <1>2, <2>1, FailureEndsPhases DEF OneSlotPerJob
    <3>2. Complete(w)
      BY <1>2, <3>1
    <3>3. QED
      BY <3>1, <3>2
      DEF Fails, GitFails, ReviewTimeout, RecordFailure, Complete, At, HandlerSteps
  <2>5. QED BY <1>0, <2>1, <2>3, <2>4, ReasonEffect
<1>3. ASSUME NEW w \in Workers, pc'[w] \in PhaseSteps, Exists(on[w])', tries'[on'[w]] = 1
      PROVE  reason'[on'[w]] = "none"
  <2>1. CASE Delivered(w)
    <3>1. PICK r \in Runs : Pick(w, r) /\ on'[w] = r
      BY <2>1 DEF Delivered
    <3>2. tries[r] = 0 /\ reason' = reason
      BY <1>0, <1>3, <3>1 DEF Pick, QueueTypeOK, dbVars
    <3>3. QED BY <3>1, <3>2 DEF ReasonsOK
  <2>2. CASE Worked(w) \/ Waited(w)
    <3>1. pc[w] # "idle" /\ on'[w] = on[w] /\ pc[w] \in PhaseSteps
      BY <1>3, <2>2, FailureEndsPhases DEF Worked, Waited
    <3>2. tries[on[w]] = 1
      BY <1>3, <3>1, HeldJobKeepsTries
    <3>3. QED BY <1>2, <1>3, <3>1, <3>2
  <2>3. QED BY <1>0, <1>3, <2>1, <2>2, SlotHistory
<1>4. ASSUME NEW r \in Runs, status'[r] = "completed", tries'[r] <= 1
      PROVE  reason'[r] = "none"
  <2>1. CASE status[r] = "completed"
    <3>1. tries'[r] = tries[r]
      BY <1>0, <1>4, <2>1, TriesCountDeliveries DEF DeliveriesOK
    <3>2. reason[r] = "none"
      BY <1>4, <2>1, <3>1 DEF ReasonsOK, CompletedHasNoReason
    <3>3. QED BY <1>4, <3>2, ReasonEffect
  <2>2. CASE status[r] # "completed"
    <3>1. PICK w \in Workers : on[w] = r /\ Complete(w)
      BY <1>4, <2>2, OnlyCompleteCompletes
    <3>2. pc[w] \in PhaseSteps /\ on'[w] = on[w]
      BY <3>1 DEF Complete, At, Goto, PhaseSteps
    <3>3. tries[r] = 1
      BY <1>0, <1>4, <3>1, <3>2, HeldJobKeepsTries DEF DeliveriesOK
    <3>4. Exists(on[w])'
      BY <1>4, <3>1, <3>2 DEF Exists
    <3>5. QED BY <1>2, <3>1, <3>2, <3>3, <3>4
  <2>3. QED BY <2>1, <2>2
<1>5. QED BY <1>1, <1>3, <1>4 DEF ReasonsOK, CompletedHasNoReason

\* However many slots, crashes, cancellations and lost handler writes there are:
\* a run completed by the first delivery of its job carries no failure_reason.
THEOREM CompletedRunsHaveNoReason ==
  ASSUME Requests = {}
  PROVE  Spec => []CompletedHasNoReason
<1>1. Init => ReasonsOK
  BY DEF Init, ReasonsOK, CompletedHasNoReason, Actors, PhaseSteps
<1>2. IInv /\ DeliveriesOK /\ DeliveriesOK' /\ ReasonsOK /\ [Next]_vars => ReasonsOK'
  BY ReasonsStep
<1>3. ReasonsOK => CompletedHasNoReason
  BY DEF ReasonsOK
<1>4. QED BY <1>1, <1>2, <1>3, Inductive, DeliveriesInductive, PTL DEF Spec

----------------------------------------------------------------------------
(* The report on disk *)

Current(r) == {[findings |-> findings[r], scores |-> scores[r]]}

\* Until its job leaves it, a worker's snapshot and then its file are what the
\* database has.
FilesOK ==
  /\ \A w \in Workers : pc[w] # "idle" /\ Exists(on[w]) =>
       /\ pc[w] = "rendered" => /\ seen[w].findings = findings[on[w]]
                                /\ seen[w].scores = scores[on[w]]
       /\ pc[w] \in {"reporting", "finish"} => file[on[w]] = Current(on[w])
  /\ ReportFileIsCurrent

LEMMA FileEffect ==
  ASSUME TypeOK, [Next]_vars, NEW r \in Runs
  PROVE  file'[r] = file[r] \/ \E a \in Actors : on[a] = r /\ ReportWrite(a)
<1> DEFINE Goal == file'[r] = file[r] \/ \E a \in Actors : on[a] = r /\ ReportWrite(a)
<1> USE DEF TypeOK
<1>1. CASE UNCHANGED file
  BY <1>1
<1>2. ASSUME NEW a \in Actors, StageStep(a)
      PROVE  Goal
  <2>1. CASE ReportWrite(a)
    BY <2>1 DEF ReportWrite, DbTypeOK
  <2>2. CASE ~ReportWrite(a)
    BY <1>1, <1>2, <2>2
    DEF StageStep, IngestStart, GitFails, IngestDone, ReviewStart, ReviewDone, ScoreStart,
        ScoreDone, ReportStart, ReportDone, PhaseRaises, Abort
  <2>3. QED BY <2>1, <2>2
<1>3. ASSUME NEW w \in Workers, WorkerStep(w)
      PROVE  Goal
  BY <1>1, <1>2, <1>3
  DEF WorkerStep, ReviewSkipped, ReviewTimeout, Complete, RecordFailure, HandlerDbFails,
      FinishJob, Actors
<1>4. ASSUME NEW s, \/ Enqueue(s) \/ EnqueueFails(s) \/ GiveUp(s) \/ DeleteRun(s)
                    \/ \E parent : NewRun(s, parent)
                    \/ \E w : Pick(w, s)
                    \/ \E q, step : StageRequest(q, s, step)
      PROVE  UNCHANGED file
  BY <1>4 DEF Enqueue, EnqueueFails, GiveUp, DeleteRun, NewRun, Pick, StageRequest
<1>5. ASSUME NEW w, Crash(w) \/ JobTimeout(w)
      PROVE  UNCHANGED file
  BY <1>5 DEF Crash, JobTimeout
<1>6. CASE Midnight \/ UNCHANGED vars
  BY <1>6 DEF Midnight, vars
<1>7. Goal
  BY <1>1, <1>2, <1>3, <1>4, <1>5, <1>6
  DEF Next, CreateRun, GithubWebhook, GitlabWebhook, RetryRun, Actors,
      trigger_ingest, trigger_review, trigger_score, trigger_report
<1>8. QED BY <1>7

\* What the report shows of a run changes only while its job is reviewed or
\* scored, when the run is not completed, and in a deletion.
LEMMA ShownEffect ==
  ASSUME IInv, Requests = {}, [Next]_vars, NEW r \in Runs, Exists(r)'
  PROVE  \/ findings'[r] = findings[r] /\ scores'[r] = scores[r]
         \/ \E w \in Workers : /\ on[w] = r /\ pc[w] \in {"reviewing", "scoring"}
                               /\ Exists(r) /\ status[r] # "completed"
<1>1. DbStep(r)
  BY Effect DEF IInv
<1>2. Actors = Workers
  BY DEF Actors
<1>3. CASE Staged(r)
  <2>1. PICK w \in Workers : pc[w] # "idle" /\ on[w] = r /\ StageWrites(w, r)
    BY <1>2, <1>3 DEF Staged
  <2>2. CASE Exists(r) /\ pc[w] \in {"reviewing", "scoring"}
    BY <2>1, <2>2 DEF IInv, WorkersBuild, BuildsOn, Working, PhaseSteps
  <2>3. QED BY <2>1, <2>2 DEF StageWrites
<1>4. QED
  BY <1>1, <1>3 DEF DbStep, Same, Created, Deleted, Completed, Rest, Exists

\* How a worker comes to the steps of the report.
LEMMA ReportSteps ==
  ASSUME TypeOK, NEW w \in Workers, WorkerStep(w),
         pc'[w] \in {"rendered", "reporting", "finish"}
  PROVE  \/ pc'[w] = "rendered" /\ UNCHANGED <<findings, scores>>
            /\ seen'[w] = [copies |-> 0, findings |-> findings[on[w]],
                           scores |-> scores[on[w]]]
         \/ pc'[w] = "reporting" /\ pc[w] = "rendered" /\ ReportWrite(w)
         \/ pc'[w] = "finish" /\ pc[w] = "reporting" /\ UNCHANGED file
<1> USE DEF TypeOK
<1>0. w \in Actors
  BY DEF Actors
<1>1. CASE StageStep(w)
  <2>1. CASE ReportStart(w) /\ ~Abort(w)
    BY <1>0, <2>1, GotoEffect DEF ReportStart, dbVars
  <2>2. CASE ReportWrite(w)
    BY <1>0, <2>2, GotoEffect DEF ReportWrite, At
  <2>3. CASE ReportDone(w) /\ ~Abort(w)
    BY <1>0, <2>3, AdvanceEffect DEF ReportDone, At
  <2>4. CASE Abort(w)
    BY <1>0, <2>4, AbortEffect
  <2>5. CASE GitFails(w)
    BY <1>0, <2>5, AdvanceEffect DEF GitFails, Raise
  <2>6. pc'[w] \notin {"idle", "fetching", "review", "reviewing", "score", "scoring",
                       "report", "handle"}
    OBVIOUS
  <2>7. CASE (IngestStart(w) \/ ReviewStart(w) \/ ScoreStart(w)) /\ ~Abort(w)
    BY <1>0, <2>6, <2>7, GotoEffect DEF IngestStart, ReviewStart, ScoreStart
  <2>8. CASE (IngestDone(w) \/ ReviewDone(w) \/ ScoreDone(w)) /\ ~Abort(w)
    BY <1>0, <2>6, <2>8, AdvanceEffect DEF IngestDone, ReviewDone, Raise, ScoreDone
  <2>9. QED
    BY <1>1, <2>1, <2>2, <2>3, <2>4, <2>5, <2>7, <2>8 DEF StageStep, PhaseRaises
<1>2. CASE \/ ReviewSkipped(w) \/ ReviewTimeout(w) \/ Complete(w)
           \/ RecordFailure(w) \/ HandlerDbFails(w) \/ FinishJob(w)
  BY <1>0, <1>2, GotoEffect, AdvanceEffect, LeaveEffect
  DEF ReviewSkipped, ReviewTimeout, Complete, RecordFailure, HandlerDbFails, FinishJob
<1>3. QED BY <1>1, <1>2 DEF WorkerStep

LEMMA FilesStep ==
  ASSUME IInv, FilesOK, Requests = {}, [Next]_vars
  PROVE  FilesOK'
<1> USE DEF IInv, TypeOK
<1>0. Actors = Workers
  BY DEF Actors
<1>1. ASSUME NEW w \in Workers, pc[w] \in {"rendered", "reporting", "finish"},
             on'[w] = on[w], Exists(on[w])'
      PROVE  /\ on[w] \in Runs /\ Exists(on[w])
             /\ findings'[on[w]] = findings[on[w]] /\ scores'[on[w]] = scores[on[w]]
             /\ file'[on[w]] = file[on[w]] \/ ReportWrite(w)
  <2>1. /\ pc[w] # "idle" /\ on[w] \in Runs /\ status[on[w]] # "unborn"
        /\ status'[on[w]] \notin {"unborn", "deleted"}
    BY <1>0, <1>1 DEF Born, ActorTypeOK, Exists
  <2>2. Exists(on[w])
    BY <2>1, ExistedBefore DEF Exists
  <2>3. \A a \in Workers : on[a] = on[w] /\ pc[a] # "idle" => a = w
    BY <2>1 DEF OneSlotPerJob
  <2>4. findings'[on[w]] = findings[on[w]] /\ scores'[on[w]] = scores[on[w]]
    BY <1>1, <2>1, <2>3, ShownEffect DEF Exists
  <2>5. file'[on[w]] = file[on[w]] \/ ReportWrite(w)
    BY <1>0, <2>1, <2>3, FileEffect DEF ReportWrite, At
  <2>6. QED BY <2>1, <2>2, <2>4, <2>5
<1>2. ASSUME NEW w \in Workers, pc'[w] # "idle", Exists(on[w])'
      PROVE  /\ pc'[w] = "rendered" => /\ seen'[w].findings = findings'[on'[w]]
                                       /\ seen'[w].scores = scores'[on'[w]]
             /\ pc'[w] \in {"reporting", "finish"} => file'[on'[w]] = Current(on[w])'
  <2>1. CASE Delivered(w)
    BY <2>1 DEF Delivered
  <2>2. CASE Worked(w)
    <3>1. pc[w] # "idle" /\ on'[w] = on[w] /\ WorkerStep(w)
      BY <2>2 DEF Worked
    <3>2. CASE pc'[w] = "rendered"
      <4>1. /\ findings' = findings /\ scores' = scores
            /\ seen'[w] = [copies |-> 0, findings |-> findings[on[w]],
                           scores |-> scores[on[w]]]
        BY <3>1, <3>2, ReportSteps
      <4>2. QED BY <3>1, <3>2, <4>1
    <3>3. CASE pc'[w] = "reporting"
      <4>1. pc[w] = "rendered" /\ ReportWrite(w)
        BY <3>1, <3>3, ReportSteps
      <4>2. /\ on[w] \in Runs /\ Exists(on[w])
            /\ findings'[on[w]] = findings[on[w]] /\ scores'[on[w]] = scores[on[w]]
        BY <1>1, <1>2, <3>1, <4>1
      <4>3. seen[w].findings = findings[on[w]] /\ seen[w].scores = scores[on[w]]
        BY <4>1, <4>2 DEF FilesOK
      <4>4. file'[on[w]] = {[findings |-> seen[w].findings, scores |-> seen[w].scores]}
        BY <4>1, <4>2 DEF ReportWrite, DbTypeOK
      <4>5. QED BY <3>1, <3>3, <4>2, <4>3, <4>4 DEF Current
    <3>4. CASE pc'[w] = "finish"
      <4>1. pc[w] = "reporting" /\ file' = file
        BY <3>1, <3>4, ReportSteps
      <4>2. /\ on[w] \in Runs /\ Exists(on[w])
            /\ findings'[on[w]] = findings[on[w]] /\ scores'[on[w]] = scores[on[w]]
        BY <1>1, <1>2, <3>1, <4>1
      <4>3. QED BY <3>1, <3>4, <4>1, <4>2 DEF FilesOK, Current
    <3>5. QED BY <3>2, <3>3, <3>4
  <2>3. CASE Waited(w)
    <3>1. CASE pc[w] \in {"rendered", "reporting", "finish"}
      <4>1. /\ on[w] \in Runs /\ Exists(on[w])
            /\ findings'[on[w]] = findings[on[w]] /\ scores'[on[w]] = scores[on[w]]
            /\ file'[on[w]] = file[on[w]] \/ ReportWrite(w)
        BY <1>1, <1>2, <2>3, <3>1 DEF Waited
      <4>2. ~ReportWrite(w)
        BY <1>0, <2>3, GotoEffect DEF Waited, ReportWrite, At
      <4>3. QED BY <2>3, <4>1, <4>2 DEF Waited, FilesOK, Current
    <3>2. QED BY <2>3, <3>1 DEF Waited
  <2>4. QED BY <1>2, <2>1, <2>2, <2>3, SlotHistory
<1>3. ASSUME NEW r \in Runs, status'[r] = "completed"
      PROVE  file'[r] = Current(r)'
  <2>1. CASE status[r] = "completed"
    <3>1. findings'[r] = findings[r] /\ scores'[r] = scores[r]
      BY <1>3, <2>1, ShownEffect DEF Exists
    <3>2. \A w \in Workers : on[w] = r => ~ReportWrite(w)
      BY <2>1 DEF ReportWrite, At, WorkersBuild, BuildsOn, Working, PhaseSteps, Exists
    <3>3. QED
      BY <1>0, <2>1, <3>1, <3>2, FileEffect DEF FilesOK, ReportFileIsCurrent, Current
  <2>2. CASE status[r] # "completed"
    <3>1. PICK w \in Workers : on[w] = r /\ Complete(w)
      BY <1>3, <2>2, OnlyCompleteCompletes
    <3>2. pc[w] = "finish" /\ on' = on /\ UNCHANGED <<findings, scores, file>>
      BY <3>1 DEF Complete, At, Goto
    <3>3. Exists(r)
      BY <1>1, <1>3, <3>1, <3>2 DEF Exists
    <3>4. file[r] = Current(r)
      BY <3>1, <3>2, <3>3 DEF FilesOK
    <3>5. QED BY <3>2, <3>4 DEF Current
  <2>3. QED BY <2>1, <2>2
<1>4. QED BY <1>2, <1>3 DEF FilesOK, ReportFileIsCurrent, Current

\* Though the file is written before its row is committed and survives crashes
\* and deletions, a completed run's file shows what the database has.
THEOREM CompletedReportIsCurrent ==
  ASSUME Requests = {}
  PROVE  Spec => []ReportFileIsCurrent
<1>1. Init => FilesOK
  BY DEF Init, FilesOK, ReportFileIsCurrent, Actors
<1>2. IInv /\ FilesOK /\ [Next]_vars => FilesOK'
  BY FilesStep
<1>3. FilesOK => ReportFileIsCurrent
  BY DEF FilesOK
<1>4. QED BY <1>1, <1>2, <1>3, Inductive, PTL DEF Spec
=============================================================================
