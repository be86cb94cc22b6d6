----------------------------- MODULE ReviewRun -----------------------------
(***************************************************************************)
(* The drivers of the review agents: review_run, called by the worker and  *)
(* by the gateway, with the scoring that follows it; and the script        *)
(* shadow_pilot, which reviews one range of commits, or several samples,   *)
(* without a database.                                                     *)
(***************************************************************************)
EXTENDS AgentReview, SequencesExt

CONSTANTS ValidCategories,  \* enums of reviewer-finding.schema.json
          Samples,          \* --samples of the benchmark
          NoAnswer          \* of a unit, to ReviewContract

ASSUME RunAssumption ==
  /\ Samples \in Nat \ {0}
  /\ NoAnswer \notin Seq(RawFinding)

Scoring == INSTANCE Scoring

VARIABLES
  kind,     \* what the filters see in a unit
  phase,    \* what the driver does next
  found,    \* the findings of all answers, numbered
  next,     \* the one to persist next
  stored,   \* what the session holds of them, or the script's list
  score,    \* the score, once computed
  collected,\* samples measured
  sample    \* samples begun

runVars == <<kind, phase, found, next, stored, score, collected, sample>>
vars    == <<agentVars, runVars>>

Kinds == {"code",     \* a text file, in the work tree, of reviewable size
          "unfit",    \* one that the worker's filter does not find there, or finds too large or trivial
          "vendor"}   \* binary, generated or vendored
NoScore == 9999

Init ==
  /\ AgentInit
  /\ driver \in Drivers
  /\ kind \in [Units -> Kinds]
  /\ phase = CASE driver = "worker" -> "load" [] driver = "gateway" -> "start" [] OTHER -> "fetch"
  /\ found = <<>> /\ next = 1 /\ stored = <<>> /\ score = NoScore
  /\ collected = 0 /\ sample = 1

Proceed(p) == phase' = p

\* is_worth_reviewing, or the weaker filter where no work tree is known.
Reviewable ==
  {u \in Units : kind[u] = "code" \/ (kind[u] = "unfit" /\ driver # "worker")}

-----------------------------------------------------------------------------
(* The service *)

LoadProvider ==
  /\ phase = "load" /\ Proceed("start")
  /\ UNCHANGED <<agentVars, kind, found, next, stored, score, collected, sample>>

\* No provider configured, or its credentials missing: the review is skipped.
NoProvider ==
  /\ phase = "load" /\ Proceed("score")
  /\ UNCHANGED <<agentVars, kind, found, next, stored, score, collected, sample>>

\* The status is committed before the agents start.
ReviewStart ==
  /\ phase = "start"
  /\ Proceed(IF Reviewable = {} THEN "nothing" ELSE "agents")
  /\ Launch(Reviewable)
  /\ UNCHANGED <<driver, session, dirty, kind, found, next, stored, score, collected, sample>>

ReviewNothing ==
  /\ phase = "nothing" /\ Proceed("score")
  /\ UNCHANGED <<agentVars, kind, found, next, stored, score, collected, sample>>

Pool == {u \in Units : pc[u] # "idle"}

\* Mutant: findings are numbered as the agents hand them in, the last unit first.
InUnitOrder_Reversed(batches) == FlattenSeq(Reverse(batches))

InUnitOrder(batches) == FlattenSeq(batches)

\* The findings of a batch with their unit.
OfUnit(u) == [i \in DOMAIN batch[u] |-> [unit |-> u, finding |-> batch[u][i]]]

\* gather returned: every finding gets its number and its dedupe key.
Gather ==
  /\ phase = "agents"
  /\ \A u \in Pool : pc[u] = "done"
  /\ LET all == InUnitOrder([u \in Units |-> OfUnit(u)])
     IN found' = [i \in DOMAIN all |->
                    [id |-> i, unit |-> all[i].unit, finding |-> all[i].finding]]
  /\ next' = 1
  /\ Proceed(CASE Service -> "persist" [] driver = "shadow" -> "convert" [] OTHER -> "collect")
  /\ UNCHANGED <<agentVars, kind, stored, score, collected, sample>>

\* The first task that fails ends the review; gather does not cancel the others.
GatherRaises ==
  /\ phase = "agents"
  /\ \E u \in Pool : pc[u] = "raised"
  /\ Proceed("failed")
  /\ UNCHANGED <<agentVars, kind, found, next, stored, score, collected, sample>>

Valid(f) == f.cat \in ValidCategories /\ f.sev \in Scoring!Severities

\* validate: a finding that does not fit the schema is skipped.
PersistInvalid ==
  /\ phase = "persist" /\ next <= Len(found)
  /\ ~ Valid(found[next].finding)
  /\ next' = next + 1
  /\ UNCHANGED <<agentVars, kind, phase, found, stored, score, collected, sample>>

Persist ==
  /\ phase = "persist" /\ next <= Len(found)
  /\ Valid(found[next].finding) /\ session = "ok"
  /\ stored' = Append(stored, found[next])
  /\ next' = next + 1
  /\ UNCHANGED <<agentVars, kind, phase, found, score, collected, sample>>

\* Mutant: each finding is persisted in a savepoint of its own.
PersistFails_Savepoint ==
  /\ phase = "persist" /\ next <= Len(found)
  /\ Valid(found[next].finding)
  /\ session = "broken" \/ Faults \cap {"clash", "db"} # {}
  /\ next' = next + 1
  /\ UNCHANGED <<agentVars, kind, phase, found, stored, score, collected, sample>>

\* The number is taken by another run of the day, or the database fails: the
\* exception is logged, and the session is broken from here on.
PersistFails ==
  /\ phase = "persist" /\ next <= Len(found)
  /\ Valid(found[next].finding)
  /\ session = "broken" \/ Faults \cap {"clash", "db"} # {}
  /\ session' = "broken"
  /\ next' = next + 1
  /\ UNCHANGED <<driver, pc, turn, batch, slots, dirty,
                 kind, phase, found, stored, score, collected, sample>>

\* The status and the audit event; the commit is sent.
ReviewDone ==
  /\ phase = "persist" /\ next > Len(found) /\ session = "ok"
  /\ Proceed("commit")
  /\ UNCHANGED <<agentVars, kind, found, next, stored, score, collected, sample>>

\* The commit is answered.
ReviewCommit ==
  /\ phase = "commit" /\ Proceed("score")
  /\ UNCHANGED <<agentVars, kind, found, next, stored, score, collected, sample>>

\* What is left of the transaction of a review that is given up: the commit took
\* effect or not if it was sent, and before that nothing is committed.
Committed == IF phase = "commit" THEN {stored, <<>>} ELSE {<<>>}

\* update_status raises in a broken session, or the database fails.
ReviewFails ==
  /\ (phase = "persist" /\ next > Len(found)) \/ phase = "commit"
  /\ session = "broken" \/ "db" \in Faults
  /\ Proceed("failed")
  /\ stored' \in Committed
  /\ UNCHANGED <<agentVars, kind, found, next, score, collected, sample>>

\* Mutant: the agents are not cancelled with their review.
Cancelled_AgentsGoOn == UNCHANGED <<pc, turn, batch, slots>>

\* wait_for cancels review_run, which cancels gather and its tasks.
Cancelled == Launch({})

\* Mutant: what a cancelled review has written is committed with its status.
Cancel_CommitsTheRest ==
  /\ "cancel" \in Faults /\ Service
  /\ phase \in {"nothing", "agents", "persist", "commit"}
  /\ Proceed("failed")
  /\ Cancelled
  /\ UNCHANGED <<driver, session, dirty, kind, found, next, stored, score, collected, sample>>

\* The review's timeout, or the end of the worker's job.  A statement that is
\* cancelled loses its connection, and with it the transaction: the handler's own
\* update_status raises in that session, and the status is written in another.
Cancel ==
  /\ "cancel" \in Faults /\ Service
  /\ phase \in {"nothing", "agents", "persist", "commit"}
  /\ Proceed("failed")
  /\ Cancelled
  /\ stored' \in Committed
  /\ UNCHANGED <<driver, session, dirty, kind, found, next, score, collected, sample>>

-----------------------------------------------------------------------------
(* The shadow pilot *)

FetchDone ==
  /\ phase = "fetch" /\ Proceed("diff")
  /\ UNCHANGED <<agentVars, kind, found, next, stored, score, collected, sample>>

\* Exit code 1: the fetch failed, or no pairs of commits were found.
FetchFails ==
  /\ phase = "fetch" /\ Proceed("failed")
  /\ UNCHANGED <<agentVars, kind, found, next, stored, score, collected, sample>>

\* Merge base, diff and hunks; a failure to extract hunks is logged only.
DiffDone ==
  /\ phase = "diff" /\ Proceed("agents")
  /\ Launch(Reviewable)
  /\ UNCHANGED <<driver, session, dirty, kind, found, next, stored, score, collected, sample>>

\* A single run gives up, a benchmark leaves the sample out.
DiffFails ==
  /\ phase = "diff"
  /\ Proceed(IF driver = "shadow" THEN "failed" ELSE "next")
  /\ UNCHANGED <<agentVars, kind, found, next, stored, score, collected, sample>>

\* No API key: a single run is scored without a review.
SkipReview ==
  /\ phase = "diff" /\ driver = "shadow"
  /\ Proceed("score")
  /\ UNCHANGED <<agentVars, kind, found, next, stored, score, collected, sample>>

\* _to_finding_objs: a confidence that is no number ends the script.
Convertible == \A i \in DOMAIN found : found[i].finding.conf # "text"

Convert ==
  /\ phase = "convert" /\ Convertible
  /\ Proceed("score")
  /\ stored' = found
  /\ UNCHANGED <<agentVars, kind, found, next, score, collected, sample>>

ConvertFails ==
  /\ phase = "convert" /\ ~ Convertible
  /\ Proceed("failed")
  /\ UNCHANGED <<agentVars, kind, found, next, stored, score, collected, sample>>

\* The benchmark counts the findings.
Collect ==
  /\ phase = "collect" /\ Proceed("counted")
  /\ stored' = found
  /\ collected' = collected + 1
  /\ UNCHANGED <<agentVars, kind, found, next, score, sample>>

\* The next pair of commits, with a diff of its own.
NextSample ==
  /\ phase \in {"counted", "next"} /\ sample < Samples
  /\ Proceed("diff")
  /\ Launch({})
  /\ kind' \in [Units -> Kinds]
  /\ sample' = sample + 1
  /\ found' = <<>> /\ next' = 1 /\ stored' = <<>>
  /\ UNCHANGED <<driver, session, dirty, score, collected>>

\* The table is appended to the output; exit code 1 if there is no sample in it.
BenchDone ==
  /\ phase \in {"counted", "next"} /\ sample = Samples
  /\ Proceed(IF collected = 0 THEN "failed" ELSE "done")
  /\ UNCHANGED <<agentVars, kind, found, next, stored, score, collected, sample>>

-----------------------------------------------------------------------------
(* Scoring *)

DedupeKey(k) == IF Service THEN <<k.finding.at, k.finding.cat>> ELSE k.id

Default(value, otherwise) == IF value = "absent" THEN otherwise ELSE value

\* A finding as compute_score sees it.
Scorable(k) ==
  [cat |-> Default(k.finding.cat, "unknown"), sev |-> Default(k.finding.sev, "informational"),
   conf |-> Tenths[Default(k.finding.conf, "usual")], dedupe |-> DedupeKey(k)]

Ordered(order) == [i \in DOMAIN order |-> Scorable(order[i])]

\* The database lists the findings of a run in any order, the script in its own.
Orders == IF Service THEN SetToSeqs(ToSet(stored)) ELSE {stored}

Score ==
  /\ phase = "score"
  /\ \E order \in Orders : score' = Scoring!compute_score(Ordered(order))
  /\ Proceed("done")
  /\ UNCHANGED <<agentVars, kind, found, next, stored, collected, sample>>

-----------------------------------------------------------------------------
ServiceStep ==
  \/ LoadProvider \/ NoProvider \/ ReviewStart \/ ReviewNothing
  \/ Persist \/ PersistInvalid \/ PersistFails
  \/ ReviewDone \/ ReviewCommit \/ ReviewFails

ShadowStep ==
  \/ FetchDone \/ FetchFails \/ DiffDone \/ DiffFails \/ SkipReview
  \/ Convert \/ ConvertFails \/ Collect \/ NextSample \/ BenchDone

RunStep == ServiceStep \/ ShadowStep \/ Gather \/ GatherRaises \/ Score

AgentMove(u) == (AgentStep(u) \/ Escapes(u)) /\ UNCHANGED runVars

Next == RunStep \/ Cancel \/ \E u \in Units : AgentMove(u)

Spec == Init /\ [][Next]_vars

\* Providers and databases answer or time out, and the driver goes on.
Fairness == WF_vars(RunStep) /\ \A u \in Units : WF_vars(AgentMove(u))

FairSpec == Spec /\ Fairness

-----------------------------------------------------------------------------
(* Properties *)

Phases == {"load", "start", "nothing", "agents", "persist", "commit", "fetch", "diff", "convert",
           "collect", "counted", "next", "score", "done", "failed"}
Steps  == {"idle", "queued", "done", "raised"} \cup Busy

(* The types; and a slot of the semaphore is held by exactly the agents that *)
(* run: none is lost, whichever way an agent ends.                           *)
TypeOK ==
  /\ driver \in Drivers
  /\ pc \in [Units -> Steps]
  /\ turn \in [Units -> 0..MaxIter]
  /\ session \in {"ok", "broken"} /\ dirty \in BOOLEAN
  /\ kind \in [Units -> Kinds]
  /\ phase \in Phases
  /\ next \in 1..(Len(found) + 1)
  /\ score \in 0..Scoring!Perfect \cup {NoScore}
  /\ collected \in 0..sample /\ sample \in 1..Samples
  /\ slots \in Nat /\ slots + Cardinality(Running) = Concurrency

(* No agent outlives its review, except in one case: gather raised because   *)
(* the shared session broke.  A review that was cancelled, and will be       *)
(* retried, has none.                                                        *)
AgentsEndWithTheReview ==
  Running # {} => phase = "agents" \/ (phase = "failed" /\ session = "broken")

(* The score of a run whose findings are listed in any order lies between    *)
(* what the heaviest and the lightest finding of each dedupe key would give, *)
(* and is the same in every order if duplicates agree.                       *)
Findings == [i \in DOMAIN stored |-> Scorable(stored[i])]
LossOf(cat, Choice(_)) ==
  SumFunction([key \in {f.dedupe : f \in {g \in ToSet(Findings) : g.cat = cat}} |->
                 Choice({Scoring!Deduction(f) : f \in {g \in ToSet(Findings) : g.dedupe = key}})])
ScoreFor(Choice(_)) ==
  LET loss == SumFunction([cat \in {f.cat : f \in ToSet(Findings)} |->
                             Min({700, LossOf(cat, Choice)})])
  IN IF loss > 2000 THEN 0 ELSE 2000 - loss
ScoreWithinBounds ==
  score # NoScore => ScoreFor(Max) <= score /\ score <= ScoreFor(Min)

(* A review keeps what ReviewContract promises: numbers follow the order of  *)
(* the units whatever order the agents end in, and although every failure to *)
(* persist is swallowed, a review keeps all acceptable findings or none: all *)
(* when it is done, none when it fails, unless its last commit was sent.     *)
Outcome ==
  CASE phase \in {"nothing", "agents", "persist", "commit", "convert", "collect"} -> "open"
    [] phase \in {"score", "done", "counted"} -> "done"
    [] phase = "failed" -> "failed"
    [] OTHER -> "idle"

RawFindings == UNION {ToSet(a) : a \in Answers}
Enriched    == {Enrich(f) : f \in RawFindings}

UnderReview == IF Outcome = "open" THEN Pool ELSE {}

\* What has been reported for each unit under review.
AnswersSoFar ==
  [u \in Units |-> IF Outcome = "open" /\ pc[u] = "done" THEN batch[u] ELSE NoAnswer]

\* What a review that is over has left in the database, or in the script's list.
Kept == IF Outcome = "open" THEN {} ELSE ToSet(stored)

Review == INSTANCE ReviewContract WITH
  Found    <- RawFindings \cup Enriched,
  Accepted <- {f \in Enriched : Valid(f)},
  pool     <- UnderReview,
  strict   <- Service,
  answer   <- AnswersSoFar,
  outcome  <- Outcome,
  kept     <- Kept

KeepsTheContract == Review!Spec

(* Every review ends, whatever the provider asks for and however agents fail. *)
ReviewEnds == <>(phase \in {"done", "failed"})
=============================================================================
