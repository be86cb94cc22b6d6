# TLA+ verification of Agentic-DevOps (DevManager)

DevManager reviews code changes: a webhook or a user starts an *analysis run*,
a worker fetches the repository, lets language-model agents review the diff,
scores what they found and renders a report. Beside this pipeline it keeps a
generated *code map*, mirrors of repositories, settings, and a copy of a
project-management system.

This directory models the parts of it whose correctness depends on
interleavings, failures and restarts. TLC checks the models on small instances;
TLAPS proves every safety property of the runs, the action properties and both
refinements for every value of the constants, some under hypotheses that sections
2.4, 3.3 and 4.3 name; liveness stays with TLC.

| file | what it is |
| --- | --- |
| `RunPipeline.tla` | the life of an analysis run: gateway handlers, ARQ queue, worker pipeline, manual stages |
| `RunLifecycle.tla` | abstract specification: what a reader of the gateway may rely on about a run |
| `RunPipelineProofs.tla` | TLAPS proofs about `RunPipeline`, and that it implements `RunLifecycle` |
| `RunOutcomeProofs.tla` | how runs end: no open run, completion is final, failure reasons, the report on disk |
| `RepoWorkspace.tla` | repositories, the sync lock, the settings that move the clones, git clone and fetch |
| `RepoWorkspaceProofs.tla` | proofs of all its properties |
| `AgentReview.tla` | the agents' loop over provider, tools, audit trail and a shared database session |
| `ReviewRun.tla` | who runs the agents: the review of a run, the shadow pilot and its benchmark; then the scoring |
| `ReviewContract.tla` | abstract specification: what a review keeps, under which number |
| `Scoring.tla` | `compute_score` as an operator |
| `ReviewRunProofs.tla` | proofs about slots, agents, findings and score, and that `ReviewRun` implements `ReviewContract` |
| `CodeMapRegen.tla` | regeneration of the code map: gateway jobs, command line processes, store and files |
| `CodeMapRegenProofs.tla` | proofs about its jobs |
| `CodeMapFilesProofs.tla` | its types, and what the files and the store hold |
| `PmSync.tla` | synchronisation of the requirements platform: overlapping transactions, cursors, paging |
| `PmSyncProofs.tla` | proofs that references resolve, of the types, and of the cursor as a watermark |
| `TeamOps.tla` | persons, identities, the resolution of assignments, the derived tables |
| `TeamOpsProofs.tla` | proofs that references to persons resolve, and that a row has one writer |
| `Rows.tla` | tables as functions from keys to rows, used by the two modules before |
| `MC*.tla`, `*.cfg` | instances for TLC |
| `PROJECT.json` | components, runs, mutants, the map from definitions to source lines, findings, hazards, theorems |

Run a model with `tlc -config pipeline_manual.cfg MCRunPipeline.tla`, check the
proofs with `tlapm RunPipelineProofs.tla` and so on.

## 1. The system

### 1.1 Components

**Gateway, analysis runs** (`routers/analysis_runs.py`, `dependencies.py`).
State: the tables `analysis_runs`, `trigger_events`. Operations: create, retry
(a new run whose parent is the failed one), delete (all rows of the run in one
transaction), enqueue. Interacts with the queue and with the worker through the
database. Hard: the commit comes before `enqueue_job`, so that a refused or
forgotten job leaves a run nobody processes; a run may be deleted while a stage
is about to commit. Correct when no row outlives its run, a run is created or
refused as a whole, and a retry touches failed runs only.

**Webhooks** (`routers/webhook.py`, `webhook_gitlab.py`). Create and enqueue a
run per delivery. Hard: providers deliver again, and nothing remembers a
delivery.

**Manual stages** (`routers/review.py`, `score.py`, `report.py`,
`analysis_runs.py`). POST /ingest, /review, /score, /report run one stage inside
the request on a run of *any* status. Hard: they race with the worker and with
each other, and move settled runs back to open statuses.

**Queue** (ARQ on Redis, configured in `worker/main.py`). A job is delivered at
least once: again when its worker died, at most `max_tries` times; `job_timeout`
cancels it; an ordinary exception ends it for good.

**Worker pipeline** (`worker/tasks.py`). `full_pipeline` runs ingest, review,
score and report, one transaction or more each, and an exception handler that
records the failure with a new session. Hard: redelivery after a crash finds
the results of the first attempt; cancellation passes `except Exception`; the
handler's own errors are swallowed; the review timeout has a handler inside the
handler. Correct when a job that ends leaves its run completed or failed, when
completed means scored and reported, and when every run ends.

**Git ingestion** (`packages/git`). Clones or fetches a mirror, diffs, parses
hunks, inserts `change_units`. Hard: a repeated ingest doubles the diff.

**Agent review** (`packages/agents`). Filters the change units, runs an agent for
each, up to three at a time, then validates and inserts the findings. An agent
asks a provider, which answers or asks for tools, at most `DEFAULT_MAX_ITER`
times. Hard: finding ids are unique in the whole table but counted per day from
one; the agents share one session, whose operations collide; every failure of an
agent, a tool, an audit event or an insert is swallowed. Correct when the review
ends, returns its slots, and keeps all acceptable findings or none.

**Scoring** (`packages/scoring`). `score_run` reads findings and inserts a score;
`compute_score` is arithmetic: deductions by severity, duplicates counted once,
a cap per category, a grade. Hard: check and insert are far apart; which of two
duplicates counts depends on the order of the rows, which nothing fixes.

**Shadow pilot** (`scripts/shadow_pilot.py`). Reviews and scores one range of
commits, or several samples for a benchmark, without a database.

**Reporting** (`packages/reporting`). Renders score and findings to a file in
`REPORTS_DIR`, then inserts a row. Hard: file and row can disagree.

**Code map** (`routers/code_map`). State: an in-memory store of scope graphs, the
files under `docs/code-map`, the job dicts of the gateway. Operations:
regenerate (optionally after `git pull`), poll, and a command line entry point
that a git hook calls in a process of its own. Hard: threads and processes write
the same files; a scope fails half way; the gateway forgets its store and jobs
when it restarts. Correct when readers never see half a file, when what is shown
as fresh is what is on the disk, and when jobs end and report what happened.

**Repositories, settings, workspace** (`routers/repositories.py`,
`routers/settings.py`, `packages/git/fetcher.py`). State: tables `repositories`
and `settings`, the mirrors on disk, per-repository sync locks. Hard: the lock is
tested before an await and taken after it; a settings request moves directories
before it commits; two clones of one mirror.

**PM synchronisation** (`services/pm-integration`, `daos/team_ops`). State: tables
of iterations, issues, assignments and cursors. A full run (daily) fetches what is
live and resets the cursors; an incremental run (hourly) fetches what changed
after the cursor and moves it. Each run is one transaction. Hard: runs overlap and
nothing but the database orders them; a batch swallows the errors of its items; a
run that failed commits its rows; an item that refers to one not stored yet is
skipped or stored without the reference while the cursor moves on; listings change
between pages. Correct when references resolve, no cursor is ahead of its rows,
and the database catches up with the platform.

**Persons, identities, recomputation** (`daos/team_ops`, `recompute/`). Persons have
identities on GitLab and on the requirements platform; the sync resolves
assignments through the latter, the recomputations derive workload, capacity and
familiarity rows. Hard: persons are deleted and remapped while a sync or a
recomputation holds what it read; recomputations overlap and lock rows in
different orders. Correct when references resolve and the derived rows come to
agree with the data.

**PM webhook** (`webhook.py`). A stub that answers "disabled".

**No behaviour to model**: secrets (encrypts one value), read-only endpoints
(findings, change units, audit events), publication requests (a stateless
decision), the web page, domain types and contracts, services that consist of a
README. `POST /v1/trigger-events` fails on every accepted request, since its call
of `run_dao.create` lacks an argument, and rolls back.

### 1.2 Interactions

Gateway and worker share the database and the queue, nothing else; their only
synchronisation is the database's constraints (foreign keys to `analysis_runs`,
`UNIQUE(run_id)` of scores and reports, `UNIQUE(finding_id)`). The report file
and the mirrors are written outside any transaction. Code-map jobs are threads
of the gateway that share one store; the command line shares only the files.

## 2. RunPipeline

### 2.1 State and actions

| variable | code |
| --- | --- |
| `status`, `reason` | `analysis_runs.status`, `.failure_reason`; `"unborn"` and `"deleted"` for no row |
| `retryOf` | the run named by the trigger event of a retry |
| `copies` | how often the run's diff was inserted into `change_units` (2 stands for more) |
| `findings`, `scores`, `report` | the child rows; a score is the set of findings it was computed from |
| `file` | what the file in `REPORTS_DIR` was rendered from |
| `job`, `tries` | the ARQ entry of the run and its deliveries |
| `day` | the UTC date that `review_run` puts in finding ids |
| `pc`, `on`, `seen` | for each job slot and each manual request: the next step, the run, what the stage has read |

One action is one transaction, one write to the disk, or one step of the queue.
Between a stage's read (`ScoreStart`, `ReportStart`, `ReviewStart`) and its commit
(`ScoreDone`, `ReportWrite` and `ReportDone`, `ReviewDone`) everybody else may
move. Workers and manual requests execute the same stage actions; they differ in
what follows (`Advance`): the worker goes on to the next phase, the request
answers. An exception (`Raise`) takes a worker to its handler; `PhaseRaises` lets
every phase fail anywhere. A constraint the database refuses (`Abort`) rolls the
whole transaction back.

`Faults` chooses what the environment may do: `crash` (worker dies, job is
delivered again), `job_timeout` (cancellation that no handler sees), `handler_db`
(the failure handler's own error is swallowed), `queue` (enqueueing fails).

Abstractions: a diff is inserted or not, its content is left out; a finding is
its id; a score and a rendered file are the set of findings they were made from;
review tasks, audit events and the status history are left out; the three agents
of a review are one step whose result is any subset of the possible findings.
A review that is cancelled commits no finding: the cancellation reaches it in an
await of the database, which loses the transaction of its session. The exception is
its last await, the commit: a timeout that meets a commit already sent lets it take
effect, and the worker goes to its handler all the same (`ReviewDone`, second outcome).

### 2.2 Runs

| run | instance | shows |
| --- | --- | --- |
| `pipeline_manual` | 1 run, 1 slot, 1 manual request, 2 days, 2 deliveries, all faults | types; completed runs have results; no orphan rows; a completed run's score is of its findings; a score is written once; a completed run stays completed; the refinement |
| `pipeline_crash` | 2 runs, 2 slots, crashes, failing queue | a finished job leaves no open run; the report file of a completed run is current; a completed run carries no failure reason |
| `pipeline_live` | 1 run, 1 slot, up to 2 crashes, failing queue, fairness | every queued job and every accepted run settles |

Why these bounds are enough: stages of different runs meet only in the unique
finding ids and in the job slots, for which two runs and two slots suffice; all
other races are between actors of one run, of which `pipeline_manual` has the
worker, a redelivered worker and a manual request. One finding per review makes
two reviews of one day collide; two days let a redelivered review succeed. Two
deliveries are one more than the undisturbed case, and `pipeline_live` has three.

Where a run leaves a fault out, or a property excludes a case, the property is
false with it and the code does not promise otherwise: after `job_timeout` or
`handler_db` a job may be done with its run open (so `NoRunIsStuck` has neither);
a manual request may move a completed run back or render a report of another
moment (so `CompletedIsFinal` excepts the steps of such requests, and
`ReportFileIsCurrent` has none); a redelivery may fail a run that had been
completed just before the crash, or complete one that carries the reason of the
first delivery (so `CompletedIsFinal` and `CompletedHasNoReason` speak of runs
whose job was delivered at most once). `RunSettles` excepts runs whose job the
queue never took. `CHECK_DEADLOCK` is off because the system rests when every run
is settled.

### 2.3 Fairness

`FairSpec` is used for the liveness properties only. Weak fairness is assumed
for a handler that is between its commit and its enqueueing, for ARQ's poll loop
and for the steps of a worker: event loops that run as long as their process
does. `wait_for` bounds the review, and git, the database and the disk answer or
raise. Nothing is assumed of users, faults or the clock; crashes are bounded by
`MaxTries`, as in ARQ.

### 2.4 What is proved

`RunPipelineProofs` shows, for any sets of runs, slots and requests, any bounds
and every fault, from `PipelineAssumption` alone (the ids are disjoint, the
bounds are positive naturals):

- `TypeCorrect`, `NoOrphanRows`, `ScoreIsFinal`: by induction on the property
  itself, `Effect` being the lemma that says what one step may do to the rows of
  one run;
- `CompletedRunsHaveResults` and `CompletedScoreIsCurrent`. Neither is inductive:
  that `Complete` finds a score and a report depends on what the phases before it
  have committed, also when the score in the database is another actor's. The
  invariant `IInv` adds three parts. `Born`: an actor works on a run only after it
  was created, and nothing precedes a run. `OneSlotPerJob`: at most one slot works
  on a job, and only while its entry says running. `WorkersBuild`: a worker past a
  phase, on a run that still exists, can rely on that phase's rows, and no
  findings are added after its review. Then `CompletedOK` is the two properties
  themselves. `Inductive` is `Spec => []IInv`, with one lemma per part.
- `Refinement`: `Spec => ImplementsLifecycle`, every step being a step of
  `RunLifecycle` on one run or a stutter under the mapping at the end of
  `RunPipeline`.

`RunLifecycle` is what the web page and the API's users may count on: success is
announced with results, results stay until deletion, deletion is final. It says
on purpose that a settled run may be reopened, because the manual endpoints do
so.

`RunOutcomeProofs` proves `NoRunIsStuck` as `NoRunIsLeftOpen`, from the assumption
`Undisturbed` that the run of section 2.2 makes too: no manual requests, no
cancelled job, no lost failure record; crashes and a failing queue are allowed.
Besides `IInv` it needs that a worker at its last step has settled its run, and
`OneSlotPerJob` to exclude another worker that could reopen it.

The same module proves three more, each with its own addition to `IInv`:

- `CompletionIsFinal`, for every fault and with manual requests. `DeliveriesOK` counts
  deliveries: a run is not completed before its job is delivered, and during the first
  delivery only by the step that ends it, so that a completed run with one delivery
  has no worker left that could move it.
- `CompletedRunsHaveNoReason`, without manual requests (`Requests = {}`). `ReasonsOK`
  says that the first delivery has recorded no failure as long as it is in its phases.
- `CompletedReportIsCurrent`, without manual requests. `FilesOK` says that from the
  rendering until its job leaves it, a worker's snapshot, and then its file, are what
  the database has: nobody else writes findings or a score of that run meanwhile.

The hypothesis is needed in both: a failed manual stage leaves its reason on a run
that a worker then completes, and a manual report that was rendered before the score
was there overwrites the worker's file. Only model-checked: liveness (`JobSettles`, `RunSettles`), since TLAPS handles no fairness.

## 3. CodeMapRegen

### 3.1 State and actions

`store` and `streak` are `CodeMapStore._scopes` and `._stale_streak` of the gateway
and of each command line process, whose store dies with it. `file` and `tmp` are
a scope's JSON file (or `index.json`) and its `.tmp`; `fd` says whether the file a
regenerator has open is still at the temporary name, has been renamed by
another, or has been replaced and so is nowhere. `status`, `phase`, `asked`,
`processed` and `failed` are the job dicts; `pc`, `todo`, `work` are the local state
of `_do_regen_phase`, `main` and `regen_one_scope`. A graph is its version and its
writer, a file its kind (absent, empty, torn, whole) and the graphs in it.

`_atomic_write_json` is three actions: `Open` creates or truncates, `Write` writes
(into a file another writer has written, the texts may blend into a torn one),
`Replace` renames. `DiskFails` may hit any of them, `GatewayRestarts` and
`PullKilled` come anywhere. An exception inside `regen_one_scope` (`Fails`) either
retries from the model call or falls back: the old graph, or a placeholder, is
stored as stale. Module cards are written and never read back, and are one step.

### 3.2 Runs

| run | instance | shows |
| --- | --- | --- |
| `codemap_serial` | 2 scopes, 2 jobs, 1 process, one at a time; failing disk and walk, restarts, kills | types; files are whole; what is fresh is on the disk; a succeeded job went through its scopes |
| `codemap_jobs` | 1 scope, 2 jobs, 1 process, two at a time; failing provider, pull, walk | a job that is done is final; every job ends |
| `codemap_torn` | 1 scope, 2 jobs at the same time, no fault | violation: see findings |

`codemap_serial` is how the web page uses the gateway: its buttons are disabled
while its job runs (`CodeMap.tsx`). Two jobs are enough for a second one to build
on what the first left in the store, in the files and in the temporary files;
the process comes before, between or after them; two scopes let one fail while
the other does not. Only an exception outside `regen_one_scope`, the walk that lists the
scope's files (`TreeFails`), counts a scope as failed; all others are swallowed inside
it, and the scope counts as processed with the stale graph it fell back to. Graph versions are bounded by the number of regenerators.
`JobSettles` assumes weak fairness of the steps of a job, a function in the
gateway's thread pool whose calls all end: `git pull` and the model client have
timeouts, retries are counted.

### 3.3 What is proved

`CodeMapRegenProofs` shows `SuccessIsComplete` and `DoneIsFinal` for any number of
jobs, processes and scopes, however many regenerate at the same time and under
every fault. The invariant `JInv` says of each job that the scopes it has
processed, failed or left and the one it works on are the scopes it was asked
for (`ScopesOK`), and which statuses go with which step (`StatusOK`): a job that is
done is in no step of its own. Every step of somebody else leaves a job's fields
alone.

`CodeMapFilesProofs` proves the rest of the safety properties.

- `RegenTypeCorrect`, for any concurrency and every fault. That versions and stale
  streaks stay within the bounds of `TypeOK` is not inductive: `Places` says that a
  regenerator never goes back to a scope it has had, and `Versions` and `Streaks`
  count. No graph of a scope is newer than the number of regenerators that had the
  scope, and none marks it as stale twice.
- `SerialFilesAreWhole` and `SerialFreshGraphIsOnDisk`, with `Concurrent = 1`, the
  condition of `codemap_serial`, and every fault. `WriterOK` follows the one writer
  from `Open` to `Replace`: the file it has open is still the temporary one and holds
  what it wrote. `Agree` says that store and disk agree on each scope but the one a
  job works on, and `ReadOK` that what a command line process read is no older than
  what the gateway shows, so that its writing does not turn the clock back. With two
  at a time both are false: a torn file is `codemap_torn`, and a writer that renames a
  file another has replaced fails and falls back to the graph it had before.

Only model-checked: liveness (`JobSettles`).

## 4. PmSync

### 4.1 State and actions

`pm` is the platform: records by resource and id with the time of their last
change (`clock`), whether they are live and valid, and what they refer to. `rows` is
the committed database, `tx[w]` what the open transaction of a run has written;
a run sees `Visible`, its own writes over the committed rows. `kind`, `phase`, `pc`
and `items` are where a run is; `since` is the `updated_after` of its fetch; `curs` is
`new_cursors`. An assignment has the id of its issue: one per issue.

`updated_at` is optional in the DTOs, and the assumed fields of iterations and
assignments (`models/dto.py:10`, `13`) have none. Items of the resources in `Undated`
may come without it (`dated`). `Newest` skips those; when no item of a batch has a
date there is none to take (`NoDate`), and the cursor is set to the time at which the
batch has been written (`Settled`), which is what `datetime.now` in `_max_updated_at`
gives.

`NextResource` reads the cursor, `FetchPage` is one request of `get_paginated`
against the platform as it is then, `LookUp` does the reads of an upsert (is there
a row, is there the row it refers to), `Flush` its UPDATE or INSERT, which waits for
a row another transaction has written (`Locked`). An INSERT whose key another run
has committed meanwhile is refused (`UniqueViolation`), and since the session
cannot be used again, the audit record fails too and the whole run is rolled back,
although the batch swallows the error. `LockVictim` is PostgreSQL's answer to two
runs that wait for each other. `HttpFail` stands for a request whose retries are
used up: the run commits its rows and no cursor. `Kill` takes a worker and its
transaction.

Left out: the content of records and the audit record; persons are in `TeamOps`.
The platform's listings (`Listings`) are ordered by id, or by time of change when
asked for changes; this order, that every change has a time of its own by which the
platform filters whether or not an item shows it, and that the clocks agree, are
assumptions about a service that is not in the repository. So is that dates which are
shown can be compared: a mixture of dates with and without a zone would raise in
`max`, and fails the run. An issue is created open; that it is closed before anybody
asked is two changes. Records are never deleted on the platform: the code has no step
for it, so that rows of deleted records would stay.

### 4.2 Runs

| run | instance | shows |
| --- | --- | --- |
| `pmsync_overlap` | 2 workers, 1 iteration, 2 issues, 2 changes, pages of two items, kills, malformed records | types; references resolve |
| `pmsync_serial` | 1 worker, 1 iteration, 2 issues, 3 changes, pages of one item and of two, failing requests, iterations that may be undated | no cursor is ahead of its rows; the database catches up with the platform |
| `pmsync_link` | 1 worker, 1 iteration, 1 issue, no fault | violation: see findings |

In `pmsync_overlap` two workers run any pair of kinds, so that two inserts of one row,
a stale version over a newer one, and lock cycles (two rows in opposite orders) all
happen. In `pmsync_serial` pages of one item let a listing shift while it is read;
three changes create two issues and close one in between, or create an iteration, an
issue and an assignment during a run. Undated are the iterations of `pmsync_serial`, the
iterations and assignments of `pmsync_link`, and nothing in `pmsync_overlap`, whose
properties do not speak of cursors.

`CursorIsBacked` needs three things the code does not ensure. The first is that runs do
not overlap. No fault is needed to break it: with two workers, two iterations, no
issues and three changes TLC finds that of two runs that fetched different versions of
a record, the one with the older version writes it last, and that the cursor of a third
change, which another run has moved, stands beyond the version that was lost; no
incremental run asks for it again. So the run has one worker. The second is that a
listing fits in one page: a record that changes while an incremental run reads page by
page moves to the end, and the listing shifts over a record that the run then misses.
The property says so itself (`OnePage`); `pageSize` is chosen once from `PageSizes`, and
the behaviours with pages of one item are those in which `CatchesUp` meets shifting
listings. The third is that the items carry `updated_at`. Where none does, the cursor is
the time after the upserts, and a change that the platform makes between the fetch and
that time lies behind the cursor without having been fetched: one worker and one page
are enough. The repository's own list of fields promises the date for issues only, so
the property speaks of `Watched`, the resources that are not `Undated`; in
`pmsync_serial` these are the issues. The full run's reset of the cursors repairs all
three, which is what `CatchesUp` says, for runs one at a time and for every resource.

`CatchesUp` assumes that each kind of run is started again and again (strong
fairness of `Start`, the cron's schedule: a start is possible only between runs),
that a run goes on (weak fairness of its steps, whose requests have timeouts), and,
in the property itself, that requests fail only finitely often. `MaxClock` makes the
platform quiet in the end.

### 4.3 What is proved

`PmSyncProofs` shows `LinksResolve` for any number of overlapping runs, any records,
any page size and every failure (`LinksAreKept`). The invariant says that the rows
refer to rows, that what a transaction has written refers to what that transaction
sees, and that what is planned between `LookUp` and `Flush` does; it is kept because
nothing that is committed is ever taken back, so that what one run has seen stays
there for all others.

`SyncTypesAreKept` proves `TypeOK` under the same generality; the invariant `TInv` adds
what a run holds at each step, and that what it holds is gone when it has ended.

`CursorsAreBacked` proves `CursorIsBacked`, which speaks of the resources that are not
`Undated`, from the hypothesis `Alone`, that there is one worker, for any `Undated`, records, page sizes, changes during a run and failures, also the
malformed records and kills that `pmsync_serial` leaves out. The
property speaks of committed cursors only, so the invariant `BInv` follows a run to its
commit. `Covered`: the cursor it will write is a date, and what it claims is in the
transaction or among the items yet to be written. `Fresh`: an item whose record has changed since it was
fetched is beyond every cursor, the committed one and the new one, so that writing the
older version breaks no claim. `Asks`: a fetch starts from the committed cursor and has
nothing left over from the last. `Plans`: what `LookUp` decided to write, or to leave,
is the item's version. `CursorsLast`: the cursors are written after all rows, with
the values that were collected. Only model-checked: `CatchesUp`.

## 5. RepoWorkspace

### 5.1 State and actions

`row`, `runs`, `url` are the row of a repository, whether it has runs, and whether its
`clone_url` is usable; `setting` is the committed `git_workspace`, `written` the
requests with an uncommitted UPDATE of it. `exists` and `disk` are the directories and
what lies in them: nothing, the clone of an actor that is at it, what a killed clone
left (`"bare"` without its remote, `"partial"` with it), a whole clone. `lock` is
`_REPO_SYNC_LOCKS`. `dir` is the place an actor read from the settings, which may have
changed since; `cwd` that of a running `git fetch`, which moves with its directory.

Actions are the code between two awaits. `SyncStart` tests the lock, `SyncRead` awaits
the setting, `SyncLock` takes the lock: two requests may pass the test, and the second
then waits and fetches, where a 409 was meant. `PutMove` renames the directory of the
clones before `PutWrite` and `PutCommit`: a later key that is refused
(`PutKeyRefused`) leaves the clones moved and the setting as it was. `GitCheck` to
`FetchFails` are `clone_or_fetch`, of a sync or of an ingest, which takes no lock.
`Killed` ends a process with its requests or jobs. The review looks for the clone
below `REPO_WORKSPACE` and not in the settings (`ReviewDir`), so that
`ReviewNotCloned` is what follows once `git_workspace` has been changed.

Left out: what git prints, branches and diffs, the other settings and the listings.
One repository name is modelled, with as many ids as its row may have over time: a
deleted repository comes back under another id, and two webhooks that both found no row
both insert one, of which the unique index refuses the second (`InsertRepo`).

### 5.2 Run and proofs

`workspace_all` has two requests of any kind, one job slot, two ids, two places, and
every fault (network, disk, refused key, kill): two requests are the least that meet
between test and lock, or insert one name, or delete while a run is created; two ids let
both webhooks insert, and let a name be deleted and created again; the second place is
where a move goes, and back. Ids are interchangeable (`Symmetry`). One bound is on the
states (`FirstIsCloned`): from a state in which both ids have been created and something
lies on the disk the search goes no further, so that clones are followed while the
name has its first row, and rows of two ids where nothing was cloned.

`RepoWorkspaceProofs` proves all four properties for any number of requests, slots,
places and ids. `Types` adds to `TypeOK` that an actor beyond its lookup has a
repository. `LockOwned`, that a taken lock is held by a request inside git and that
whoever is inside git as a request holds it, gives `SyncsExclude`. `PlacesOK`, that a
clone lies in a directory that exists, gives `ClonesAreKept`: `Movable` asks for a
target that does not exist, which then holds no clone that a move could overwrite.
`RunsHaveTheirRepository` is inductive with the types. No liveness is claimed: a clone
killed before it had a remote is never repaired.

## 6. AgentReview, ReviewRun, ReviewContract, Scoring

### 6.1 State and actions

`AgentReview` has the state of each unit's agent (`pc`, `turn`, `batch`), the semaphore
(`slots`) and the shared session (`session`, `dirty`). An agent runs to its next await.
A reply asks for a tool or answers with one of `Answers`; an agent that fails or gives
up reports no findings, just like one that found nothing. An operation on the session
is begun and ended, with other agents in between: a flush that meets a query breaks
the session until it is rolled back, an event added while a flush is under way waits
for the next (`dirty`). In a broken session the unit's row is expired, so that naming
its file raises, in the handlers too: the task fails (`Escapes`), `gather` raises, and
the other agents go on in a review that has ended.

`ReviewRun` is whoever drives the agents (`driver`): the worker and the gateway, whose
review loads, filters, gathers, persists finding by finding and commits, and is
scored; the shadow pilot's single run and its benchmark of `Samples`. `Gather` numbers the findings in
the order of the units. `PersistFails` is swallowed and breaks the session, so
that `ReviewDone` cannot send its commit. `ReviewCommit` is the answer to it; a timeout
or a fault of the database between the two (`Cancel`, `ReviewFails`) finds the commit
done or not (`Committed`), whereas before it nothing of the transaction survives. `Score` hands the findings to `compute_score` in any
order, since the query has no ORDER BY. `Scoring` counts in twentieths of a point,
where the code's rounding is exact.

Read on the way, and part of the model: the worker passes the bare mirror as work
tree, so that its filter finds next to no file on the disk (`"unfit"`); the gateway
passes a client without `complete()`, so that each of its agents fails
(`ProviderFails`).

Left out: prompts, what tools print and the tools other than `GetDiff`, which do not use
the session (`PlainTool`); the content of findings but category, severity, confidence
and place; the grade; the rendered report of the script.

### 6.2 Run and proofs

`review_all` has three units, two slots, two iterations, two samples, each driver and
each fault, and four answers: none, a grave one, one without fields, and two of which
one has a confidence that is no number. Three units under two slots let one wait while
two collide; two iterations let a tool call precede an answer or the limit; the
answers share a dedupe key and differ in weight.

`TypeOK` includes that slots are neither lost nor doubled. `AgentsEndWithTheReview`
excepts the review that ended because the session broke: there agents do outlive it.
`ScoreWithinBounds` bounds the score by a reference definition that counts the
heaviest, or the lightest, of each group of duplicates; between the two the score does
depend on the order of the rows (section 8). `KeepsTheContract` is the refinement of
`ReviewContract`: a review that is done has kept all acceptable findings, one that fails
none or, if it was given up when its answers were complete, all, and never some of them.
What is kept is what the database (for the script, its list) holds when the review is
over, however it ended. The contract numbers a
finding by its rank among the places where findings were reported, while the code
counts as it flattens the answers. `ReviewEnds` assumes weak fairness of the driver and of each agent: the
provider, the tools and the database answer or time out.

`ReviewRunProofs` proves everything but `ReviewEnds`, for any number of units and
samples, any limit, answers and interleaving, all four drivers and every fault:

- `AgentsDoNotOutlive` from `AInv`, which adds that a failed task means a broken
  session, and `SlotsAreReturned`: free slots and running agents add up to the limit
  of the semaphore.
- `ReviewTypes`. The types are not inductive: that `Gather` yields numbered findings,
  that the session holds findings of this review and that the number of an iteration
  stays in bounds needs `WInv`. `AgentsOK` is what each agent may have reported and how
  often it may have turned; `DriverOK` which phase belongs to which driver; `FoundOK`
  that after `gather` every agent of the pool is done and what was found is what they
  reported; `StoredOK` that an unbroken session holds all that is acceptable so far, and
that what a commit has been sent for is all of it.
- `ReviewKeepsTheContract`: `Spec => KeepsTheContract`, one lemma for the agents
  (`AgentKeepsTheContract`: ending is `Answer`, all else a stutter) and one for the
  driver (`DriverKeepsTheContract`). Its heart is `FlattenRanks`: the position at which
  a finding lands when the answers are flattened is its rank among the places.
- `ScoreWithinItsBounds`: whatever the order of the rows, the score lies between what
  the heaviest and what the lightest of each group of duplicates gives
  (`LossBounds`, `ScoreBounds`), and between 0 and 100 points (`PointsRange`).

`RInv` is the conjunction of these. Two families of lemmas carry the last two results:
ranks in a sequence of sequences (`Least`, `CountUp`, `FlattenDef`, `FlattenRanks`),
and sums over finite sets (`SumDef`, `FoldSums`, `SumLess`, `SumMore`, the last two
along a pairing of the summands). Both are by induction; since the provers cannot
instantiate an induction theorem with an operator, each induction is over the set of
numbers for which the claim holds (`CountUp`).

## 7. TeamOps

### 7.1 State and actions

`person`, `gitlab`, `pm`, `issue`, `assigned`, `units` are the committed rows: a person's
status, the active identity of each platform user, the issues, who an assignment is
resolved to, the ingested change units. `task` is the table a behaviour derives
(workload of a window, capacity, familiarity), `derived` its rows, `run` the
recomputations and `sync` the sync of assignments, each with its uncommitted rows.
Governance calls are transactions of their own and come anywhere. `SyncResolve` reads
the person of an identity, `SyncUpsert` writes it; a person deleted in between is
refused by the foreign key, and the whole sync with it (`SyncRefused`).
A recomputation lists the active persons (`Begin`), then reads and upserts one by one
(`Read`, `Upsert`), or reads logins and units (`Index`, `ReadUnits`) and upserts the
edges. An upsert waits for a row of another run (`Holder`); two that wait for each other
are a `Deadlock`, which ends one.

Left out: display names (an order with ties), the history of identities, archived
persons (treated like inactive ones), the `computed_at` of rows, rows of persons that
are no longer active, which nothing deletes. Familiarity edges are not deleted either,
so that after a remap the lines of a login count for both persons; the property is
about the rows that should be there.

### 7.2 Run and proof

`teamops_all` has two persons, two GitLab users that share a login, one user of the
platform, one issue, an iteration of 20 days, two change units, two recomputations and
a sync, for each derived table. Two persons and two runs are the least for a lock
cycle; `Budget` bounds changes and faults to three for familiarity, two for capacity
and one for workload, where a change during a run already yields a stale row.

`AttributionCatchesUp` and `DerivedCatchesUp` say that once the data stand still
the tables come to hold what they call for, although an overlapped run may have
overwritten newer rows. They assume that syncs and recomputations are started again
and again (weak fairness of their steps); the scheduler that does so is outside the
repository, which exports the functions for it. `Budget` makes the data stand still.

`TeamOpsProofs` proves `ReferencesResolve` (`ReferencesAreKept`): the invariant `RInv`
adds that the uncommitted rows of a sync refer to persons there are, which is so
because they lock what they refer to. It also proves `TypeOK` (`RowsHaveOneWriter`),
whose weight is that no two open transactions have written one row: the
invariant `KInv` adds that a run's list names each key once and none it has written,
and that an upsert waits for the row's holder. Both hold for any persons, users,
issues, change units and recomputations; the module assumes that there is a person, that the sets
from which lists are made are finite and that budgets are numbers. Only model-checked:
`AttributionCatchesUp` and `DerivedCatchesUp`.

## 8. Findings

- **Two jobs tear a scope file** (`codemap_torn`). The "atomic write" uses one
  temporary name per path: one job truncates the file another is about to rename.
- **A link is not filled in** (`pmsync_link`). The comment in `upsert_issue` says that
  an issue without its iteration gets it after the next sync of iterations;
  the next incremental sync does not ask for that issue again. A full sync mends
  it, or the incremental sync after it.

Read in the code, without a run of their own:

- `_max_updated_at` is documented as the largest `updated_at` of the items
  (`sync/incremental.py:141`), but gives the current time when no item has one: what
  changed between the fetch and then is passed over until the next full sync (section 4.2).
- A review whose timeout meets its last commit leaves its findings in the database, while
  the run is recorded as failed (section 2.1, `Cancel` of `ReviewRun`).
- Nothing keeps two synchronisations from overlapping, an upsert compares no
  `updated_at`, and a slower run writes an older version over a newer one; the cursor,
  documented as a watermark (`sync/incremental.py:3`, `models.py:551`), then stands
  beyond the change that was lost (section 4.2).
- `create_run` commits, then enqueues; when that raises it calls `db.rollback()`,
  which undoes nothing, while the comment at `analysis_runs.py:109` promises that the
  run is rolled back.
- The docstring of `full_pipeline` (`tasks.py:98`) says that the exception is re-raised
  so that ARQ applies its retry logic; ARQ retries only `arq.Retry` and cancelled
  workers.
- `regen_one_scope` swallows every exception, so a code-map job reports `succeeded` when
  nothing was regenerated.
- The comment at `sync/full.py:65` says that the full sync takes issues of every
  status, while the request at line 66 asks for open ones.
- `compute_score` is called deterministic (`engine.py:80`), but the order of its input
  is the database's.
- The system prompt says 5 to 12 tool calls per file are typical (`prompts.py:95`); the
  loop ends without a finding after 10 iterations (`agent_reviewer.py:16`).
- `WebhookIdempotencyDAO.reserve` takes any database error for a duplicate
  (`suggestion.py:187`).

## 9. Not modelled

- **Teams, memberships, merge-request events, suggestions, knowledge**: DAOs of single
  statements that nothing in the repository calls outside its tests; there is no
  caller whose order of calls could be modelled.
- **Trigger events**: the one endpoint fails on every accepted request.
- **Secrets, findings, change units, audit events, publication requests**: no state, or
  queries.
- **Parsing** of webhooks, diffs, hunks and listings, the rendering of reports and code
  maps, the translation of messages for each LLM provider: data, not control.
- **The web page, domain types, contracts, planned services**: no behaviour here.

## 10. Plan

Done: `RunPipeline` with `RunLifecycle`, `CodeMapRegen`, `PmSync`, `RepoWorkspace`,
`AgentReview` with `ReviewRun`, `ReviewContract` and `Scoring`, `TeamOps`; their runs;
proofs for each of the six components.

Proved: every invariant and every action or refinement property of the passing runs.
Hypotheses beyond the assumptions on the constants are `Requests = {}` (with
`Undisturbed` for `NoRunIsStuck`), `Concurrent = 1` and `Alone`; `CursorIsBacked` leaves
out the resources in `Undated` by itself. Sections 2.2, 2.4, 3.3 and 4.2 say what breaks
each property without them.

Not proved: liveness (`JobSettles`, `RunSettles`, `CatchesUp`, `ReviewEnds`,
`AttributionCatchesUp`, `DerivedCatchesUp`), which is out of reach of the prover's
temporal backend and stays with TLC.

Left, to prove: what two overlapping synchronisations still guarantee about a cursor
(that a full run repairs it is checked for runs one at a time). Left, to compose:
`ReviewRun` below `ReviewDone` of `RunPipeline`, and the git steps of `RepoWorkspace`
below its `GitFails` and `IngestDone`.
