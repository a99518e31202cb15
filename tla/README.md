# A TLA+ verification project for steh

steh accepts engineering tasks, GitHub issues and GitHub pull requests over an
HTTP API, puts a job for each in a PostgreSQL queue, and lets workers drive
LLM agents through a checkpointed LangGraph workflow with quality gates, a
human review and a bounded rework loop.  This directory holds models of that
control, the TLC runs that check them on small instances, and TLAPS proofs that
the safety properties of those runs hold for every value of the constants.  All
paths below are relative to `src/`; `ADR-nnn` is the file of that number in
`docs/`.

Running: `tlc -workers 2 -config JobQueue.cfg MCJobQueue` (any `.cfg` with the
module PROJECT.json names for it) and `tlapm JobQueueProofs.tla`.

## Inventory

| Component | State | Operations | Hard part | What makes it correct |
|---|---|---|---|---|
| Job queue, `app/services/jobs.py` | `task_jobs` rows: status, attempts, owner, lease | `new_job`, `claim_next_job`, `renew_lease`, `finish_job`, `reap_expired_jobs` | several workers and a reaper write the same rows; `finish_job` checks no owner | disjoint claims, one executor, bounded attempts, finished jobs stay finished, no task without a job |
| Worker loop, `app/worker.py` | the job in hand, the heartbeat thread | `run_once`, `process_job`, `_run_job`, `_mark_task_failed` | death between any two commits; a heartbeat that ignores a lost lease | every job finishes, every task settles |
| Workflow graph, `app/orchestration/graph.py`, `rework.py` | the thread state, its checkpoint | 17 nodes, 3 conditional routes, an interrupt | gates, review and rework interact through one status | nothing implemented past a failed gate or without approval, bounded rework, a definite outcome |
| Task service, `app/services/tasks.py` | the `tasks` row, `security_findings` | `accept_task`, `run_task_workflow`, `claim_human_review`, `run_human_review_resume`, `_apply_workflow_result` | two jobs of one task on one thread; a decision against a recovery | one decision, the outcome of the finished thread, recovery repeats only what was interrupted |
| Audit and agent lifecycle, `app/services/audit.py`, `app/orchestration/lifecycle.py` | `audit_events`, `agent_runs` | start, complete, fail, abandon a run; record an event | separate commits after the state they report | no run left STARTED, the outcome is announced |
| Security findings, `app/services/security.py` | `security_findings` | insert under the finding's own id | inserted again by a recovery | as the task service |
| External validation, `app/api/routes/tasks.py:395-481`, `app/services/external_validation.py`, `app/tools/scanners.py` | four columns of the `tasks` row | load, scan for minutes, decide, flush | calls overlap each other and a recovered job; partial UPDATEs | decision, count and evidence of one write; fail closed |
| Pull-request review, `app/services/pull_request_reviews.py`, `github_pull_requests.py`, `app/agents/pull_request_review.py` | snapshot, context bundle, review | fetch, sanitize, build context, review, merge findings | two GitHub requests, two budgets, two sanitizings, flags from five places | READY only over what was kept in full |
| Issue analysis, `app/services/github_issues.py` | issue snapshot, analysis, request, bundle, then the same thread | accept, analyse, go on with the workflow | recovery between commits of a two-part job | the thread works on the analysis the row shows; a task fails only for a reason |
| Context engine, `app/services/context.py` | three limits, what is left of them | order, select, truncate, refuse | interacting budgets | no budget is exceeded, the least important is lost first, what is lost is reported |
| Policy engine, `app/policies/` | rules loaded from YAML | evaluate | rules that relate artifacts of different agents | nothing untraced or unreviewed is implemented |
| Judge, `app/services/judge.py`, `app/agents/llm_judge.py` | the evaluation artifact | evaluate or mark unavailable | exceptions | never changes the outcome |
| Workspace tools, `app/tools/gateway.py`, `validator.py`, and the agents that use them | files of a workspace, on one host | write, check | half-written builds, files of earlier ones, recoveries on other hosts | a completed task's files are there and clean, and of its last build unless its thread was recovered twice |
| Agents, prompts, configuration, queries, metrics, migrations, deployment | - | - | - | - |

Interactions: the API inserts a job in the transaction that creates the task or
claims its review; workers meet only through the database (rows, row locks,
leases and the LangGraph checkpoint); a handler runs the graph synchronously
and applies its last state to the task row; each agent node is wrapped by the
lifecycle; after a recovery a second handler meets all that the first one left
behind.

## Modules

| Module | Models |
|---|---|
| `JobQueue` | the queue and the worker loop, handlers seen only through their writes |
| `WorkflowGraphProofs` | lemmas about every move of a thread, for whatever holds it |
| `JobQueueProofs`, `DeliveryProofs` (with `EngineeringGraph`), `TaskExecutionProofs`, `PullRequestReviewProofs`, `IssueAnalysisProofs`, `ExternalValidationProofs`, `ContextEngineProofs` | theorems about the modules they are named after |
| `WorkflowGraph` | the graph as operators on a thread state (no variables) |
| `EngineeringGraph` | one thread alone |
| `QualityGates` | the policies as operators on artifacts (no variables) |
| `Delivery` | `EngineeringGraph` composed with `QualityGates`, the implementation and test agents and the workspaces of several hosts |
| `TaskExecution` | `JobQueue` and `WorkflowGraph` composed with the handlers of `tasks.py` |
| `TaskContract` | what the API promises of a task, refined by `TaskExecution` |
| `IssueAnalysis` | `JobQueue` composed with the handler of issue analysis, the rows of `agent_runs` and the start of the thread |
| `ExternalValidation` | the endpoint, its overlapping calls and a recovered job |
| `PullRequestReview` | one pull request from its two requests to the stored review |
| `ContextEngine` | one `ContextEngine.build` |
| `MC...` | model values for the runs |

**JobQueue.** One variable per column of `task_jobs`, the task's status, the
agent run a handler has open, and the place of each worker in `run_once`.
`claim_next_job` is two steps because the row lock of `FOR UPDATE SKIP LOCKED`
is held between them.  `createdAt` is the rank of the row's insertion: the
queue is FIFO.  A lease is none, live or expired.  `LeaseLapses` under a dead
worker is time passing; under a live one it is a *stall*, possible because
`worker.py:86-93` logs a failed renewal and goes on.  The final workflow
outcomes of `tasks.status` are merged in SETTLED.  `Crash` stands both for a
process that dies and is started again and for an iteration that raises, after
which `run_forever` goes on: either way the memory and the locks are gone and
what was committed stays.  A handler that raises reads its job row again
(`LoadJob`, `worker.py:162`) and `loaded` is what its session holds of it: the
commit of `_mark_task_failed` expires it, but a task that is FAILED already needs
none, and then `FinishJob` leaves out a column that was read with the value it
is given (`Flushed`).

**WorkflowGraph / EngineeringGraph.** An artifact is the set of policy actions
it fails, so a gate is a condition on that set.  `Steps(s)` is the set of
states after the node `s.next`, with the conditional edge behind the node
taken.  `Resume` is the interrupt's continuation.  Two history fields count
builds and remember which one was validated.

**QualityGates / Delivery.** In `EngineeringGraph` an artifact's failures are
chosen; in `Delivery` they are computed from the artifacts as `engine.py`
computes them: requirements with identifiers, the scenarios and the tests that
name them, findings with severity and status.  `Produce(a, fails)` is the step
of the graph whose node produced the artifact `a` that fails so.  What the
schemas of `app/models` already rule out (an empty requirement, scenario or
threat model) passes, so REQ-001, ARCH-001, IMPL-001, AUDIT-001, SPEC-001,
SPEC-003, SEC-003 and TESTPLAN-001 never fail here.  The implementation agent
writes file by file: a plan over `max_files_per_task` raises before the first
write, a path the gateway refuses raises after those before it, and a crash
leaves what there is.  A workspace belongs to a host; a thread recovered on another
host finds what that one has.  Attempts are counted per job (`jobs.py:191`) and a
reviewed task has two jobs on its thread, so `Recover` is bounded by `Jobs` times
`MaxRecoveries`: the execution's worker may have died after it showed the review,
and is recovered beside the resumption.  One invocation at a time is at work here;
those that overlap are `TaskExecution`'s.  A content is the number of the execution that
wrote it and whether a check fails on it, so two executions are taken to write
different contents, as the LLM mode may.  Validation looks at every file there
is (`validator.py:25-27`), integrity at the declared names only.

**TaskExecution.** Each action is an action of `JobQueue` with what the handler
does to the thread, its checkpoint and the task row conjoined: invoke
(`invoke_workflow` chooses between a start and the checkpoint), start an agent,
complete a node *and* store its checkpoint (`durability="sync"`), apply the
result, insert the findings, announce the outcome.  `claim_human_review` is its
read and its conditional UPDATE.

**TaskContract.** Phases NONE, ACCEPTED, REVIEW, DECIDED and the outcomes, with
at most one verdict.  `TaskExecution` maps a task's status and its row to the
phase, and the payload of its resume job to the verdict.

**IssueAnalysis.** Again actions of `JobQueue` with the handler's writes
conjoined.  `runs` is the table `agent_runs`, with what became of each agent as
history.  The analysis and the request are one commit, the bundle another, and
the thread remembers which bundle it was started with; each is represented by
the run that made it, so "the same analysis" is an equality.  `StartUnheard`,
`CompleteUnheard`, `LoseWrite` and `StoreFails` are writes that raise: an event
whose row is committed, or the row itself, after which `fail_agent_run` raises on
the same session (`audit.py:82, 102`).  `RejectFindings` is the recovery of a
workflow whose findings are stored already (`security.py:16-34`); `found` is what
the thread's review holds, the same each time.  Such a recovery runs outside the
try statement of the handler (`github_issues.py:228-230`), so that the worker and
not `_fail_task` fails its task (`Recovers`).  The module does not
imply `JobQueue`'s specification: `EnterWorkflow` writes ANALYZING on its own.

**ExternalValidation.** A request loads the row, scans, decides and flushes.
`Flushed` writes only the columns that differ from those loaded: nothing is
committed between `db.get` and the write, so the session compares each new value
with the one it loaded (`db/session.py:17-18`).  A recovered job does the same
with what it loads when it reads `record.request` (`Reread`, `tasks.py:224`), and
a validation may commit between that and its write (`Reapply`, `tasks.py:232`).

**PullRequestReview.** A text is its length and whether it holds a credential
or an instruction marker; detection itself is not modelled.  The author may
push between the two GitHub requests.  The model's answer is any
recommendation, any risk and any findings.  The sanitizer's loop is one action
per file.  The context engine sanitizes the JSON of the snapshot once more, as one
text (`context.py:111`): `Renderings` is what that may redact, a `part` of a
credential being none by itself, and whether the result fits.  Its `redacted` flag
stays at the source (`context.py:135`); the agent does not read it.

**ContextEngine.** A source is its identity (source id and version, ordered),
its priority and its length after sanitizing.  `Sort` orders the inputs, and the
loop takes one source per step; the break, the refusals and the result are
actions of their own.

## Runs

| Run | Instance | What it shows |
|---|---|---|
| JobQueue | 2 workers; a task with its execution and its resume job, and a pull-request review; 2 attempts, 2 crashes, 1 stall | a running row has a lease and attempts are bounded, always; one executor and no stuck task until a lease lapses under a live worker |
| JobQueueStuck | 1 crash, 1 stall | violation: a late `finish_job` takes the job from its new owner, whose death leaves the task stuck (ADR-016:93-94) |
| Delivery | 1 thread, every verdict through 3 specifications, 4 reviews, 3 test plans and 8 plans of changes; 2 hosts, 1 recovery of each job, `MaxRework` 3 | guarded implementation, traced requirements before any write, bounded rework, stops the service can act on; a completed task's files are present and clean, and of its last build unless the thread was recovered twice; the thread stops |
| TaskExecution | 1 task, 2 reviewers, 1 failing agent, no crash | the contract is implemented, so a review is decided once |
| TaskRecovery | 2 tasks, 2 fair workers, 1 crash | only the interrupted node is repeated, rework is counted once, the row holds the finished thread, every task settles |
| TaskOverlap | 1 reviewed task, 2 workers, 2 crashes, fair | recovered execution and resume job at once: reviews decidable, no implementation without approval, the outcome announced, every job finishes |
| TaskOutcomeLost | 1 worker, 1 crash | violation: the recovery of a finished workflow inserts its findings again and fails the settled task (ADR-017:73-76) |
| ExternalValidation | 3 calls, 1 recovery, `MaxRework` 2 | count, decision and evidence of one write in any overlap; an undisturbed call agrees with its evidence |
| PullRequestReview | 1-3 files of 8 sorts, page of 2, patch budget 3, context 5 | budgets in order and never exceeded; READY only over what was kept in full; required findings survive the model's, so a credential blocks |
| PullRequestOmits | the same | violation: a push between the two requests hides that the file list is cut (ADR-014:76-77) |
| ContextEngine | up to 4 sources, 3 limits | budgets kept, order kept, loss only of the least important and only for room, `truncated` exact |
| IssueAnalysis | 1 issue with its analysis and its resume job, 2 fair workers, 2 crashes, 1 fault | the thread matches the row, no agent run tells a wrong end, none stays STARTED unless its own write raised, a task fails for a reason |

Five more configurations are kept beside these and are violated as their
property says (Disagreements, below): `TaskRepeated.cfg` (`MCTaskExecution`),
`DeliveryStale.cfg` (`MCDelivery`), `ExternalFailOpen.cfg`
(`MCExternalValidation`), `PullRequestRejoined.cfg` (`MCPullRequestReview`) and
`IssueRunAbandoned.cfg` (`MCIssueAnalysis`).

Why the bounds are enough.  Two workers are what a race needs, and a third adds
only another rival for the same row.  Two attempts are the shipped
`WORKER_MAX_ATTEMPTS`, and they exercise both branches of the reaper; two
crashes exhaust a job, or hit two jobs of one task.  A stall needs one lapse.
One task with its two jobs is where the jobs of a task interfere; the second
task or job is there for the queue's order.  `MaxRework` 2 (shipped: 2) has one
granted and one refused rework; TaskOverlap takes 1 so that its liveness stays
small, and Delivery goes to 3.  Delivery's one recovery of each job is the shipped
`WORKER_MAX_ATTEMPTS`, two files are what a half-written build needs, and
a third build shows that the second's files do not matter.  IssueAnalysis needs
one crash for each of the two parts of its handler, and one fault for each write
that can raise.  `PullRequestReview` has no unbounded counter; its revisions are
chosen so that a patch fits, is cut, and comes after a cut one, and so that a
page is full and overfull.  The theorems below
remove the bounds for every safety property; what rests on them alone is
liveness.

`CHECK_DEADLOCK FALSE` is set where the system really stops: a finished thread,
all calls answered, a review done.

## Fairness

`FairTaskSpec` assumes two things: a worker that can take a step eventually
does (`run_forever` has no exit but a signal, and the heartbeat keeps its
lease), and a lease that nobody renews lapses (time passes).  Nothing is
assumed of clients, reviewers or the success of an agent.  Fairness covers an
agent's return: the subprocesses and the GitHub client have timeouts, and the
model client (`ChatOpenAI`, which sets none of its own here) is assumed to
return or raise; a call that hung for ever would keep its lease for ever.  That a process
that died is started again is the operator's part: `docker-compose.yml` sets no
restart policy for the worker, so without that, liveness holds only with
another worker.  `FairIssueSpec` assumes the same.  `FairDeliverySpec` assumes
only that the graph goes on: neither its reviewer nor its crashes are fair.

## Proofs

Every invariant and every action property of a passing run is a theorem of its
specification, for every value of the constants that the module's named
assumption allows.  Those assumptions say what the constants are: finitely many
jobs or requests, sequences and records of the right shape, at least one
attempt.  Where a theorem needs more, its hypothesis is in its statement.

**JobQueueProofs**, for any number of jobs, tasks and workers and any bounds on
attempts, crashes and stalls:

* Always: `TypeCorrect`, `LeaseAgrees`, `AttemptsBounded`, `ClaimsAreDisjoint`,
  `FinishedJobsAreFinal`.  None of these is inductive alone: that
  `FinishJob` leaves no RUNNING row without a lease, whichever of the two columns it
  leaves out, needs what a session that read the row knows of it, that a claim
  keeps the lease in step needs that a claimed row is QUEUED, that a
  claim stays within `MaxAttempts` needs `AttemptLeft`, and that a new row is
  claimable needs that an absent one was never attempted.  `RowInv` is their
  conjunction with `AbsentIsFresh`.
* Until a lease lapses under a live worker: `SingleExecutor`, `NoTaskIsStuck`,
  `OrphansAreFound`.  `OwnerInv` adds to `RowInv` that the executor owns a
  RUNNING row (`OneExecutor`) and that its lease is live (`LiveLease`), without
  which the reaper would take it.  `WaitingIsOwed` strengthens `TasksKeepAJob`:
  the job a waiting task is owed is one that has not yet written the task's
  outcome (`OwingJob`), so finishing *another* job of the task, or this one
  after its outcome, leaves no task behind.  `OrphansKept` ties an open run to
  the RUNNING row its worker died with.  `StallsOnlyGrow` lets these be used
  backwards over a step.  `JobQueueStuck` shows that the hypothesis is needed.
* For the modules on top of the queue: `Held` (a job is claimed and executed by
  one worker) and `AcceptedOnce` (a task has one job besides its resume jobs).

**WorkflowGraphProofs** has no specification of its own.  `ThreadInv` says for
each place of a thread what has passed on the way there (`PassedGates`), that a
thread that has built something never comes back before its gates
(`BuiltIsGuarded`), how builds, reworks and decisions are counted at each place
of the rework loop (`Counted`), where a review can be (`ReviewPlaced`), and
what status and flags say of the way taken (`Flagged`).  `ThreadInvKept` proves
that every node and every decision keeps it; the gates that only move a thread
share one lemma, `GateMoveKeeps`.  `MovesAreTraced` says which artifacts a move
leaves alone.  Both are about `Moves`, so the three modules whose threads move
that way cite them instead of proving them again.

**DeliveryProofs**.  Of `EngineeringGraph`: `ThreadsAreTyped`,
`ImplementationIsGuarded`, `ReworkIsBounded`, `CompletionIsValidated`,
`PolicyIndexStays`, and, where rework is automatic as in
`policies/execution.yaml`, `ThreadsStopDefinitely`.  `DeliveryRefinesGraph`
carries them over to `Delivery`, where they are about policies that are
computed from artifacts.  Then, of `Delivery` itself:

* `WritesAreTraced`: an artifact in the state fails exactly what its gate
  computed of it (`ArtifactsJudged`), and what was started is at the
  implementation or behind it (`StartedIsBuilt`); `IdentifiersDiffer` is
  the counting lemma behind "every requirement has its own identifier".
* `CompletionIsClean`: until the thread builds again nothing writes, so the
  verdict of the last validation is still that of the files it saw
  (`VerdictStands`).
* `LastBuildIsDelivered`, whatever the limits: a recovery can bring the task
  to a host, but only a second one can bring it back to files of its own
  (`OtherHostsEmpty`, `Agrees`).  `DeliversLastBuild` is about threads that were
  recovered once at most, which with the shipped limit are those of all tasks
  that nobody reviewed; `DeliveryStale.cfg` shows a reviewed one that was
  recovered twice.

**TaskExecutionProofs**, for any number of tasks, workers, crashes and failing
agents.  `ExecutionRefinesQueue` brings in the theorems about the queue, and
`ThreadsSound` puts `ThreadInv` under every checkpoint and every invocation,
also when two jobs of a task run at once.

* Always: `ImplementationIsApproved` (an approved thread has an approval in the
  payload of a resume job), `ReworkIsCountedOnce`, and `OutcomeIsAudited`, whose
  invariant names the job that has not reported yet (`Reporting`).
* `ReviewsAreSound` (rework automatic as shipped, findings stored with a HIGH
  verdict): `OneReviewerDecides` and `ReviewsAreDecidedOnTheirThread`, with
  crashes.  `ReviewInv` rests on the fact that one worker at most has a task
  until it is decided (`UndecidedAlone`).
* `NeverOverlaps` (no worker dies, or tasks have no resume job):
  `SettledRowsAreFinal` and `ImplementedOnce`.  `Steady` shows that the jobs of
  a task take turns in writing its status; `RunsInv` counts the implementations
  at work among those that a crash or a fault accounts for.  `TaskRepeated`
  shows that `ImplementedOnce` fails without the hypothesis.
* `ReviewsAreSound` and no crash: `ContractIsImplemented`, the refinement of
  `TaskContract`.  `VerdictInv` says that a thread somebody decided still waits
  or went on with that decision (`Obeys`); then every action of `TaskExecution`
  is shown to move one task of the contract as it may, or to stutter.  With
  crashes the contract does not hold: a job that is given up after its outcome
  fails a settled task (`TaskOutcomeLost`).

**PullRequestReviewProofs**, for any files, pushes, limits and answers of the
model: `ReviewIsTyped`, `BudgetIsSpentInOrder` (`SpentInv`: after any number of
files, a cut leaves nothing of the budget), `ReadyWasKept` (`FlagsInv`: each
flag says exactly what was found up to the file the loop is at; `StoredInv`: a
stored review respects them and the context every attempt builds again;
`PlaceInv`: what that context redacts without a flag is texts that are a
credential together only) and `RequiredFindingsAreKept`.

**IssueAnalysisProofs**, for any number of tasks, workers, attempts, crashes and
faults.  The status that the start of the workflow writes is not a step of
`JobQueue`; `IssueStepsQueue` shows it is the only such step, and that the
queue's invariants survive it.  `RunsAreTold` needs who will write an open row
(`TrailInv`), `ThreadsMatchTheirRows` needs that the three commits of a task are
each made of the one before and that a first attempt finds none of them
(`StageInv`), and `TasksFailForAReason` that nothing raises without a fault but a
recovery whose findings are stored (`ReasonInv`), which in turn were stored by an
attempt that a crash interrupted (`FoundInv`).

**ExternalValidationProofs**, for any number of calls and recoveries:
`CountIsTheDecisions`, `EvidenceIsTheDecisions`, `RowsAreTyped`,
`UndisturbedCallsAgree`.  `CallsInv` says that what a call loaded was itself
whole and holds no evidence of that call, so that none of the three columns can
equal what was loaded and be left out of the UPDATE (`FlushIsWhole`).  A recovery
leaves columns out, but count and decision together: a call's count is above the
thread's, so that of the two either both are the thread's already or both differ
from what was read.  The
status can, which is `ExternalFailOpen`.  `BoundInv` bounds the count by
`MaxRework` and one for each call that is over.

**ContextEngineProofs**, for any inputs and any limits: `TypeCorrect`,
`PriorityIsKept`, `TruncationIsExact`, `RoomIsUsed`, `BudgetsAreKept`.  The
argument follows the loop: what is in the bundle is a prefix of the ordered
inputs, each entry a source of its place; a source was cut only when it took all
that was left or all it may have; and the flag is raised at each of the three
places where something is lost.  The sum over the bundle needs no induction over
data: `Paid` says of any running total over the bundle that it ends at what is
missing from the budget, and each turn of the loop extends it by one entry.

Left to TLC: `DeliveryStops`, `TaskSettles`, `EveryJobFinishes` and `EveryRunEnds`,
since liveness rests on fairness and the prover has no ENABLED; and the runs
that expect a violation.

## Disagreements with the documents

Three have a run each (above).  Five have a configuration that shows them:

* `TaskRepeated.cfg`, `ImplementedOncePerCrash`: when the execution job is
  recovered while the resume job runs, both execute one implementation node,
  although "only the interrupted node runs again" (ADR-017:46, 68-69).
* `DeliveryStale.cfg`, `LostFilesAreRegenerated`: "`workspace_integrity` then fails
  validation, and bounded rework regenerates the files" (ADR-017:62-63), but it
  compares names only (`test_engineer.py:24`) and attempts are counted per job
  (`jobs.py:191`).  The thread of a reviewed task can be recovered twice with the
  shipped limit: built on host A, built again on B, and completed by a recovery on
  A over A's older files.
* `PullRequestRejoined.cfg`, `RedactedContextBlocks`: "detected credential-like
  content produces a critical finding and `BLOCK`" (ADR-014:42), but a credential
  that two texts form together is found by the second pass only
  (`context.py:111`), which the agent is not told of: READY with no finding.
* `ExternalFailOpen.cfg`, `FailClosed`: two overlapping calls on a
  REWORK_EXHAUSTED row can leave COMPLETED over failed evidence, because a flush
  leaves out the column that did not change (ADR-007:30).
* `IssueRunAbandoned.cfg`, `LiveRunsStayOpen`: `_abandon_agent_runs`
  (`jobs.py:156-164`) closes every STARTED run of the task, also that of a live
  worker on the task's other job, while its docstring and ADR-017:37 speak of
  runs of a dead worker.  `TrailIsTruthful` accepts it: an ABANDONED agent may be
  at work still.

Others, seen while modelling, have none:

* `start_agent_run` is called outside the lifecycle's try statement
  (`lifecycle.py:41`): if its event cannot be written, the row it committed stays
  STARTED after the job has finished as FAILED.  `EveryRunEnds` leaves such a row
  out (`OpenRuns`).
* If the commit that completes a run raises, so does `fail_agent_run`'s
  (`audit.py:82, 102`): the row of an agent that returned stays STARTED, until the
  job is reaped or for ever.
* After a stall a job row can end FAILED with the live lease of an owner that
  claimed it between the read and the write of the worker that had lost it
  (`worker.py:102-103, 162`, `jobs.py:144-146`); `LeaseTracksRunning` allows that and
  nothing else.
* A recovered issue analysis whose outcome was committed inserts its findings
  again and fails its task, as in `TaskOutcomeLost`; `FailsForAReason` names it.
* `max_files_per_task` limits a plan, not a task: reworks and recoveries add to
  the same workspace (`implementation.py:122-125`).
* A file that fails a check stays for ever, since nothing is deleted and every
  validation looks at every file: only a build that writes the same path again
  can pass (`validator.py:25-27`).
* `run_human_review_resume` never reads the task's status: when the task's
  execution job is given up meanwhile, its FAILED is overwritten (`tasks.py:440`,
  ADR-016:63).
* A reviewer who decides between the commit that shows HUMAN_REVIEW and the
  handler's final event makes it announce TASK_FAILED (`tasks.py:279`).
  `SettledIsAudited` checks that this is not the last word.
* External validation passes `rework_count + 1` to the controller on a count
  that may already be at `max_attempts` (`routes/tasks.py:445`, ADR-007:34-36).
* A credential in a branch name is redacted but not flagged
  (`pull_request_reviews.py:51-54`, ADR-014:26, 42); `RequiredFindingsStay` is
  about the other texts.
* A failure after the review is committed leaves status FAILED beside a finished
  review (`pull_request_reviews.py:302-329`).

## Not modelled

* Scanner containers, HTTP and LLM clients: I/O.  What they report is a
  nondeterministic choice.
* Detection of credentials and markers, wording of findings, prompts, schemas,
  logging, metrics, queries and authentication: no state of these models.
* Stalls in `TaskExecution` and `IssueAnalysis` (`MaxStalls = 0` there):
  `JobQueue` has them.
* The judge beyond that it leaves the outcome alone, assumed enabled: its scores
  are a computation on one answer of a model, and nothing acts on them.
* Rules of `quality-gates.yaml` other than the shipped ones.
* Audit events other than a handler's final one.

## Plan

1. Weaker hypotheses: the part of `TaskContract` that survives crashes (what is
   lost is exactly the outcome of a job that is given up after it), and
   `SettledRowsAreFinal` where a recovered job runs beside a resume job.
2. The reaper's and the handlers' other audit events, and what a crash between a
   commit and its event loses.
3. Stalled workers in `TaskExecution`.
