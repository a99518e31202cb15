------------------------------ MODULE JobQueue ------------------------------
(***************************************************************************)
(* The durable PostgreSQL job queue of app/services/jobs.py and the worker *)
(* loop of app/worker.py that drains it (ADR-016, ADR-017).                *)
(*                                                                         *)
(* A job row is claimed in two steps: SELECT ... FOR UPDATE SKIP LOCKED    *)
(* (ClaimLock) and the commit of the claim (ClaimCommit).  A worker that   *)
(* executes a job renews its lease from a heartbeat thread; a job whose    *)
(* lease lapses is requeued or failed by whichever worker polls next.      *)
(*                                                                         *)
(* The handlers of worker.py:44-54 appear here only through what the queue *)
(* can see of them: they write the status of the task, they open and close *)
(* agent runs, and they return or raise.                                   *)
(***************************************************************************)
EXTENDS Naturals, FiniteSets

CONSTANTS
    Jobs, Tasks, Workers,
    TaskOf,         \* the task of a job
    Kind,           \* the JobKind of a job
    MaxAttempts,    \* WORKER_MAX_ATTEMPTS, 1..5 in core/config.py
    NoJob, NoWorker,
    MaxCrashes,     \* bound: worker deaths or iterations that raise
    MaxStalls       \* bound: leases that lapse under a live worker

JobKinds == {"EXECUTE_TASK", "ANALYZE_GITHUB_ISSUE",
             "REVIEW_PULL_REQUEST", "RESUME_HUMAN_REVIEW"}

ASSUME ConstantsOK ==
    /\ IsFiniteSet(Jobs)
    /\ TaskOf \in [Jobs -> Tasks]
    /\ Kind \in [Jobs -> JobKinds]
    /\ MaxAttempts \in Nat \ {0}
    /\ NoJob \notin Jobs
    /\ NoWorker \notin Workers
    /\ MaxCrashes \in Nat
    /\ MaxStalls \in Nat

VARIABLES
    status,     \* task_jobs.status; "ABSENT" before the row is inserted
    attempts,   \* task_jobs.attempts
    lockedBy,   \* task_jobs.locked_by
    lease,      \* task_jobs.lease_expires_at: none, in the future, in the past
    createdAt,  \* task_jobs.created_at, as the rank of the row's insertion
    task,       \* tasks.status, the outcomes of a workflow merged in "SETTLED"
    run,        \* agent_runs.status of the run a worker's handler has open
    orphans,    \* tasks with a STARTED run whose worker is gone
    pc,         \* where a worker is in run_once
    cur,        \* the job a worker has locked or executes
    loaded,     \* the job row in the session of a worker whose handler raised
    crashes, stalls

rowVars    == <<status, attempts, lockedBy, lease, createdAt>>
runVars    == <<run, orphans>>
workerVars == <<pc, cur, loaded>>
boundVars  == <<crashes, stalls>>
vars == <<rowVars, task, runVars, workerVars, boundVars>>

(* worker.py: the places of run_once, process_job and _run_job at which    *)
(* another process can see a difference.                                   *)
Executing == {"started", "working", "settled", "raised", "finishing", "failing"}
\* The heartbeat runs until keeper.stop(): a raised handler is marked and
\* finished inside the try statement, a returned one after it.
Renewing  == Executing \ {"finishing"}
Waiting   == {"QUEUED", "ANALYZING", "RESUMING"}

\* The session has no value of the row: a commit or a rollback expired it.
NotLoaded == [status |-> "UNREAD", lease |-> "UNREAD"]

Executes(w, j) == cur[w] = j /\ pc[w] \in Executing

\* Mutant: the claim reads without FOR UPDATE.
NeverLocked(j) == FALSE
\* The row lock a claim holds from its SELECT to its commit.
Locked(j) == \E w \in Workers : cur[w] = j /\ pc[w] = "claiming"

\* Mutant: the claim waits for locked rows instead of skipping them.
ClaimableLocked(j) == status[j] = "QUEUED"
\* The rows claim_next_job may select.
Claimable(j) == status[j] = "QUEUED" /\ ~Locked(j)

Init ==
    /\ status    = [j \in Jobs |-> "ABSENT"]
    /\ attempts  = [j \in Jobs |-> 0]
    /\ lockedBy  = [j \in Jobs |-> NoWorker]
    /\ lease     = [j \in Jobs |-> "NONE"]
    /\ createdAt = [j \in Jobs |-> 0]
    /\ task      = [t \in Tasks |-> "NONE"]
    /\ run       = [w \in Workers |-> "NONE"]
    /\ orphans   = {}
    /\ pc        = [w \in Workers |-> "idle"]
    /\ cur       = [w \in Workers |-> NoJob]
    /\ loaded    = [w \in Workers |-> NotLoaded]
    /\ crashes   = 0
    /\ stalls    = 0

-----------------------------------------------------------------------------
(* The API: a job row is inserted in the transaction that creates the task *)
(* or claims its review.                                                   *)

\* new_job, added and committed by its caller
NewJob(j) ==
    /\ status[j] = "ABSENT"
    /\ status'    = [status EXCEPT ![j] = "QUEUED"]
    /\ createdAt' = [createdAt EXCEPT ![j] =
                        Cardinality({k \in Jobs : status[k] # "ABSENT"}) + 1]
    /\ UNCHANGED <<attempts, lockedBy, lease, runVars, workerVars, boundVars>>

\* accept_task, accept_github_issue, accept_pull_request_review
Accept(j) ==
    /\ Kind[j] # "RESUME_HUMAN_REVIEW"
    /\ task[TaskOf[j]] = "NONE"
    /\ NewJob(j)
    /\ task' = [task EXCEPT ![TaskOf[j]] = "QUEUED"]

\* Mutant: the UPDATE of claim_human_review has no condition on the status.
AlwaysOpen(t) == TRUE
\* The condition of that UPDATE.
ReviewOpen(t) == task[t] = "HUMAN_REVIEW"

\* claim_human_review: the conditional UPDATE and the job commit together
ClaimReview(j) ==
    /\ Kind[j] = "RESUME_HUMAN_REVIEW"
    /\ ReviewOpen(TaskOf[j])
    /\ NewJob(j)
    /\ task' = [task EXCEPT ![TaskOf[j]] = "RESUMING"]

-----------------------------------------------------------------------------
(* One iteration of a worker: reap, claim, process.                        *)

Goto(w, place) == pc' = [pc EXCEPT ![w] = place]

\* Mutant: only jobs with an attempt left are reaped.
ExpiredRecoverable == {j \in Jobs : /\ status[j] = "RUNNING" /\ lease[j] = "EXPIRED"
                                    /\ attempts[j] < MaxAttempts}
\* The running jobs whose lease has lapsed.
Expired == {j \in Jobs : status[j] = "RUNNING" /\ lease[j] = "EXPIRED"}

\* Mutant: one attempt too many is granted.
DeadLate == {j \in Expired : attempts[j] > MaxAttempts}
\* Mutant: expired jobs are requeued for ever.
DeadNever == {}
\* The expired jobs with no attempt left.
Dead == {j \in Expired : attempts[j] >= MaxAttempts}

\* Mutant: the status of a recoverable job is not reset.
RequeueNothing == {}
\* The expired jobs that are recovered.
Requeued == Expired \ Dead

\* Mutant: the job fails and its task is forgotten.
AbandonNothing == {}
\* The tasks that fail with their jobs.
AbandonedTasks == {TaskOf[j] : j \in Dead}

\* Mutant: agent runs are closed only when their job is given up.
ReapedWhenDead == {TaskOf[j] : j \in Dead}
\* The tasks whose open agent runs are closed.
ReapedTasks == {TaskOf[j] : j \in Expired}

\* _abandon_agent_runs: every STARTED run of the tasks, whoever opened it
AbandonRuns(ts) ==
    /\ run' = [w \in Workers |->
                 IF run[w] = "STARTED" /\ cur[w] \in Jobs /\ TaskOf[cur[w]] \in ts
                 THEN "ABANDONED" ELSE run[w]]
    /\ orphans' = orphans \ ts

\* reap_expired_jobs: every expired job in one transaction
Reap(w) ==
    /\ pc[w] = "idle"
    /\ Goto(w, "polling")
    /\ status' = [j \in Jobs |-> IF j \in Dead THEN "FAILED"
                                 ELSE IF j \in Requeued THEN "QUEUED"
                                 ELSE status[j]]
    /\ lease'  = [j \in Jobs |-> IF j \in Expired THEN "NONE" ELSE lease[j]]
    /\ task'   = [t \in Tasks |-> IF t \in AbandonedTasks THEN "FAILED" ELSE task[t]]
    /\ AbandonRuns(ReapedTasks)
    /\ UNCHANGED <<attempts, lockedBy, createdAt, cur, loaded, boundVars>>

\* claim_next_job: SELECT the oldest queued row FOR UPDATE SKIP LOCKED
ClaimLock(w) ==
    /\ pc[w] = "polling"
    /\ \E j \in Jobs :
         /\ Claimable(j)
         /\ \A k \in Jobs : Claimable(k) => createdAt[j] <= createdAt[k]
         /\ cur' = [cur EXCEPT ![w] = j]
    /\ Goto(w, "claiming")
    /\ UNCHANGED <<rowVars, task, runVars, loaded, boundVars>>

\* claim_next_job: no row, rollback
ClaimNothing(w) ==
    /\ pc[w] = "polling"
    /\ \A j \in Jobs : ~Claimable(j)
    /\ Goto(w, "idle")
    /\ UNCHANGED <<rowVars, task, runVars, cur, loaded, boundVars>>

\* claim_next_job: the commit; then the heartbeat starts
ClaimCommit(w) ==
    /\ pc[w] = "claiming"
    /\ Goto(w, "started")
    /\ status'   = [status EXCEPT ![cur[w]] = "RUNNING"]
    /\ attempts' = [attempts EXCEPT ![cur[w]] = @ + 1]
    /\ lockedBy' = [lockedBy EXCEPT ![cur[w]] = w]
    /\ lease'    = [lease EXCEPT ![cur[w]] = "LIVE"]
    /\ UNCHANGED <<createdAt, task, runVars, cur, loaded, boundVars>>

-----------------------------------------------------------------------------
(* The handler, as the queue sees it.                                      *)

Task(w) == TaskOf[cur[w]]

\* The status a handler writes before any agent runs; a resume writes none.
Begin(w) ==
    /\ pc[w] = "started"
    /\ Goto(w, "working")
    /\ task' = IF Kind[cur[w]] = "RESUME_HUMAN_REVIEW" THEN task
               ELSE [task EXCEPT ![Task(w)] = "ANALYZING"]
    /\ UNCHANGED <<rowVars, runVars, cur, loaded, boundVars>>

\* AgentLifecycle.execute: start_agent_run
StartRun(w) ==
    /\ pc[w] = "working" /\ run[w] = "NONE"
    /\ run' = [run EXCEPT ![w] = "STARTED"]
    /\ UNCHANGED <<rowVars, task, orphans, workerVars, boundVars>>

\* complete_agent_run, fail_agent_run: written whatever the row says
EndRun(w) ==
    /\ pc[w] = "working" /\ run[w] # "NONE"
    /\ run' = [run EXCEPT ![w] = "NONE"]
    /\ UNCHANGED <<rowVars, task, orphans, workerVars, boundVars>>

\* The outcomes a kind of job may write.
Outcomes(j) ==
    IF Kind[j] \in {"EXECUTE_TASK", "ANALYZE_GITHUB_ISSUE"}
    THEN {"SETTLED", "HUMAN_REVIEW"} ELSE {"SETTLED"}

\* The commit that makes the outcome visible, before the last audit events
Settle(w) ==
    /\ pc[w] = "working" /\ run[w] = "NONE"
    /\ Goto(w, "settled")
    /\ \E s \in Outcomes(cur[w]) : task' = [task EXCEPT ![Task(w)] = s]
    /\ UNCHANGED <<rowVars, runVars, cur, loaded, boundVars>>

\* The handler raises; all but run_task_workflow may first fail the task.
Raise(w) ==
    /\ pc[w] \in {"started", "working", "settled"} /\ run[w] = "NONE"
    /\ Goto(w, "raised")
    /\ \/ UNCHANGED task
       \/ /\ Kind[cur[w]] # "EXECUTE_TASK"
          /\ task' = [task EXCEPT ![Task(w)] = "FAILED"]
    /\ UNCHANGED <<rowVars, runVars, cur, loaded, boundVars>>

\* The handler returns; keeper.stop() ends the heartbeat.
Return(w) ==
    /\ pc[w] = "settled"
    /\ Goto(w, "finishing")
    /\ UNCHANGED <<rowVars, task, runVars, cur, loaded, boundVars>>

\* After the rollback that expired it, the job row is read again.
LoadJob(w) ==
    /\ pc[w] = "raised" /\ loaded[w] = NotLoaded
    /\ loaded' = [loaded EXCEPT ![w] =
                     [status |-> status[cur[w]], lease |-> lease[cur[w]]]]
    /\ UNCHANGED <<rowVars, task, runVars, pc, cur, boundVars>>

\* _mark_task_failed; a task that is FAILED already needs no commit, and
\* what was read of the job row stays in the session.
MarkTaskFailed(w) ==
    /\ pc[w] = "raised" /\ loaded[w] # NotLoaded
    /\ Goto(w, "failing")
    /\ task' = [task EXCEPT ![Task(w)] = "FAILED"]
    /\ loaded' = IF task[Task(w)] = "FAILED" THEN loaded
                 ELSE [loaded EXCEPT ![w] = NotLoaded]
    /\ UNCHANGED <<rowVars, runVars, cur, boundVars>>

\* A column in the UPDATE of a flush: left out if it was read with the value
\* it is given, so that the row keeps what another process has written.
Flushed(read, new, old) == IF read = new THEN old ELSE new

\* finish_job: a write by primary key that waits only for the row lock
FinishJob(w) ==
    /\ pc[w] \in {"finishing", "failing"}
    /\ ~Locked(cur[w])
    /\ Goto(w, "idle")
    /\ cur'    = [cur EXCEPT ![w] = NoJob]
    /\ status' = [status EXCEPT ![cur[w]] = Flushed(loaded[w].status,
                     IF pc[w] = "finishing" THEN "SUCCEEDED" ELSE "FAILED", @)]
    /\ lease'  = [lease EXCEPT ![cur[w]] = Flushed(loaded[w].lease, "NONE", @)]
    /\ loaded' = [loaded EXCEPT ![w] = NotLoaded]
    /\ UNCHANGED <<attempts, lockedBy, createdAt, task, runVars, boundVars>>

-----------------------------------------------------------------------------
(* Time and failures.                                                      *)

\* Mutant: the renewal is conditional on the owner only.
OwnsRow(w) == lockedBy[cur[w]] = w
\* The condition of renew_lease's UPDATE.
OwnsLease(w) == status[cur[w]] = "RUNNING" /\ lockedBy[cur[w]] = w

\* renew_lease, from the heartbeat thread
Renew(w) ==
    /\ pc[w] \in Renewing
    /\ OwnsLease(w)
    /\ lease' = [lease EXCEPT ![cur[w]] = "LIVE"]
    /\ UNCHANGED <<status, attempts, lockedBy, createdAt, task, runVars,
                   workerVars, boundVars>>

\* A lease lapses: its worker is gone, or (a stall) renewals keep failing
\* under a worker that goes on, which worker.py:86-93 logs and ignores.
LeaseLapses(j) ==
    /\ lease[j] = "LIVE"
    /\ lease' = [lease EXCEPT ![j] = "EXPIRED"]
    /\ IF \E w \in Workers : Executes(w, j)
       THEN stalls < MaxStalls /\ stalls' = stalls + 1
       ELSE UNCHANGED stalls
    /\ UNCHANGED <<status, attempts, lockedBy, createdAt, task, runVars,
                   workerVars, crashes>>

\* The process dies and is started again, or run_once raises and
\* run_forever goes on: what was committed stays, locks and memory go.
Crash(w) ==
    /\ pc[w] # "idle" /\ crashes < MaxCrashes
    /\ crashes' = crashes + 1
    /\ Goto(w, "idle")
    /\ cur' = [cur EXCEPT ![w] = NoJob]
    /\ loaded' = [loaded EXCEPT ![w] = NotLoaded]
    /\ run' = [run EXCEPT ![w] = "NONE"]
    /\ orphans' = IF run[w] = "STARTED" THEN orphans \cup {Task(w)} ELSE orphans
    /\ UNCHANGED <<rowVars, task, stalls>>

-----------------------------------------------------------------------------
Iterate(w) ==
    \/ Reap(w) \/ ClaimLock(w) \/ ClaimNothing(w) \/ ClaimCommit(w)
    \/ Begin(w) \/ EndRun(w) \/ Settle(w) \/ Return(w)
    \/ LoadJob(w) \/ MarkTaskFailed(w) \/ FinishJob(w)

Next ==
    \/ \E j \in Jobs : Accept(j) \/ ClaimReview(j) \/ LeaseLapses(j)
    \/ \E w \in Workers : \/ Iterate(w) \/ StartRun(w) \/ Raise(w)
                          \/ Renew(w) \/ Crash(w)

Spec == Init /\ [][Next]_vars

-----------------------------------------------------------------------------
(* Properties.                                                             *)

Places      == {"idle", "polling", "claiming"} \cup Executing
RowStatuses == {"ABSENT", "QUEUED", "RUNNING", "SUCCEEDED", "FAILED"}
Leases      == {"NONE", "LIVE", "EXPIRED"}

\* Type invariant of the job rows, the task rows and the workers.
TypeOK ==
    /\ status \in [Jobs -> RowStatuses]
    /\ attempts \in [Jobs -> 0..MaxAttempts]
    /\ lockedBy \in [Jobs -> Workers \cup {NoWorker}]
    /\ lease \in [Jobs -> Leases]
    /\ createdAt \in [Jobs -> Nat]
    /\ task \in [Tasks -> Waiting \cup {"NONE", "HUMAN_REVIEW", "SETTLED", "FAILED"}]
    /\ run \in [Workers -> {"NONE", "STARTED", "ABANDONED"}]
    /\ orphans \subseteq Tasks
    /\ pc \in [Workers -> Places]
    /\ cur \in [Workers -> Jobs \cup {NoJob}]
    /\ loaded \in [Workers -> [status : RowStatuses, lease : Leases] \cup {NotLoaded}]
    /\ \A w \in Workers : loaded[w] # NotLoaded => pc[w] \in {"raised", "failing"}
    /\ \A w \in Workers : cur[w] = NoJob <=> pc[w] \in {"idle", "polling"}
    /\ \A w \in Workers : run[w] # "NONE" => pc[w] = "working"
    /\ crashes \in 0..MaxCrashes
    /\ stalls \in 0..MaxStalls

\* The reaper sees every running job: it has a lease, even while a worker that
\* lost its own goes on renewing and finishes the job.  No other job has one,
\* but a FAILED job that was claimed again between the read and the write of
\* a worker that had lost it (jobs.py:119-148, 173-206, worker.py:162-165).
LeaseTracksRunning ==
    \A j \in Jobs :
        /\ status[j] = "RUNNING" => lease[j] # "NONE"
        /\ lease[j] # "NONE" =>
             status[j] = "RUNNING" \/ (status[j] = "FAILED" /\ stalls > 0)

\* A job that waits in the queue has an attempt left: no order of claims,
\* lapses and late finishes starts a job more than WORKER_MAX_ATTEMPTS times
\* (ADR-017:70-71, jobs.py:190-206).
AttemptLeft == \A j \in Jobs : status[j] = "QUEUED" => attempts[j] < MaxAttempts

\* Several workers never claim the same job (ADR-016:60-61), and a claim is
\* committed on a row that is still queued (jobs.py:97-115).
ClaimsDisjoint ==
    \A w \in Workers : pc[w] = "claiming" =>
        /\ status[cur[w]] = "QUEUED"
        /\ \A v \in Workers \ {w} : pc[v] = "claiming" => cur[v] # cur[w]

\* Until a lease lapses under a live worker, a job that is executed is RUNNING
\* and locked by the one worker that executes it, so its handler's writes and
\* finish_job's unconditional UPDATE (jobs.py:138-148) meet no rival.
OneExecutor ==
    stalls = 0 => \A w \in Workers, j \in Jobs : Executes(w, j) =>
                      status[j] = "RUNNING" /\ lockedBy[j] = w

\* No task is silently stuck (ADR-016:93-94): a task whose status promises
\* more work has a job that is queued or running.
NoStuckTask ==
    \A t \in Tasks : task[t] \in Waiting =>
        \E j \in Jobs : TaskOf[j] = t /\ status[j] \in {"QUEUED", "RUNNING"}

\* ... which holds until a lease lapses under a live worker, whatever crashes
\* and recoveries have happened.
TasksKeepAJob == stalls = 0 => NoStuckTask

\* The reaper will find every run a dead worker left STARTED (ADR-017:37-38):
\* its task has a running job that no worker executes.
OrphansWillBeReaped ==
    stalls = 0 => \A t \in orphans : \E j \in Jobs :
                      /\ TaskOf[j] = t /\ status[j] = "RUNNING"
                      /\ \A w \in Workers : ~Executes(w, j)

\* A finished job is never queued or run again, whoever finished it: the
\* reaper and the claim look at RUNNING and QUEUED rows only.
FinishedIsFinal ==
    [][\A j \in Jobs : status[j] \in {"SUCCEEDED", "FAILED"} =>
                          status'[j] \in {"SUCCEEDED", "FAILED"}]_vars

\* Every queued job is eventually finished, through crashes and recoveries.
EveryJobFinishes ==
    \A j \in Jobs : status[j] = "QUEUED" ~> status[j] \in {"SUCCEEDED", "FAILED"}

\* Every accepted task reaches a recorded outcome or waits for a reviewer
\* (ADR-016:93).
EveryTaskSettles == \A t \in Tasks : task[t] \in Waiting ~> task[t] \notin Waiting

\* The audit trail does not show a dead worker's agent as running forever.
OrphansAreClosed == \A t \in Tasks : t \in orphans ~> t \notin orphans
=============================================================================
