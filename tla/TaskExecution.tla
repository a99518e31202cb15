--------------------------- MODULE TaskExecution ---------------------------
(***************************************************************************)
(* The execution of engineering tasks by app/services/tasks.py: the        *)
(* handlers EXECUTE_TASK and RESUME_HUMAN_REVIEW of the queue (JobQueue)   *)
(* drive a workflow thread (WorkflowGraph) whose checkpoint survives the   *)
(* worker, and apply its result to the task row.                           *)
(*                                                                         *)
(* Every action is an action of JobQueue with what the handler does to the *)
(* thread, the row and the reviews conjoined.  Leases lapse only under     *)
(* dead workers here; JobQueue is checked with stalls on its own.          *)
(***************************************************************************)
EXTENDS JobQueue, WorkflowGraph

CONSTANTS
    NoThread,
    FindingsWhen,   \* the security verdicts that come with findings
    MaxFaults       \* bound: agents that raise

ASSUME ExecutionConstantsOK ==
    /\ \A j \in Jobs : Kind[j] \in {"EXECUTE_TASK", "RESUME_HUMAN_REVIEW"}
    /\ NoThread \notin ThreadsAt(Nodes \cup {"END", "ERROR"})
    /\ FindingsWhen \subseteq SUBSET Actions
    /\ MaxFaults \in Nat
    /\ MaxStalls = 0

VARIABLES
    ckpt,       \* the latest checkpoint of a task's thread
    mem,        \* the thread state of a worker's invocation of the graph
    row,        \* the columns _apply_workflow_result wrote on the task
    findings,   \* tasks with rows in security_findings
    payload,    \* the decision in the payload of a resume job
    reading,    \* review requests that found the review PENDING
    audit,      \* the final events of a task's handlers
    implRuns,   \* history: executions of the implementation agent
    faults

threadVars == <<ckpt, mem, implRuns>>
rowExtras  == <<row, findings>>
reviewVars == <<payload, reading>>
extras     == <<threadVars, rowExtras, reviewVars, audit, faults>>
allVars    == <<vars, extras>>

TaskInit ==
    /\ Init
    /\ ckpt     = [t \in Tasks |-> NoThread]
    /\ mem      = [w \in Workers |-> NoThread]
    /\ row      = [t \in Tasks |-> NoThread]
    /\ findings = {}
    /\ payload  = [j \in Jobs |-> "NONE"]
    /\ reading  = {}
    /\ audit    = [t \in Tasks |-> {}]
    /\ implRuns = [t \in Tasks |-> 0]
    /\ faults   = 0

Resumes(w) == Kind[cur[w]] = "RESUME_HUMAN_REVIEW"

-----------------------------------------------------------------------------
(* The API.                                                                *)

AcceptTask(j) == Accept(j) /\ UNCHANGED extras

\* claim_human_review, up to its conditional UPDATE
ReadReview(j) ==
    /\ Kind[j] = "RESUME_HUMAN_REVIEW" /\ status[j] = "ABSENT" /\ j \notin reading
    /\ row[TaskOf[j]] # NoThread /\ row[TaskOf[j]].review = "PENDING"
    /\ reading' = reading \cup {j}
    /\ UNCHANGED <<vars, threadVars, rowExtras, payload, audit, faults>>

\* The UPDATE matched: claimed, with the job that resumes.  The outcome is
\* the reviewer's, or EXPIRED if the deadline passed (tasks.py:39-51).
DecideReview(j) ==
    /\ j \in reading
    /\ ClaimReview(j)
    /\ reading' = reading \ {j}
    /\ \E d \in Decisions : payload' = [payload EXCEPT ![j] = d]
    /\ UNCHANGED <<threadVars, rowExtras, audit, faults>>

\* The UPDATE matched no row: rollback and 409
RefuseReview(j) ==
    /\ j \in reading /\ task[TaskOf[j]] # "HUMAN_REVIEW"
    /\ reading' = reading \ {j}
    /\ UNCHANGED <<vars, threadVars, rowExtras, payload, audit, faults>>

-----------------------------------------------------------------------------
(* The handlers.                                                           *)

\* run_task_workflow up to the invocation; run_human_review_resume likewise
BeginHandler(w) == Begin(w) /\ UNCHANGED extras

\* Mutant: a recovered execution starts its thread again.
FreshAlways(w) == ~Resumes(w)
\* invoke_workflow goes on from `start` instead of the checkpoint.
Fresh(w) == ~Resumes(w) /\ (attempts[cur[w]] = 1 \/ ckpt[Task(w)] = NoThread)

\* invoke_workflow: a first attempt starts the thread, or resumes it with
\* its Command; a recovery takes the thread as its checkpoint left it.
InvokeGraph(w) ==
    /\ pc[w] = "working" /\ mem[w] = NoThread
    /\ LET from == IF Fresh(w) THEN Start ELSE ckpt[Task(w)]
       IN  /\ mem'  = [mem EXCEPT ![w] = from]
           /\ ckpt' = [ckpt EXCEPT ![Task(w)] = from]
    /\ UNCHANGED <<vars, rowExtras, reviewVars, audit, implRuns, faults>>

\* Mutant: the graph stops before the review is prepared.
StoppedEarly(w) == \/ mem[w].next = "END"
                   \/ mem[w].next = "prepare_human_review" /\ ~Resumes(w)
\* Where the graph returns: its end, or an interrupt nobody has resumed.
Stopped(w) == \/ mem[w].next = "END"
              \/ mem[w].next = "human_review" /\ ~Resumes(w)

Runnable(w) == /\ pc[w] = "working" /\ mem[w] # NoThread
               /\ mem[w].next # "ERROR" /\ ~Stopped(w)

ByAgent(s) == s.next \in AgentNodes \cup {"judge"}

\* An agent's lifecycle opens its run and the agent goes to work.
StartAgent(w) ==
    /\ Runnable(w) /\ ByAgent(mem[w])
    /\ StartRun(w)
    /\ implRuns' = IF mem[w].next = "implementation"
                   THEN [implRuns EXCEPT ![Task(w)] = @ + 1] ELSE implRuns
    /\ UNCHANGED <<ckpt, mem, rowExtras, reviewVars, audit, faults>>

\* The results of the node a worker is at.
NodeResults(w) ==
    IF mem[w].next = "human_review" THEN {Resume(mem[w], payload[cur[w]])}
    ELSE Steps(mem[w])

\* Mutant: the checkpoint of a node is stored with the next one.
StorePrevious(w, s) == ckpt' = [ckpt EXCEPT ![Task(w)] = mem[w]]
\* The checkpoint the graph stores after a node.
StoreCheckpoint(w, s) == ckpt' = [ckpt EXCEPT ![Task(w)] = s]

\* A node completes, and its checkpoint is stored before the next one starts
\* (durability="sync").
CompleteNode(w) ==
    /\ Runnable(w)
    /\ IF ByAgent(mem[w]) THEN EndRun(w) ELSE UNCHANGED vars
    /\ \E s \in NodeResults(w) :
         /\ mem' = [mem EXCEPT ![w] = s]
         /\ StoreCheckpoint(w, s)
    /\ UNCHANGED <<rowExtras, reviewVars, audit, implRuns, faults>>

\* An agent raises: its run is closed as FAILED, the node is not completed.
\* The judge catches its own exceptions (graph.py:589-600).
FailAgent(w) ==
    /\ Runnable(w) /\ mem[w].next \in AgentNodes /\ faults < MaxFaults
    /\ EndRun(w)
    /\ mem' = [mem EXCEPT ![w].next = "ERROR"]
    /\ faults' = faults + 1
    /\ UNCHANGED <<ckpt, rowExtras, reviewVars, audit, implRuns>>

\* The exception reaches the handler; only the resume handler fails the task
\* itself (tasks.py:418-438).
RaiseFromGraph(w) ==
    /\ pc[w] = "working" /\ mem[w] # NoThread /\ mem[w].next = "ERROR"
    /\ Raise(w)
    /\ task' = IF Resumes(w) THEN [task EXCEPT ![Task(w)] = "FAILED"] ELSE task
    /\ UNCHANGED extras

\* Mutant: findings that are there already are skipped.
SkipsFindings(w) == FALSE
\* persist_security_findings inserts the findings of the review under the
\* identifiers in it, so a second insert for the thread violates their key.
HasFindings(w) == ~Resumes(w) /\ mem[w].art["security"] \in FindingsWhen

\* _apply_workflow_result and the commit that makes it visible
ApplyResult(w) ==
    /\ pc[w] = "working" /\ mem[w] # NoThread /\ Stopped(w)
    /\ ~(HasFindings(w) /\ Task(w) \in findings)
    /\ Settle(w)
    /\ task'[Task(w)] = IF mem[w].status = "HUMAN_REVIEW" THEN "HUMAN_REVIEW"
                        ELSE "SETTLED"
    /\ row' = [row EXCEPT ![Task(w)] = mem[w]]
    /\ findings' = IF HasFindings(w) THEN findings \cup {Task(w)} ELSE findings
    /\ UNCHANGED <<threadVars, reviewVars, audit, faults>>

\* IntegrityError: the status and the artifacts are rolled back with it
RejectFindings(w) ==
    /\ pc[w] = "working" /\ mem[w] # NoThread /\ Stopped(w)
    /\ HasFindings(w) /\ Task(w) \in findings
    /\ Raise(w) /\ UNCHANGED task
    /\ UNCHANGED extras

\* The status a handler reads back from the row for its final event.
TaskStatus(t) == IF task[t] = "SETTLED" THEN row[t].status ELSE task[t]

\* Mutant: the handlers know no exhausted rework.
AnnouncedNotExhausted(w) == {"COMPLETED", "BLOCKED"} \cup
                         (IF Resumes(w) THEN {} ELSE {"HUMAN_REVIEW", "REWORK_REQUIRED"})
\* The statuses a handler has a final event for; any other is TASK_FAILED.
Announced(w) == {"COMPLETED", "BLOCKED", "REWORK_EXHAUSTED"} \cup
                (IF Resumes(w) THEN {} ELSE {"HUMAN_REVIEW", "REWORK_REQUIRED"})

\* The last audit events, the final one from the status read back, and return
Conclude(w) ==
    /\ Return(w)
    /\ audit' = [audit EXCEPT ![Task(w)] = @ \cup
                   {IF TaskStatus(Task(w)) \in Announced(w)
                    THEN TaskStatus(Task(w)) ELSE "FAILED"}]
    /\ UNCHANGED <<threadVars, rowExtras, reviewVars, faults>>

-----------------------------------------------------------------------------
(* The queue around the handlers, and failures.                            *)

\* The end of process_job, in either way: the invocation's memory goes.
LeaveHandler(w) ==
    /\ MarkTaskFailed(w) \/ FinishJob(w)
    /\ mem' = [mem EXCEPT ![w] = NoThread]
    /\ UNCHANGED <<ckpt, implRuns, rowExtras, reviewVars, audit, faults>>

PollQueue(w) ==
    /\ Reap(w) \/ ClaimLock(w) \/ ClaimNothing(w) \/ ClaimCommit(w) \/ LoadJob(w)
    /\ UNCHANGED extras

Heartbeat(w) == Renew(w) /\ UNCHANGED extras
LapseOfLease(j) == LeaseLapses(j) /\ UNCHANGED extras

\* What is lost is the invocation; the checkpoint and the rows stay.
CrashWorker(w) ==
    /\ Crash(w)
    /\ mem' = [mem EXCEPT ![w] = NoThread]
    /\ UNCHANGED <<ckpt, implRuns, rowExtras, reviewVars, audit, faults>>

WorkerStep(w) ==
    \/ PollQueue(w) \/ BeginHandler(w) \/ InvokeGraph(w)
    \/ StartAgent(w) \/ CompleteNode(w) \/ RaiseFromGraph(w)
    \/ ApplyResult(w) \/ RejectFindings(w) \/ Conclude(w) \/ LeaveHandler(w)

TaskNext ==
    \/ \E j \in Jobs : \/ AcceptTask(j) \/ ReadReview(j) \/ DecideReview(j)
                       \/ RefuseReview(j) \/ LapseOfLease(j)
    \/ \E w \in Workers : \/ WorkerStep(w) \/ FailAgent(w) \/ Heartbeat(w)
                          \/ CrashWorker(w)

TaskSpec == TaskInit /\ [][TaskNext]_allVars

\* Workers keep going and time passes; nothing is assumed of the handlers.
FairTaskSpec ==
    /\ TaskSpec
    /\ \A w \in Workers : WF_allVars(WorkerStep(w))
    /\ \A j \in Jobs : WF_allVars(LapseOfLease(j))

-----------------------------------------------------------------------------
(* Properties.                                                             *)

\* A task that shows HUMAN_REVIEW can be decided and resumed: its review is
\* pending and its thread waits at the interrupt (tasks.py:331-388).
ReviewCanBeDecided ==
    \A t \in Tasks : task[t] = "HUMAN_REVIEW" =>
        row[t].review = "PENDING" /\ ckpt[t].next = "human_review"

\* A task is resumed at most once, whatever reviewers race and whatever jobs
\* are recovered (ADR-011:23).
OneDecision ==
    \A i, j \in Jobs : /\ Kind[i] = "RESUME_HUMAN_REVIEW" /\ status[i] # "ABSENT"
                       /\ Kind[j] = "RESUME_HUMAN_REVIEW" /\ status[j] # "ABSENT"
                       /\ TaskOf[i] = TaskOf[j]
                       => i = j

\* No agent implements anything for a task with high findings unless its
\* reviewer approved, through recoveries and concurrent invocations of the
\* thread too (ADR-011:27-29).
NoImplementationUnlessApproved ==
    \A w \in Workers :
        mem[w] # NoThread =>
            (mem[w].next = "implementation" /\ mem[w].art["security"] # {} =>
                \E j \in Jobs : TaskOf[j] = Task(w) /\ payload[j] = "APPROVED")

\* A task row that shows a final outcome holds the artifacts of its finished
\* thread, not of an earlier or unfinished state of it (tasks.py:54-72).
SettledRowIsFinal ==
    \A t \in Tasks : task[t] = "SETTLED" => row[t].next = "END" /\ row[t] = ckpt[t]

\* An implementation is repeated only for the node a crash interrupted, so
\* recovery never applies completed changes again (ADR-017:46, 68-69).
ImplementedOncePerCrash ==
    \A t \in Tasks : ckpt[t] # NoThread =>
        implRuns[t] <= ckpt[t].builds + crashes + faults
                       + Cardinality({w \in Workers : run[w] # "NONE" /\ Task(w) = t
                                                      /\ mem[w].next = "implementation"})

\* Recovery does not count a failed validation twice, nor grant a rework
\* beyond the limit (rework.py:16-35, ADR-010:21-23).
ReworkSurvivesCrashes ==
    \A t \in Tasks : ckpt[t] # NoThread =>
        /\ ckpt[t].builds <= MaxRework
        /\ ckpt[t].next = "END" /\ ckpt[t].status = "REWORK_EXHAUSTED" =>
               ckpt[t].rework = MaxRework /\ ckpt[t].decisions = MaxRework
        /\ ckpt[t].status = "COMPLETED" => ckpt[t].decisions = ckpt[t].rework + 1

\* "Task artifacts and status are not affected" by recovery after the graph
\* finished (ADR-017:73-76): without failing agents no task whose finished
\* thread was applied is FAILED.
RecoveryKeepsOutcome ==
    \A t \in Tasks : row[t] # NoThread => task[t] # "FAILED"

\* Once no job of a settled task is left to run, its audit trail has the event
\* of the outcome its row shows: a handler that read another's status back and
\* announced something else is not the last word (tasks.py:273-279, 473-477).
SettledIsAudited ==
    \A t \in Tasks :
        /\ task[t] = "SETTLED"
        /\ \A j \in Jobs : TaskOf[j] = t => status[j] \notin {"QUEUED", "RUNNING"}
        => row[t].status \in audit[t]

\* Every accepted task settles or waits for its reviewer, through crashes.
TaskSettles == EveryTaskSettles

\* The contract of TaskContract, with the phases the statuses stand for.
Contract == INSTANCE TaskContract WITH
    phase   <- [t \in Tasks |->
                  CASE task[t] \in {"QUEUED", "ANALYZING"} -> "ACCEPTED"
                    [] task[t] = "HUMAN_REVIEW"            -> "REVIEW"
                    [] task[t] = "RESUMING"                -> "DECIDED"
                    [] task[t] = "SETTLED"                 -> row[t].status
                    [] OTHER                               -> task[t]],
    verdict <- [t \in Tasks |->
                  LET decided == {j \in Jobs : TaskOf[j] = t /\ payload[j] # "NONE"}
                  IN  IF decided = {} THEN "NONE"
                      ELSE payload[CHOOSE j \in decided : TRUE]]

ContractHolds == Contract!Spec
=============================================================================
