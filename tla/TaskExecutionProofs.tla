------------------------- MODULE TaskExecutionProofs -------------------------
(***************************************************************************)
(* Theorems about the execution of tasks (TaskExecution with TaskSpec),    *)
(* for any number of tasks, jobs and workers, any number of crashes and    *)
(* failing agents and any artifacts.  They rest on what JobQueueProofs     *)
(* shows of the queue and WorkflowGraphProofs of a thread.                 *)
(***************************************************************************)
EXTENDS TaskExecution, JobQueueProofs, WorkflowGraphProofs

-----------------------------------------------------------------------------
(* The queue.                                                              *)

\* Whatever the handlers do to threads and rows, the queue takes its steps.
LEMMA TaskStepsQueue == TaskNext => [Next]_vars
<1> SUFFICES ASSUME TaskNext PROVE [Next]_vars
  OBVIOUS
<1>1. ASSUME NEW j \in Jobs,
             \/ AcceptTask(j) \/ ReadReview(j) \/ DecideReview(j)
             \/ RefuseReview(j) \/ LapseOfLease(j)
      PROVE  [Next]_vars
  BY <1>1 DEF AcceptTask, ReadReview, DecideReview, RefuseReview, LapseOfLease, Next
<1>2. ASSUME NEW w \in Workers,
             \/ PollQueue(w) \/ BeginHandler(w) \/ InvokeGraph(w)
             \/ StartAgent(w) \/ CompleteNode(w)
      PROVE  [Next]_vars
  BY <1>2 DEF PollQueue, BeginHandler, InvokeGraph, StartAgent, CompleteNode, Next, Iterate
<1>3. ASSUME NEW w \in Workers,
             \/ RaiseFromGraph(w) \/ ApplyResult(w) \/ RejectFindings(w)
             \/ Conclude(w) \/ LeaveHandler(w)
      PROVE  [Next]_vars
  BY <1>3 DEF RaiseFromGraph, ApplyResult, RejectFindings, Conclude, LeaveHandler, Next, Iterate
<1>4. ASSUME NEW w \in Workers, FailAgent(w) \/ Heartbeat(w) \/ CrashWorker(w)
      PROVE  [Next]_vars
  BY <1>4 DEF FailAgent, Heartbeat, CrashWorker, Next, Iterate
<1> QED
  BY <1>1, <1>2, <1>3, <1>4 DEF TaskNext, WorkerStep

\* TaskExecution implements JobQueue: every theorem about the queue holds of
\* one whose handlers run the workflow.
THEOREM ExecutionRefinesQueue == TaskSpec => Spec
<1>1. TaskInit => Init
  BY DEF TaskInit
<1>2. [TaskNext]_allVars => [Next]_vars
  BY TaskStepsQueue DEF allVars
<1> QED
  BY <1>1, <1>2, PTL DEF TaskSpec, Spec

LEMMA QueueInvInit == TaskInit => QueueInv
  BY OwnerInvInit DEF TaskInit, Init, QueueInv

LEMMA QueueInvNext == QueueInv /\ [TaskNext]_allVars => QueueInv'
<1> SUFFICES ASSUME QueueInv, [TaskNext]_allVars PROVE QueueInv'
  OBVIOUS
<1>1. [Next]_vars
  BY TaskStepsQueue DEF allVars
<1>2. OwnerInv'
  BY <1>1, OwnerInvNext DEF QueueInv
<1>3. stalls' = 0
  BY <1>2, ExecutionConstantsOK DEF OwnerInv, RowInv, TypeOK
<1> QED
  BY <1>2, <1>3 DEF QueueInv

-----------------------------------------------------------------------------
(* Threads, through crashes and concurrent invocations.                    *)

\* A reviewer approved the task.
ApprovedBy(t) == \E j \in Jobs : TaskOf[j] = t /\ payload[j] = "APPROVED"

ThreadsSound ==
    /\ ckpt = [t \in Tasks |-> ckpt[t]] /\ mem = [w \in Workers |-> mem[w]]
    /\ payload \in [Jobs -> Decisions \cup {"NONE"}]
    /\ \A j \in Jobs : payload[j] # "NONE" <=> Kind[j] = "RESUME_HUMAN_REVIEW"
                                               /\ status[j] # "ABSENT"
    /\ \A t \in Tasks : ckpt[t] # NoThread =>
         /\ ThreadInv(ckpt[t])
         /\ ckpt[t].review = "APPROVED" => ApprovedBy(t)
    /\ \A w \in Workers : mem[w] # NoThread =>
         /\ pc[w] \in {"working", "settled", "raised", "finishing"}
         /\ mem[w].next = "ERROR" \/ ThreadInv(mem[w])
         /\ mem[w].review = "APPROVED" => ApprovedBy(Task(w))

LEMMA ThreadsSoundInit == TaskInit => ThreadsSound
  BY DEF TaskInit, Init, ThreadsSound

\* The node a worker completes moves its thread.
LEMMA NodesMove ==
    QueueInv /\ ThreadsSound =>
        \A w \in Workers : Runnable(w) =>
            \A s \in NodeResults(w) : Moves(mem[w], s)
<1> SUFFICES ASSUME QueueInv, ThreadsSound, NEW w \in Workers, Runnable(w),
                    NEW s \in NodeResults(w)
             PROVE  Moves(mem[w], s)
  OBVIOUS
<1>1. CASE mem[w].next = "human_review"
  <2>1. cur[w] \in Jobs /\ Resumes(w) /\ status[cur[w]] = "RUNNING"
    BY <1>1, JobsAreHeld DEF Runnable, Stopped, Held, Executing
  <2>2. payload[cur[w]] \in Decisions /\ s = Resume(mem[w], payload[cur[w]])
    BY <1>1, <2>1 DEF ThreadsSound, Resumes, NodeResults
  <2> QED
    BY <1>1, <2>2 DEF Moves
<1>2. CASE mem[w].next # "human_review"
  BY <1>2 DEF NodeResults, Moves
<1> QED
  BY <1>1, <1>2

LEMMA JobsStayHeld == QueueInv /\ [TaskNext]_allVars => Held /\ Held'
<1>1. QueueInv' => Held'
  BY JobsAreHeld, PTL
<1> QED
  BY <1>1, JobsAreHeld, QueueInvNext

LEMMA ThreadsSoundNext == QueueInv /\ ThreadsSound /\ [TaskNext]_allVars => ThreadsSound'
<1> SUFFICES ASSUME QueueInv, ThreadsSound, [TaskNext]_allVars PROVE ThreadsSound'
  OBVIOUS
<1>0. Held /\ Held'
  BY JobsStayHeld
<1>i. TaskOf \in [Jobs -> Tasks]
  BY ConstantsOK
<1> USE <1>0, <1>i DEF ThreadsSound, ApprovedBy, Task
<1>1. CASE UNCHANGED allVars
  BY <1>1 DEF allVars, vars, rowVars, workerVars, extras, threadVars, reviewVars
<1>2. ASSUME NEW j \in Jobs, AcceptTask(j) \/ LapseOfLease(j) PROVE ThreadsSound'
  BY <1>2 DEF AcceptTask, LapseOfLease, Accept, NewJob, LeaseLapses, workerVars,
              extras, threadVars, reviewVars, Held
<1>3. ASSUME NEW j \in Jobs, ReadReview(j) \/ RefuseReview(j) PROVE ThreadsSound'
  BY <1>3 DEF ReadReview, RefuseReview, vars, rowVars, workerVars, threadVars
<1>4. ASSUME NEW j \in Jobs, DecideReview(j) PROVE ThreadsSound'
  <2>1. /\ payload[j] = "NONE" /\ Kind[j] = "RESUME_HUMAN_REVIEW"
        /\ status' = [status EXCEPT ![j] = "QUEUED"]
        /\ UNCHANGED <<ckpt, mem, pc, cur>>
        /\ \E d \in Decisions : payload' = [payload EXCEPT ![j] = d]
    BY <1>4 DEF DecideReview, ClaimReview, NewJob, workerVars, threadVars
  <2>2. \A t \in Tasks : ApprovedBy(t) => ApprovedBy(t)'
    BY <2>1
  <2>3. \A w \in Workers : Task(w)' = Task(w)
    BY <2>1
  <2>4. \A w \in Workers : mem[w] # NoThread => Task(w) \in Tasks
    BY DEF Held, Executing
  <2> HIDE DEF ApprovedBy, Task
  <2> QED
    BY <2>1, <2>2, <2>3, <2>4 DEF Held, Decisions
<1>5. ASSUME NEW w \in Workers, PollQueue(w) \/ BeginHandler(w) \/ Heartbeat(w)
      PROVE  ThreadsSound'
  <2>1. /\ UNCHANGED <<ckpt, mem, payload>>
        /\ \A v \in Workers \ {w} : pc'[v] = pc[v] /\ cur'[v] = cur[v]
        /\ \/ mem[w] = NoThread
           \/ pc'[w] = pc[w] /\ cur'[w] = cur[w]
    BY <1>5 DEF PollQueue, BeginHandler, Heartbeat, Reap, ClaimLock, ClaimNothing, ClaimCommit,
                LoadJob, Begin, Renew, Goto, workerVars, extras, threadVars, reviewVars, Held
  <2>2. \A j \in Jobs : status'[j] = "ABSENT" <=> status[j] = "ABSENT"
    BY <1>5 DEF PollQueue, BeginHandler, Heartbeat, Reap, ClaimLock, ClaimNothing, ClaimCommit,
                LoadJob, Begin, Renew, Expired, Dead, Requeued, rowVars, Held
  <2> QED
    BY <2>1, <2>2
<1>6. ASSUME NEW w \in Workers, InvokeGraph(w) PROVE ThreadsSound'
  <2>1. /\ pc[w] = "working" /\ mem[w] = NoThread /\ UNCHANGED <<vars, payload>>
        /\ \E from \in {Start, ckpt[Task(w)]} : /\ mem'  = [mem EXCEPT ![w] = from]
                                                /\ ckpt' = [ckpt EXCEPT ![Task(w)] = from]
    BY <1>6 DEF InvokeGraph, reviewVars
  <2>2. ThreadInv(Start) /\ Start.review = "NONE"
    BY StartIsSound DEF Start
  <2> QED
    BY <2>1, <2>2 DEF vars, rowVars, workerVars, Held, Executing
<1>7. ASSUME NEW w \in Workers, StartAgent(w) PROVE ThreadsSound'
  BY <1>7 DEF StartAgent, StartRun, rowVars, workerVars, reviewVars
<1>8. ASSUME NEW w \in Workers, CompleteNode(w) PROVE ThreadsSound'
  <2>1. /\ UNCHANGED <<status, pc, cur, payload>> /\ pc[w] = "working"
        /\ mem[w] # NoThread /\ mem[w].next # "ERROR"
    BY <1>8 DEF CompleteNode, EndRun, vars, rowVars, workerVars, reviewVars, Runnable
  <2>2. PICK s \in NodeResults(w) : /\ mem'  = [mem EXCEPT ![w] = s]
                                    /\ ckpt' = [ckpt EXCEPT ![Task(w)] = s]
    BY <1>8 DEF CompleteNode, StoreCheckpoint
  <2>3. Moves(mem[w], s) /\ ThreadInv(mem[w])
    BY <1>8, <2>1, NodesMove DEF CompleteNode
  <2>4. ThreadInv(s) /\ Traced(mem[w], s)
    BY <2>3, ThreadInvKept, MovesAreTraced
  <2>5. s.review = "APPROVED" => ApprovedBy(Task(w))
    <3>1. CASE mem[w].review = "APPROVED"
      BY <2>1, <3>1
    <3>2. CASE mem[w].next = "human_review"
      <4>1. s = Resume(mem[w], payload[cur[w]]) /\ mem[w] \in Threads /\ cur[w] \in Jobs
        BY <2>1, <2>2, <2>3, <3>2 DEF NodeResults, ThreadInv, Held, Executing
      <4>2. s.review = payload[cur[w]]
        BY <4>1 DEF Resume, Threads, ThreadsAt
      <4> QED
        BY <4>1, <4>2
    <3> QED
      BY <2>4, <3>1, <3>2 DEF Traced
  <2> QED
    BY <2>1, <2>2, <2>4, <2>5 DEF Held, Executing
<1>9. ASSUME NEW w \in Workers, FailAgent(w) PROVE ThreadsSound'
  <2>1. /\ UNCHANGED <<status, pc, cur, payload, ckpt>> /\ pc[w] = "working"
        /\ mem[w] # NoThread /\ mem[w].next # "ERROR"
        /\ mem' = [mem EXCEPT ![w].next = "ERROR"]
    BY <1>9 DEF FailAgent, EndRun, rowVars, workerVars, reviewVars, Runnable
  <2>2. mem[w] \in Threads
    BY <2>1 DEF ThreadInv
  <2>3. mem'[w].next = "ERROR" /\ mem'[w].review = mem[w].review
    BY <2>1, <2>2 DEF Threads, ThreadsAt
  <2> QED
    BY <2>1, <2>3
<1>10. ASSUME NEW w \in Workers,
              RaiseFromGraph(w) \/ ApplyResult(w) \/ RejectFindings(w) \/ Conclude(w)
       PROVE  ThreadsSound'
  <2>1. /\ UNCHANGED <<status, cur, ckpt, mem, payload>>
        /\ \E place \in {"raised", "settled", "finishing"} : pc' = [pc EXCEPT ![w] = place]
    BY <1>10 DEF RaiseFromGraph, ApplyResult, RejectFindings, Conclude, Raise, Settle, Return,
                 Goto, rowVars, extras, threadVars, reviewVars
  <2> QED
    BY <2>1 DEF Held
<1>11. ASSUME NEW w \in Workers, LeaveHandler(w) \/ CrashWorker(w) PROVE ThreadsSound'
  <2>1. /\ UNCHANGED <<ckpt, payload>> /\ mem' = [mem EXCEPT ![w] = NoThread]
        /\ \A v \in Workers \ {w} : pc'[v] = pc[v] /\ cur'[v] = cur[v]
    BY <1>11 DEF LeaveHandler, CrashWorker, MarkTaskFailed, FinishJob, Crash, Goto, reviewVars, Held
  <2>2. \A j \in Jobs : status'[j] = "ABSENT" <=> status[j] = "ABSENT"
    <3>1. CASE FinishJob(w)
      <4>1. /\ pc[w] \in {"finishing", "failing"}
            /\ status' = [status EXCEPT ![cur[w]] =
                            IF pc[w] = "finishing" THEN "SUCCEEDED" ELSE "FAILED"]
        BY <3>1, JobsFinish DEF FinishJob
      <4> QED
        BY <4>1 DEF Held, Executing
    <3>2. CASE MarkTaskFailed(w) \/ CrashWorker(w)
      BY <3>2 DEF CrashWorker, MarkTaskFailed, Crash, rowVars
    <3> QED
      BY <1>11, <3>1, <3>2 DEF LeaveHandler
  <2> QED
    BY <2>1, <2>2
<1> QED
  BY <1>1, <1>2, <1>3, <1>4, <1>5, <1>6, <1>7, <1>8, <1>9, <1>10, <1>11 DEF TaskNext, WorkerStep

SoundInv == QueueInv /\ ThreadsSound

THEOREM ThreadsStaySound == TaskSpec => []SoundInv
  BY QueueInvInit, QueueInvNext, ThreadsSoundInit, ThreadsSoundNext, PTL DEF TaskSpec, SoundInv

\* No agent implements past a high finding without its reviewer's approval,
\* whoever dies and however many invocations share the thread (ADR-011:27-29).
THEOREM ImplementationIsApproved == TaskSpec => []NoImplementationUnlessApproved
<1>1. SoundInv => NoImplementationUnlessApproved
  <2> SUFFICES ASSUME SoundInv, NEW w \in Workers, mem[w] # NoThread,
                      mem[w].next = "implementation", mem[w].art["security"] # {}
               PROVE  ApprovedBy(Task(w))
    BY DEF NoImplementationUnlessApproved, ApprovedBy
  <2>1. ThreadInv(mem[w])
    BY DEF SoundInv, ThreadsSound
  <2>2. mem[w].review = "APPROVED"
    BY <2>1 DEF ThreadInv, PassedGates, Developing
  <2> QED
    BY <2>2 DEF SoundInv, ThreadsSound
<1> QED
  BY <1>1, ThreadsStaySound, PTL

\* Recovered or resumed, a thread counts its reworks as an undisturbed one
\* does (rework.py:16-35, ADR-010:21-23).
THEOREM ReworkIsCountedOnce == TaskSpec => []ReworkSurvivesCrashes
<1>1. SoundInv => ReworkSurvivesCrashes
  BY DEF SoundInv, ThreadsSound, ReworkSurvivesCrashes, ThreadInv, Counted
<1> QED
  BY <1>1, ThreadsStaySound, PTL

-----------------------------------------------------------------------------
(* The outcome that is announced.                                          *)

Finals == {"BLOCKED", "COMPLETED", "REWORK_EXHAUSTED"}

\* A job that will read the status of the task back, or fail it.
Reporting(t) == \E j \in Jobs :
    /\ TaskOf[j] = t /\ status[j] \in {"QUEUED", "RUNNING"}
    /\ \A w \in Workers : cur[w] = j => pc[w] \notin {"finishing", "failing"}

\* SettledIsAudited is not inductive: a job may be left that has reported
\* already.  The one named here has not.
AuditInv ==
    /\ row = [t \in Tasks |-> row[t]] /\ audit = [t \in Tasks |-> audit[t]]
    /\ \A t \in Tasks : task[t] = "SETTLED" =>
         /\ row[t].status \in Finals /\ row[t].next = "END"
         /\ row[t].status \in audit[t] \/ Reporting(t)

LEMMA AuditInvInit == TaskInit => AuditInv
  BY DEF TaskInit, Init, AuditInv

\* What a handler applies: the review its thread waits for, or an outcome.
LEMMA AppliedResults ==
    QueueInv /\ ThreadsSound =>
        \A w \in Workers : ApplyResult(w) =>
            /\ pc[w] = "working" /\ mem[w] # NoThread /\ ThreadInv(mem[w])
            /\ \/ mem[w].next = "END" /\ mem[w].status \in Finals
                  /\ task' = [task EXCEPT ![Task(w)] = "SETTLED"]
               \/ /\ mem[w].status = "HUMAN_REVIEW"
                  /\ mem[w].next = "END" => ~Automatic
                  /\ mem[w].next # "END" => mem[w].next = "human_review" /\ ~Resumes(w)
                  /\ task' = [task EXCEPT ![Task(w)] = "HUMAN_REVIEW"]
<1> SUFFICES ASSUME QueueInv, ThreadsSound, NEW w \in Workers, ApplyResult(w)
             PROVE  /\ pc[w] = "working" /\ mem[w] # NoThread /\ ThreadInv(mem[w])
                    /\ \/ mem[w].next = "END" /\ mem[w].status \in Finals
                          /\ task' = [task EXCEPT ![Task(w)] = "SETTLED"]
                       \/ /\ mem[w].status = "HUMAN_REVIEW"
                          /\ mem[w].next = "END" => ~Automatic
                          /\ mem[w].next # "END" => mem[w].next = "human_review" /\ ~Resumes(w)
                          /\ task' = [task EXCEPT ![Task(w)] = "HUMAN_REVIEW"]
  OBVIOUS
<1>1. pc[w] = "working" /\ mem[w] # NoThread /\ Stopped(w)
  BY DEF ApplyResult
<1>2. ThreadInv(mem[w])
  BY <1>1 DEF ThreadsSound, Stopped
<1>3. \/ mem[w].next = "END" /\ mem[w].status \in Finals
      \/ /\ mem[w].status = "HUMAN_REVIEW"
         /\ mem[w].next = "END" => ~Automatic
         /\ mem[w].next # "END" => mem[w].next = "human_review" /\ ~Resumes(w)
  BY <1>1, <1>2 DEF Stopped, ThreadInv, Flagged, ReviewPlaced, Reviewing, Finals
<1>4. Task(w) \in Tasks /\ task = [t \in Tasks |-> task[t]]
  BY <1>1, JobsAreHeld, ConstantsOK DEF Held, Executing, Task
<1>5. PICK s : task' = [task EXCEPT ![Task(w)] = s]
  BY DEF ApplyResult, Settle
<1>6. s = IF mem[w].status = "HUMAN_REVIEW" THEN "HUMAN_REVIEW" ELSE "SETTLED"
  BY <1>4, <1>5 DEF ApplyResult
<1> QED
  BY <1>1, <1>2, <1>3, <1>5, <1>6 DEF Finals

LEMMA AuditInvNext ==
    QueueInv /\ ThreadsSound /\ AuditInv /\ [TaskNext]_allVars => AuditInv'
<1> SUFFICES ASSUME QueueInv, ThreadsSound, AuditInv, [TaskNext]_allVars PROVE AuditInv'
  OBVIOUS
<1>0. Held /\ Held'
  BY JobsStayHeld
<1>i. TaskOf \in [Jobs -> Tasks]
  BY ConstantsOK
<1> USE <1>0, <1>i DEF AuditInv, Reporting, Task
<1>1. CASE UNCHANGED allVars
  BY <1>1 DEF allVars, vars, rowVars, workerVars, extras, rowExtras
<1>2. ASSUME NEW j \in Jobs,
             \/ AcceptTask(j) \/ ReadReview(j) \/ DecideReview(j)
             \/ RefuseReview(j) \/ LapseOfLease(j)
      PROVE  AuditInv'
  <2>1. /\ UNCHANGED <<pc, cur, row, audit>>
        /\ \A t \in Tasks : task'[t] = "SETTLED" => task[t] = "SETTLED"
        /\ \A k \in Jobs : status[k] # "ABSENT" => status'[k] = status[k]
    BY <1>2 DEF AcceptTask, ReadReview, DecideReview, RefuseReview, LapseOfLease, Accept,
                ClaimReview, NewJob, LeaseLapses, vars, rowVars, workerVars, extras, rowExtras, Held
  <2> QED
    BY <2>1
<1>3. ASSUME NEW w \in Workers, PollQueue(w) PROVE AuditInv'
  <2>1. CASE Reap(w)
    <3>1. ASSUME NEW t \in Tasks, task'[t] = "SETTLED", Reporting(t) PROVE Reporting(t)'
      <4>1. ~ \E j \in Dead : TaskOf[j] = t
        BY <2>1, <3>1 DEF Reap, AbandonedTasks
      <4>2. \A k \in Jobs : TaskOf[k] = t /\ status[k] \in {"QUEUED", "RUNNING"} =>
                              status'[k] \in {"QUEUED", "RUNNING"}
        BY <2>1, <4>1 DEF Reap, Requeued, Expired
      <4> QED
        BY <2>1, <3>1, <4>2 DEF Reap, Goto, Held
    <3>2. /\ UNCHANGED <<row, audit>>
          /\ \A t \in Tasks : task'[t] = "SETTLED" => task[t] = "SETTLED"
      BY <1>3, <2>1 DEF PollQueue, Reap, extras, rowExtras
    <3> HIDE DEF Reporting
    <3> QED
      BY <3>1, <3>2
  <2>2. CASE ClaimLock(w) \/ ClaimNothing(w) \/ ClaimCommit(w) \/ LoadJob(w)
    BY <1>3, <2>2 DEF PollQueue, ClaimLock, ClaimNothing, ClaimCommit, LoadJob, Goto, rowVars, extras,
                      rowExtras, Held
  <2> QED
    BY <1>3, <2>1, <2>2 DEF PollQueue
<1>4. ASSUME NEW w \in Workers, BeginHandler(w) \/ Heartbeat(w) PROVE AuditInv'
  BY <1>4 DEF BeginHandler, Heartbeat, Begin, Renew, Goto, rowVars, workerVars, extras,
              rowExtras, Held
<1>5. ASSUME NEW w \in Workers,
             InvokeGraph(w) \/ StartAgent(w) \/ CompleteNode(w) \/ FailAgent(w)
      PROVE  AuditInv'
  <2>1. UNCHANGED <<status, task, pc, cur, row, audit>>
    BY <1>5 DEF InvokeGraph, StartAgent, CompleteNode, FailAgent, StartRun, EndRun, vars,
                rowVars, workerVars, rowExtras
  <2> QED
    BY <2>1
<1>6. ASSUME NEW w \in Workers, RaiseFromGraph(w) \/ RejectFindings(w) PROVE AuditInv'
  <2>1. /\ UNCHANGED <<status, cur, row, audit>> /\ pc' = [pc EXCEPT ![w] = "raised"]
        /\ \A t \in Tasks : task'[t] = "SETTLED" => task[t] = "SETTLED"
    BY <1>6 DEF RaiseFromGraph, RejectFindings, Raise, Goto, rowVars, extras, rowExtras, Held
  <2> QED
    BY <2>1 DEF Held
<1>7. ASSUME NEW w \in Workers, ApplyResult(w) PROVE AuditInv'
  <2>1. /\ UNCHANGED <<status, cur, audit>> /\ pc' = [pc EXCEPT ![w] = "settled"]
        /\ row' = [row EXCEPT ![Task(w)] = mem[w]]
    BY <1>7 DEF ApplyResult, Settle, Goto, rowVars
  <2>2. \/ mem[w].next = "END" /\ mem[w].status \in Finals
           /\ task' = [task EXCEPT ![Task(w)] = "SETTLED"]
        \/ task' = [task EXCEPT ![Task(w)] = "HUMAN_REVIEW"]
    BY <1>7, AppliedResults
  <2>3. pc[w] = "working" /\ cur[w] \in Jobs /\ status[cur[w]] = "RUNNING"
    BY <1>7 DEF ApplyResult, Held, Executing
  <2>4. Reporting(Task(w))'
    BY <2>1, <2>3 DEF Held, Executing
  <2>5. \A t \in Tasks : Reporting(t) => Reporting(t)'
    BY <2>1 DEF Held
  <2> HIDE DEF Reporting
  <2> QED
    BY <2>1, <2>2, <2>4, <2>5 DEF Held
<1>8. ASSUME NEW w \in Workers, Conclude(w) PROVE AuditInv'
  <2>1. /\ UNCHANGED <<status, task, cur, row>> /\ pc' = [pc EXCEPT ![w] = "finishing"]
        /\ pc[w] = "settled" /\ cur[w] \in Jobs
    BY <1>8 DEF Conclude, Return, Goto, rowVars, rowExtras, Held, Executing
  <2>2. /\ audit' = [t \in Tasks |-> audit'[t]]
        /\ \A t \in Tasks : audit[t] \subseteq audit'[t]
    BY <1>8, <2>1 DEF Conclude
  <2>3. task[Task(w)] = "SETTLED" => row[Task(w)].status \in audit'[Task(w)]
    BY <1>8, <2>1 DEF Conclude, TaskStatus, Announced, Finals
  <2>4. \A t \in Tasks : t # Task(w) /\ Reporting(t) => Reporting(t)'
    BY <2>1 DEF Held
  <2> HIDE DEF Reporting
  <2> QED
    BY <2>1, <2>2, <2>3, <2>4
<1>9. ASSUME NEW w \in Workers, LeaveHandler(w) PROVE AuditInv'
  <2>1. CASE MarkTaskFailed(w)
    <3>1. /\ UNCHANGED <<status, cur, row, audit>> /\ pc' = [pc EXCEPT ![w] = "failing"]
          /\ task' = [task EXCEPT ![Task(w)] = "FAILED"] /\ cur[w] \in Jobs
      BY <1>9, <2>1 DEF LeaveHandler, MarkTaskFailed, Goto, rowVars, rowExtras, Held, Executing
    <3> QED
      BY <3>1 DEF Held
  <2>2. CASE FinishJob(w)
    <3>1. /\ UNCHANGED <<task, row, audit>> /\ pc' = [pc EXCEPT ![w] = "idle"]
          /\ cur' = [cur EXCEPT ![w] = NoJob] /\ pc[w] \in {"finishing", "failing"}
          /\ \A k \in Jobs \ {cur[w]} : status'[k] = status[k]
      BY <1>9, <2>2 DEF LeaveHandler, FinishJob, Goto, rowExtras, Held
    <3> QED
      BY <3>1 DEF Held
  <2> QED
    BY <1>9, <2>1, <2>2 DEF LeaveHandler
<1>10. ASSUME NEW w \in Workers, CrashWorker(w) PROVE AuditInv'
  <2>1. /\ UNCHANGED <<status, task, row, audit>> /\ pc' = [pc EXCEPT ![w] = "idle"]
        /\ cur' = [cur EXCEPT ![w] = NoJob]
    BY <1>10 DEF CrashWorker, Crash, Goto, rowVars, rowExtras
  <2> QED
    BY <2>1 DEF Held
<1> QED
  BY <1>1, <1>2, <1>3, <1>4, <1>5, <1>6, <1>7, <1>8, <1>9, <1>10 DEF TaskNext, WorkerStep

\* A settled task with no job left has the event of its outcome in its audit
\* trail, whichever of its handlers wrote it (tasks.py:273-279, 473-477).
THEOREM OutcomeIsAudited == TaskSpec => []SettledIsAudited
<1>1. AuditInv => SettledIsAudited
  BY DEF AuditInv, Reporting, SettledIsAudited
<1>2. SoundInv /\ AuditInv /\ [TaskNext]_allVars => AuditInv'
  BY AuditInvNext DEF SoundInv
<1> QED
  BY <1>1, <1>2, AuditInvInit, ThreadsStaySound, PTL DEF TaskSpec

-----------------------------------------------------------------------------
(* One execution job for each task.                                        *)

\* A row of the queue for a reviewer's decision on a task.
Decided(t) == \E j \in Jobs : /\ TaskOf[j] = t /\ Kind[j] = "RESUME_HUMAN_REVIEW"
                              /\ status[j] # "ABSENT"

LEMMA AcceptedOnceInit == TaskInit => AcceptedOnce
  BY AcceptedOnceFirst DEF TaskInit

LEMMA AcceptedOnceNext == QueueInv /\ AcceptedOnce /\ [TaskNext]_allVars => AcceptedOnce'
<1> SUFFICES ASSUME QueueInv, AcceptedOnce, [TaskNext]_allVars PROVE AcceptedOnce'
  OBVIOUS
<1>1. [Next]_vars
  BY TaskStepsQueue DEF allVars
<1> QED
  BY <1>1, AcceptedOnceKept

-----------------------------------------------------------------------------
(* Reviews, when a task that needs one has findings.                       *)

ReviewInv ==
    /\ AcceptedOnce /\ OneDecision
    /\ \A t \in Tasks : Decided(t) \/ task[t] = "HUMAN_REVIEW" => t \in findings
    /\ \A t \in Tasks : Decided(t) => task[t] # "HUMAN_REVIEW"
    /\ \A w \in Workers : pc[w] \in Executing /\ ~Decided(Task(w)) =>
         /\ pc[w] = "working" => task[Task(w)] # "HUMAN_REVIEW"
         /\ mem[w] # NoThread /\ mem[w].next # "ERROR" => ckpt[Task(w)] = mem[w]
    /\ row = [t \in Tasks |-> row[t]] /\ ReviewCanBeDecided

LEMMA ReviewInvInit == TaskInit => ReviewInv
  BY AcceptedOnceInit, ConstantsOK
  DEF TaskInit, Init, ReviewInv, OneDecision, Decided, ReviewCanBeDecided

\* Before a decision, one worker at most has a task.
LEMMA UndecidedAlone ==
    QueueInv /\ AcceptedOnce =>
        \A v, w \in Workers : /\ pc[v] \in Executing /\ pc[w] \in Executing
                              /\ Task(v) = Task(w) /\ ~Decided(Task(w))
                              => v = w
  BY JobsAreHeld, ExecutionConstantsOK DEF Held, AcceptedOnce, Decided, Task

\* A step that neither decides nor applies anything, nor moves a thread.
Quiet ==
    /\ UNCHANGED <<ckpt, row, findings>>
    /\ \A j \in Jobs : Kind[j] = "RESUME_HUMAN_REVIEW" =>
         (status'[j] = "ABSENT" <=> status[j] = "ABSENT")
    /\ \A t \in Tasks : task'[t] = "HUMAN_REVIEW" => task[t] = "HUMAN_REVIEW"
    /\ \A w \in Workers : pc'[w] \in Executing => cur'[w] = cur[w] /\
         \/ /\ pc[w] \in Executing
            /\ pc'[w] = "working" => pc[w] = "working"
            /\ mem'[w] = NoThread \/ mem'[w] = mem[w] \/ mem'[w].next = "ERROR"
         \/ /\ pc[w] \in {"claiming", "started"} /\ mem'[w] = NoThread
            /\ pc'[w] = "working" => pc[w] = "started" /\
                 (Decided(Task(w)) \/ task'[Task(w)] # "HUMAN_REVIEW")

LEMMA QuietSteps ==
    QueueInv /\ ThreadsSound =>
      /\ \A j \in Jobs : AcceptTask(j) \/ ReadReview(j) \/ RefuseReview(j) \/ LapseOfLease(j)
           => Quiet
      /\ \A w \in Workers :
           \/ PollQueue(w) \/ BeginHandler(w) \/ StartAgent(w) \/ FailAgent(w)
           \/ RaiseFromGraph(w) \/ RejectFindings(w) \/ Conclude(w) \/ LeaveHandler(w)
           \/ Heartbeat(w) \/ CrashWorker(w)
           => Quiet
<1> SUFFICES ASSUME QueueInv, ThreadsSound
             PROVE  /\ \A j \in Jobs : \/ AcceptTask(j) \/ ReadReview(j)
                                       \/ RefuseReview(j) \/ LapseOfLease(j)
                         => Quiet
                    /\ \A w \in Workers :
                         \/ PollQueue(w) \/ BeginHandler(w) \/ StartAgent(w) \/ FailAgent(w)
                         \/ RaiseFromGraph(w) \/ RejectFindings(w) \/ Conclude(w)
                         \/ LeaveHandler(w) \/ Heartbeat(w) \/ CrashWorker(w)
                         => Quiet
  OBVIOUS
<1>0. Held /\ TaskOf \in [Jobs -> Tasks]
      /\ \A j \in Jobs : Kind[j] \in {"EXECUTE_TASK", "RESUME_HUMAN_REVIEW"}
      /\ \A w \in Workers : pc[w] \in {"idle", "polling", "claiming", "started", "failing"}
           => mem[w] = NoThread
  BY JobsAreHeld, ConstantsOK, ExecutionConstantsOK DEF ThreadsSound
<1>1. ASSUME NEW j \in Jobs, ReadReview(j) \/ RefuseReview(j) \/ LapseOfLease(j) PROVE Quiet
  BY <1>0, <1>1 DEF Quiet, ReadReview, RefuseReview, LapseOfLease, LeaseLapses, vars, rowVars,
     workerVars, rowExtras, threadVars, extras
<1>2. ASSUME NEW j \in Jobs, AcceptTask(j) PROVE Quiet
  BY <1>0, <1>2 DEF Quiet, AcceptTask, Accept, NewJob, workerVars, rowExtras, threadVars, extras, Held
<1> USE <1>0 DEF Quiet, Held, Executing, Goto, rowExtras, threadVars, extras, rowVars, workerVars, vars
<1>3. ASSUME NEW w \in Workers, PollQueue(w) PROVE Quiet
  BY <1>3 DEF PollQueue, Reap, ClaimLock, ClaimNothing, ClaimCommit, LoadJob, Expired, Requeued,
              Dead
<1>4. ASSUME NEW w \in Workers, BeginHandler(w) PROVE Quiet
  BY <1>4 DEF BeginHandler, Begin, Task, Decided
<1>5. ASSUME NEW w \in Workers, StartAgent(w) \/ Heartbeat(w) PROVE Quiet
  BY <1>5 DEF StartAgent, StartRun, Heartbeat, Renew
<1>6. ASSUME NEW w \in Workers, FailAgent(w) PROVE Quiet
  <2>1. /\ UNCHANGED <<ckpt, row, findings, status, task, pc, cur>>
        /\ mem' = [mem EXCEPT ![w].next = "ERROR"]
        /\ pc[w] = "working" /\ mem[w] # NoThread /\ mem[w].next # "ERROR"
    BY <1>6 DEF FailAgent, EndRun, Runnable
  <2>2. mem[w] \in Threads /\ mem = [v \in Workers |-> mem[v]]
    BY <2>1 DEF ThreadInv, ThreadsSound
  <2>3. mem'[w].next = "ERROR" /\ \A v \in Workers \ {w} : mem'[v] = mem[v]
    BY <2>1, <2>2 DEF Threads, ThreadsAt
  <2> QED
    BY <2>1, <2>3
<1>7. ASSUME NEW w \in Workers, RaiseFromGraph(w) \/ RejectFindings(w) \/ Conclude(w) PROVE Quiet
  BY <1>7 DEF RaiseFromGraph, RejectFindings, Raise, Conclude, Return
<1>8. ASSUME NEW w \in Workers, LeaveHandler(w) \/ CrashWorker(w) PROVE Quiet
  <2>1. CASE FinishJob(w)
    <3>1. /\ status' = [status EXCEPT ![cur[w]] =
                         IF pc[w] = "finishing" THEN "SUCCEEDED" ELSE "FAILED"]
          /\ UNCHANGED <<task, ckpt, row, findings>> /\ mem' = [mem EXCEPT ![w] = NoThread]
          /\ pc[w] \in {"finishing", "failing"} /\ pc' = [pc EXCEPT ![w] = "idle"]
          /\ cur' = [cur EXCEPT ![w] = NoJob]
      BY <1>8, <2>1, JobsFinish DEF LeaveHandler, FinishJob, CrashWorker, Crash
    <3> QED
      BY <3>1 DEF ThreadsSound
  <2>2. CASE MarkTaskFailed(w) \/ CrashWorker(w)
    BY <1>8, <2>2 DEF LeaveHandler, MarkTaskFailed, FinishJob, CrashWorker, Crash, ThreadsSound
  <2> QED
    BY <1>8, <2>1, <2>2 DEF LeaveHandler
<1> QED
  BY <1>1, <1>2, <1>3, <1>4, <1>5, <1>6, <1>7, <1>8

LEMMA ReviewInvNext ==
    Automatic /\ {"HUMAN_REVIEW"} \in FindingsWhen =>
        (QueueInv /\ ThreadsSound /\ ReviewInv /\ [TaskNext]_allVars => ReviewInv')
<1> SUFFICES ASSUME Automatic, {"HUMAN_REVIEW"} \in FindingsWhen,
                    QueueInv, ThreadsSound, ReviewInv, [TaskNext]_allVars
             PROVE  ReviewInv'
  OBVIOUS
<1>0. Held /\ Held' /\ TaskOf \in [Jobs -> Tasks] /\ AcceptedOnce'
  BY JobsStayHeld, ConstantsOK, AcceptedOnceNext DEF ReviewInv
<1>w. \A w \in Workers : pc[w] \in {"claiming"} \cup Executing => Task(w) \in Tasks
  BY <1>0 DEF Held, Task
<1>q. ASSUME Quiet PROVE ReviewInv'
  <2>1. \A t \in Tasks : Decided(t)' <=> Decided(t)
    BY <1>q DEF Quiet, Decided
  <2>2. OneDecision'
    BY <1>q DEF Quiet, OneDecision, ReviewInv
  <2>3. ReviewCanBeDecided' /\ row' = [t \in Tasks |-> row'[t]]
    BY <1>q DEF Quiet, ReviewInv, ReviewCanBeDecided
  <2>4. ASSUME NEW w \in Workers, pc'[w] \in Executing, ~Decided(Task(w))'
        PROVE  /\ pc'[w] = "working" => task'[Task(w)'] # "HUMAN_REVIEW"
               /\ mem'[w] # NoThread /\ mem'[w].next # "ERROR" => ckpt'[Task(w)'] = mem'[w]
    <3>1. Task(w)' = Task(w) /\ Task(w) \in Tasks
      <4>1. cur'[w] = cur[w] /\ pc[w] \in {"claiming"} \cup Executing
        BY <1>q, <2>4 DEF Quiet, Executing
      <4> QED
        BY <1>w, <4>1 DEF Task
    <3>2. ~Decided(Task(w))
      BY <1>q, <2>4, <3>1 DEF Quiet, Decided, Task
    <3> QED
      BY <1>q, <2>4, <3>1, <3>2 DEF Quiet, ReviewInv
  <2> QED
    BY <1>q, <1>0, <2>1, <2>2, <2>3, <2>4 DEF Quiet, ReviewInv
<1>1. CASE UNCHANGED allVars
  BY <1>1 DEF allVars, vars, rowVars, workerVars, extras, rowExtras, threadVars, ReviewInv,
              AcceptedOnce, OneDecision, Decided, ReviewCanBeDecided, Task
<1>2. ASSUME NEW j \in Jobs, DecideReview(j) PROVE ReviewInv'
  <2> DEFINE t == TaskOf[j]
  <2>1. /\ UNCHANGED <<pc, cur, ckpt, mem, row, findings>>
        /\ Kind[j] = "RESUME_HUMAN_REVIEW" /\ status[j] = "ABSENT"
        /\ status' = [status EXCEPT ![j] = "QUEUED"]
        /\ task[t] = "HUMAN_REVIEW" /\ task' = [task EXCEPT ![t] = "RESUMING"]
    BY <1>2 DEF DecideReview, ClaimReview, ReviewOpen, NewJob, workerVars, rowExtras, threadVars
  <2>2. t \in Tasks /\ ~Decided(t) /\ t \in findings
    BY <1>0, <2>1 DEF ReviewInv
  <2>3. \A u \in Tasks : Decided(u)' <=> (Decided(u) \/ u = t)
    BY <1>0, <2>1 DEF Decided, Held
  <2>4. OneDecision'
    BY <1>0, <2>1, <2>2 DEF OneDecision, Decided, Held, ReviewInv
  <2>5. ASSUME NEW w \in Workers, pc'[w] \in Executing, ~Decided(Task(w))'
        PROVE  /\ pc'[w] = "working" => task'[Task(w)'] # "HUMAN_REVIEW"
               /\ mem'[w] # NoThread /\ mem'[w].next # "ERROR" => ckpt'[Task(w)'] = mem'[w]
    <3>1. Task(w)' = Task(w) /\ Task(w) \in Tasks /\ pc[w] \in Executing
      BY <1>w, <2>1, <2>5 DEF Task
    <3>2. ~Decided(Task(w)) /\ Task(w) # t
      <4>1. ~Decided(Task(w))' <=> ~(Decided(Task(w)) \/ Task(w) = t)
        BY <2>3, <3>1, <1>0, <2>1 DEF Decided, Task, Held
      <4> QED
        BY <2>5, <4>1
    <3> QED
      BY <1>0, <2>1, <3>1, <3>2 DEF ReviewInv, Held
  <2>6. ReviewCanBeDecided'
    BY <1>0, <2>1 DEF ReviewCanBeDecided, ReviewInv, Held
  <2> QED
    BY <1>0, <2>1, <2>2, <2>3, <2>4, <2>5, <2>6 DEF ReviewInv, Held
<1>3. ASSUME NEW w \in Workers, InvokeGraph(w) \/ CompleteNode(w) PROVE ReviewInv'
  <2> DEFINE t == Task(w)
  <2>1. /\ UNCHANGED <<status, task, pc, cur, row, findings>> /\ pc[w] = "working"
        /\ \E s : mem' = [mem EXCEPT ![w] = s] /\ ckpt' = [ckpt EXCEPT ![t] = s]
    BY <1>3 DEF InvokeGraph, CompleteNode, StoreCheckpoint, EndRun, Runnable, vars, rowVars,
                workerVars, rowExtras
  <2>2. PICK s : mem' = [mem EXCEPT ![w] = s] /\ ckpt' = [ckpt EXCEPT ![t] = s]
    BY <2>1
  <2>3. \A u : Decided(u)' <=> Decided(u)
    BY <2>1 DEF Decided
  <2>4. t \in Tasks /\ (~Decided(t) => task[t] # "HUMAN_REVIEW")
    BY <1>w, <2>1 DEF ReviewInv, Executing
  <2>5. task[t] # "HUMAN_REVIEW"
    BY <2>4 DEF ReviewInv
  <2>6. ReviewCanBeDecided'
    BY <2>1, <2>2, <2>5 DEF ReviewCanBeDecided, ReviewInv, ThreadsSound
  <2>7. ASSUME NEW v \in Workers, pc[v] \in Executing, ~Decided(Task(v))
        PROVE  mem'[v] # NoThread /\ mem'[v].next # "ERROR" => ckpt'[Task(v)] = mem'[v]
    <3>1. CASE Task(v) = t
      <4>1. v = w
        BY <2>1, <2>7, <3>1, UndecidedAlone DEF ReviewInv, Executing
      <4> QED
        BY <2>2, <2>4, <4>1 DEF ThreadsSound
    <3>2. CASE Task(v) # t
      BY <1>w, <2>2, <2>7, <3>2 DEF ThreadsSound, ReviewInv
    <3> QED
      BY <3>1, <3>2
  <2>8. \A v \in Workers : Task(v)' = Task(v) /\ (Decided(Task(v))' <=> Decided(Task(v)))
    BY <2>1 DEF Task, Decided
  <2>9. ASSUME NEW v \in Workers, pc'[v] \in Executing, ~Decided(Task(v))'
        PROVE  /\ pc'[v] = "working" => task'[Task(v)'] # "HUMAN_REVIEW"
               /\ mem'[v] # NoThread /\ mem'[v].next # "ERROR" => ckpt'[Task(v)'] = mem'[v]
    <3>1. pc[v] \in Executing /\ ~Decided(Task(v)) /\ Task(v)' = Task(v)
      BY <2>1, <2>8, <2>9
    <3> QED
      BY <2>1, <2>7, <3>1 DEF ReviewInv
  <2>10. OneDecision' /\ row' = [u \in Tasks |-> row'[u]]
    BY <2>1 DEF OneDecision, ReviewInv
  <2>11. \A u \in Tasks : /\ Decided(u)' \/ task'[u] = "HUMAN_REVIEW" => u \in findings'
                          /\ Decided(u)' => task'[u] # "HUMAN_REVIEW"
    BY <2>1, <2>3 DEF ReviewInv
  <2> QED
    BY <1>0, <2>6, <2>9, <2>10, <2>11 DEF ReviewInv
<1>4. ASSUME NEW w \in Workers, ApplyResult(w) PROVE ReviewInv'
  <2> DEFINE t == Task(w)
  <2>1. /\ UNCHANGED <<status, cur, ckpt, mem>> /\ pc' = [pc EXCEPT ![w] = "settled"]
        /\ row' = [row EXCEPT ![t] = mem[w]]
        /\ findings' = IF HasFindings(w) THEN findings \cup {t} ELSE findings
        /\ ~(HasFindings(w) /\ t \in findings)
    BY <1>4 DEF ApplyResult, Settle, Goto, rowVars, threadVars
  <2>2. \A u : Decided(u)' <=> Decided(u)
    BY <2>1 DEF Decided
  <2>3. pc[w] = "working" /\ mem[w] # NoThread /\ ThreadInv(mem[w]) /\ t \in Tasks
    BY <1>4, <1>w, AppliedResults DEF Executing
  <2>4. \A v \in Workers : Task(v)' = Task(v) /\ (Decided(Task(v))' <=> Decided(Task(v)))
    BY <2>1 DEF Task, Decided
  <2>5. OneDecision' /\ row' = [u \in Tasks |-> row'[u]]
    BY <2>1 DEF OneDecision, ReviewInv
  <2>6. CASE task' = [task EXCEPT ![t] = "SETTLED"]
    <3>1. ReviewCanBeDecided'
      BY <1>0, <2>1, <2>3, <2>6 DEF ReviewCanBeDecided, ReviewInv, Held
    <3>2. ASSUME NEW v \in Workers, pc'[v] \in Executing, ~Decided(Task(v))'
          PROVE  /\ pc'[v] = "working" => task'[Task(v)'] # "HUMAN_REVIEW"
                 /\ mem'[v] # NoThread /\ mem'[v].next # "ERROR" => ckpt'[Task(v)'] = mem'[v]
      <4>1. /\ pc[v] \in Executing /\ ~Decided(Task(v)) /\ Task(v)' = Task(v)
            /\ pc'[v] = "working" => pc[v] = "working"
            /\ Task(v) \in Tasks
        BY <1>0, <1>w, <2>1, <2>3, <2>4, <3>2 DEF Held, Executing
      <4> QED
        BY <1>0, <2>1, <2>6, <4>1 DEF ReviewInv, Held
    <3>3. \A u \in Tasks : /\ Decided(u)' \/ task'[u] = "HUMAN_REVIEW" => u \in findings'
                           /\ Decided(u)' => task'[u] # "HUMAN_REVIEW"
      BY <1>0, <2>1, <2>2, <2>3, <2>6 DEF ReviewInv, Held
    <3> QED
      BY <1>0, <2>5, <3>1, <3>2, <3>3 DEF ReviewInv
  <2>7. CASE /\ mem[w].status = "HUMAN_REVIEW" /\ mem[w].next = "human_review" /\ ~Resumes(w)
             /\ task' = [task EXCEPT ![t] = "HUMAN_REVIEW"]
    <3>1. mem[w].art["security"] = {"HUMAN_REVIEW"} /\ mem[w].review = "PENDING"
      BY <2>3, <2>7 DEF ThreadInv, PassedGates, ReviewPlaced, Reviewing
    <3>2. t \notin findings /\ findings' = findings \cup {t}
      BY <2>1, <2>7, <3>1 DEF HasFindings
    <3>3. ~Decided(t)
      BY <2>3, <3>2 DEF ReviewInv
    <3>4. ckpt[t] = mem[w]
      BY <2>3, <2>7, <3>3 DEF ReviewInv, Executing
    <3>5. ReviewCanBeDecided'
      BY <1>0, <2>1, <2>3, <2>7, <3>1, <3>4 DEF ReviewCanBeDecided, ReviewInv, Held
    <3>6. ASSUME NEW v \in Workers, pc'[v] \in Executing, ~Decided(Task(v))'
          PROVE  /\ pc'[v] = "working" => task'[Task(v)'] # "HUMAN_REVIEW"
                 /\ mem'[v] # NoThread /\ mem'[v].next # "ERROR" => ckpt'[Task(v)'] = mem'[v]
      <4>1. /\ pc[v] \in Executing /\ ~Decided(Task(v)) /\ Task(v)' = Task(v)
            /\ pc'[v] = "working" => pc[v] = "working" /\ v # w
            /\ Task(v) \in Tasks
        BY <1>0, <1>w, <2>1, <2>3, <2>4, <3>6 DEF Held, Executing
      <4>2. pc'[v] = "working" => Task(v) # t
        BY <2>3, <4>1, UndecidedAlone DEF ReviewInv, Executing
      <4> QED
        BY <1>0, <2>1, <2>7, <4>1, <4>2 DEF ReviewInv, Held
    <3>7. \A u \in Tasks : /\ Decided(u)' \/ task'[u] = "HUMAN_REVIEW" => u \in findings'
                           /\ Decided(u)' => task'[u] # "HUMAN_REVIEW"
      BY <1>0, <2>2, <2>3, <2>7, <3>2, <3>3 DEF ReviewInv, Held
    <3> QED
      BY <1>0, <2>5, <3>5, <3>6, <3>7 DEF ReviewInv
  <2> QED
    BY <1>4, <2>6, <2>7, AppliedResults
<1> QED
  BY <1>q, <1>1, <1>2, <1>3, <1>4, QuietSteps DEF TaskNext, WorkerStep

\* The reviews of tasks, for a policy that reworks automatically, and with the
\* findings of a high verdict stored (policies/execution.yaml, security.py).
ReviewsAreSound == Automatic /\ {"HUMAN_REVIEW"} \in FindingsWhen

LEMMA ReviewInvariant == ReviewsAreSound => (TaskSpec => []ReviewInv)
<1> SUFFICES ASSUME ReviewsAreSound PROVE TaskSpec => []ReviewInv
  OBVIOUS
<1>1. SoundInv /\ ReviewInv /\ [TaskNext]_allVars => ReviewInv'
  BY ReviewInvNext DEF SoundInv, ReviewsAreSound
<1> QED
  BY <1>1, ReviewInvInit, ThreadsStaySound, PTL DEF TaskSpec

\* A task is resumed at most once, through crashes and races (ADR-011:23).
THEOREM OneReviewerDecides == ReviewsAreSound => (TaskSpec => []OneDecision)
<1> SUFFICES ASSUME ReviewsAreSound PROVE TaskSpec => []OneDecision
  OBVIOUS
<1>1. ReviewInv => OneDecision
  BY DEF ReviewInv
<1> QED
  BY <1>1, ReviewInvariant, PTL

\* A task that shows HUMAN_REVIEW has a pending review and a thread that waits
\* for it, whatever was recovered in between (tasks.py:331-388).
THEOREM ReviewsAreDecidedOnTheirThread ==
    ReviewsAreSound => (TaskSpec => []ReviewCanBeDecided)
<1> SUFFICES ASSUME ReviewsAreSound PROVE TaskSpec => []ReviewCanBeDecided
  OBVIOUS
<1>1. ReviewInv => ReviewCanBeDecided
  BY DEF ReviewInv
<1> QED
  BY <1>1, ReviewInvariant, PTL

-----------------------------------------------------------------------------
(* The jobs of a task take turns while no worker dies.                     *)

Turn == {"started", "working", "raised"}

\* It is the job's turn to write the status of its task.
Active(j) == status[j] = "QUEUED" \/ \E w \in Workers : cur[w] = j /\ pc[w] \in Turn

\* The status of a task while a job waits, and while a handler works or raised.
Accepted(j) == IF Kind[j] = "EXECUTE_TASK" THEN "QUEUED" ELSE "RESUMING"
Working(j)  == IF Kind[j] = "EXECUTE_TASK" THEN "ANALYZING" ELSE "RESUMING"
Raised(j)   == IF Kind[j] = "EXECUTE_TASK" THEN "ANALYZING" ELSE "FAILED"

TurnStatus(w) == CASE pc[w] = "started" -> Accepted(cur[w])
                   [] pc[w] = "working" -> Working(cur[w])
                   [] OTHER             -> Raised(cur[w])

Steady ==
    /\ \A j \in Jobs : status[j] = "RUNNING" => \E w \in Workers : Executes(w, j)
    /\ \A j \in Jobs : lease[j] # "EXPIRED"
    /\ \A i, j \in Jobs : Active(i) /\ Active(j) /\ TaskOf[i] = TaskOf[j] => i = j
    /\ \A j \in Jobs : status[j] = "QUEUED" => task[TaskOf[j]] = Accepted(j)
    /\ \A w \in Workers : pc[w] \in Turn => task[Task(w)] = TurnStatus(w)

LEMMA SteadyInit == TaskInit => Steady
  BY ConstantsOK DEF TaskInit, Init, Steady, Active, Executes, Executing, Turn

LEMMA SteadyNext ==
    MaxCrashes = 0 =>
        (QueueInv /\ ThreadsSound /\ AcceptedOnce /\ Steady /\ [TaskNext]_allVars => Steady')
<1> SUFFICES ASSUME MaxCrashes = 0, QueueInv, ThreadsSound, AcceptedOnce, Steady,
                    [TaskNext]_allVars
             PROVE  Steady'
  OBVIOUS
<1>0. /\ Held /\ Held' /\ TaskOf \in [Jobs -> Tasks]
      /\ \A j \in Jobs : Kind[j] \in {"EXECUTE_TASK", "RESUME_HUMAN_REVIEW"}
      /\ lease \in [Jobs -> {"NONE", "LIVE", "EXPIRED"}]
      /\ LeaseTracksRunning /\ crashes = 0 /\ stalls = 0
  BY JobsStayHeld, ConstantsOK, ExecutionConstantsOK DEF QueueInv, OwnerInv, RowInv, TypeOK, Leases
<1> USE <1>0 DEF Held, Active, Turn, TurnStatus, Task, Accepted, Working, Raised, Executes,
                 Executing
<1>1. CASE UNCHANGED <<status, lease, task, pc, cur>>
  BY <1>1 DEF Steady
<1>2. ASSUME NEW j \in Jobs, Accept(j) \/ ClaimReview(j) PROVE Steady'
  <2>1. /\ UNCHANGED <<lease, pc, cur>> /\ status' = [status EXCEPT ![j] = "QUEUED"]
        /\ status[j] = "ABSENT"
        /\ task' = [task EXCEPT ![TaskOf[j]] = Accepted(j)]
        /\ \/ task[TaskOf[j]] = "NONE" \/ task[TaskOf[j]] = "HUMAN_REVIEW"
    BY <1>2 DEF Accept, ClaimReview, ReviewOpen, NewJob, workerVars
  <2>2. \A k \in Jobs : Active(k) => TaskOf[k] # TaskOf[j]
    BY <2>1 DEF Steady
  <2> QED
    BY <2>1, <2>2 DEF Steady
<1>3. ASSUME NEW j \in Jobs, LeaseLapses(j) PROVE FALSE
  BY <1>3, ExecutionConstantsOK DEF LeaseLapses, LeaseTracksRunning, Steady
<1>4. ASSUME NEW w \in Workers, Reap(w) PROVE Steady'
  <2>1. Expired = {}
    BY DEF Expired, Steady
  <2>2. UNCHANGED <<cur, status, lease, task>> /\ pc' = [pc EXCEPT ![w] = "polling"] /\ pc[w] = "idle"
    BY <1>4, <2>1 DEF Reap, Goto, Dead, Requeued, AbandonedTasks
  <2> QED
    BY <2>2 DEF Steady
<1>5. ASSUME NEW w \in Workers, ClaimLock(w) \/ ClaimNothing(w) PROVE Steady'
  BY <1>5 DEF ClaimLock, ClaimNothing, Goto, rowVars, Steady
<1>6. ASSUME NEW w \in Workers, ClaimCommit(w) PROVE Steady'
  BY <1>6 DEF ClaimCommit, Goto, Steady
<1>7. ASSUME NEW w \in Workers, Begin(w) PROVE Steady'
  <2>1. \A k \in Jobs : Active(k) /\ k # cur[w] => TaskOf[k] # TaskOf[cur[w]]
    BY <1>7 DEF Begin, Steady
  <2> QED
    BY <1>7, <2>1 DEF Begin, Goto, rowVars, Steady
<1>8. ASSUME NEW w \in Workers, StartRun(w) \/ EndRun(w) \/ Renew(w) PROVE Steady'
  BY <1>8 DEF StartRun, EndRun, Renew, rowVars, workerVars, Steady
<1>9. ASSUME NEW w \in Workers, ApplyResult(w) PROVE Steady'
  <2>1. \A k \in Jobs : Active(k) /\ k # cur[w] => TaskOf[k] # TaskOf[cur[w]]
    BY <1>9 DEF ApplyResult, Steady
  <2> QED
    BY <1>9, <2>1 DEF ApplyResult, Settle, Goto, rowVars, Steady
<1>10. ASSUME NEW w \in Workers, RaiseFromGraph(w) \/ RejectFindings(w) PROVE Steady'
  <2>1. \A k \in Jobs : Active(k) /\ k # cur[w] => TaskOf[k] # TaskOf[cur[w]]
    BY <1>10 DEF RaiseFromGraph, RejectFindings, Steady
  <2> QED
    BY <1>10, <2>1 DEF RaiseFromGraph, RejectFindings, HasFindings, Resumes, Raise, Goto, rowVars,
                       Steady
<1>11. ASSUME NEW w \in Workers, Return(w) PROVE Steady'
  BY <1>11 DEF Return, Goto, rowVars, Steady
<1>12. ASSUME NEW w \in Workers, MarkTaskFailed(w) PROVE Steady'
  <2>1. \A k \in Jobs : Active(k) /\ k # cur[w] => TaskOf[k] # TaskOf[cur[w]]
    BY <1>12 DEF MarkTaskFailed, Steady
  <2> QED
    BY <1>12, <2>1 DEF MarkTaskFailed, Goto, rowVars, Steady
<1>13. ASSUME NEW w \in Workers, FinishJob(w) PROVE Steady'
  <2>1. /\ status' = [status EXCEPT ![cur[w]] =
                       IF pc[w] = "finishing" THEN "SUCCEEDED" ELSE "FAILED"]
        /\ lease' = [lease EXCEPT ![cur[w]] = "NONE"]
        /\ pc[w] \in {"finishing", "failing"} /\ pc' = [pc EXCEPT ![w] = "idle"]
        /\ cur' = [cur EXCEPT ![w] = NoJob] /\ UNCHANGED task
    BY <1>13, JobsFinish DEF FinishJob, Goto
  <2> QED
    BY <2>1 DEF Steady
<1>14. ASSUME NEW w \in Workers, Crash(w) PROVE FALSE
  BY <1>14 DEF Crash
<1> QED
  <2>1. ASSUME NEW j \in Jobs,
               \/ AcceptTask(j) \/ ReadReview(j) \/ DecideReview(j)
               \/ RefuseReview(j) \/ LapseOfLease(j)
        PROVE  Steady'
    BY <1>1, <1>2, <1>3, <2>1
    DEF AcceptTask, ReadReview, DecideReview, RefuseReview, LapseOfLease, vars, rowVars, workerVars
  <2>2. ASSUME NEW w \in Workers, WorkerStep(w) \/ FailAgent(w) \/ Heartbeat(w) \/ CrashWorker(w)
        PROVE  Steady'
    BY <1>1, <1>4, <1>5, <1>6, <1>7, <1>8, <1>9, <1>10, <1>11, <1>12, <1>13, <1>14, <2>2
    DEF WorkerStep, PollQueue, LoadJob, BeginHandler, InvokeGraph, StartAgent, CompleteNode, Conclude,
        LeaveHandler, FailAgent, Heartbeat, CrashWorker, vars, rowVars, workerVars
  <2>3. CASE UNCHANGED allVars
    BY <1>1, <2>3 DEF allVars, vars, rowVars, workerVars
  <2> QED
    BY <2>1, <2>2, <2>3 DEF TaskNext

TurnsInv == AcceptedOnce /\ (MaxCrashes = 0 => Steady)

LEMMA TurnsInvariant == TaskSpec => []TurnsInv
<1>1. TaskInit => TurnsInv
  BY AcceptedOnceInit, SteadyInit DEF TurnsInv
<1>2. SoundInv /\ TurnsInv /\ [TaskNext]_allVars => TurnsInv'
  BY AcceptedOnceNext, SteadyNext DEF TurnsInv, SoundInv
<1> QED
  BY <1>1, <1>2, ThreadsStaySound, PTL DEF TaskSpec

\* No job is recovered next to another one of its task: no worker dies, or no
\* task has a second job.
NeverOverlaps == MaxCrashes = 0 \/ \A j \in Jobs : Kind[j] = "EXECUTE_TASK"

\* At most one job of a task is in a handler, or waits for one.
LEMMA OneWorks ==
    NeverOverlaps =>
        (QueueInv /\ TurnsInv =>
            /\ \A v, w \in Workers : pc[v] \in Turn /\ pc[w] \in Turn /\ Task(v) = Task(w)
                                       => v = w
            /\ \A j \in Jobs, w \in Workers : status[j] = "QUEUED" /\ pc[w] \in Turn
                                                => Task(w) # TaskOf[j])
  BY JobsAreHeld
  DEF NeverOverlaps, Held, Executing, TurnsInv, AcceptedOnce, Steady, Active, Turn, Task

-----------------------------------------------------------------------------
(* The thread behind a settled row.                                        *)

SettledInv ==
    /\ row = [t \in Tasks |-> row[t]]
    /\ SettledRowIsFinal
    /\ \A w \in Workers : pc[w] = "working" =>
         /\ task[Task(w)] # "SETTLED"
         /\ mem[w] # NoThread /\ mem[w].next # "ERROR" => ckpt[Task(w)] = mem[w]

LEMMA SettledInvInit == TaskInit => SettledInv
  BY DEF TaskInit, Init, SettledInv, SettledRowIsFinal

LEMMA SettledInvNext ==
    NeverOverlaps =>
        (SoundInv /\ TurnsInv /\ SettledInv /\ [TaskNext]_allVars => SettledInv')
<1> SUFFICES ASSUME NeverOverlaps, SoundInv, TurnsInv, SettledInv, [TaskNext]_allVars
             PROVE  SettledInv'
  OBVIOUS
<1>0. /\ Held /\ Held' /\ TaskOf \in [Jobs -> Tasks] /\ QueueInv /\ ThreadsSound
      /\ \A v, w \in Workers : /\ pc[v] = "working" /\ pc[w] = "working"
                               /\ Task(v) = Task(w)
                               => v = w
  BY JobsStayHeld, OneWorks, ConstantsOK DEF SoundInv, Turn
<1> USE <1>0 DEF Held, Executing, SettledInv, SettledRowIsFinal, Task
<1>1. CASE UNCHANGED <<ckpt, mem, row, task, pc, cur>>
  BY <1>1
<1>2. ASSUME NEW j \in Jobs, Accept(j) \/ ClaimReview(j) \/ LeaseLapses(j), UNCHANGED extras
      PROVE  SettledInv'
  BY <1>2 DEF Accept, ClaimReview, NewJob, LeaseLapses, workerVars, extras, threadVars, rowExtras
<1>3. ASSUME NEW j \in Jobs, DecideReview(j) PROVE SettledInv'
  BY <1>3 DEF DecideReview, ClaimReview, NewJob, workerVars, threadVars, rowExtras
<1>4. ASSUME NEW w \in Workers, PollQueue(w) PROVE SettledInv'
  BY <1>4 DEF PollQueue, Reap, ClaimLock, ClaimNothing, ClaimCommit, LoadJob, Goto, rowVars,
              extras, threadVars, rowExtras
<1>5. ASSUME NEW w \in Workers, BeginHandler(w) PROVE SettledInv'
  <2>1. /\ pc[w] = "started" /\ pc' = [pc EXCEPT ![w] = "working"] /\ cur[w] \in Jobs
        /\ UNCHANGED <<ckpt, mem, row, cur>> /\ mem[w] = NoThread
        /\ task' = IF Kind[cur[w]] = "RESUME_HUMAN_REVIEW" THEN task
                   ELSE [task EXCEPT ![Task(w)] = "ANALYZING"]
    BY <1>5 DEF BeginHandler, Begin, Goto, extras, threadVars, rowExtras, ThreadsSound
  <2>2. task'[Task(w)] # "SETTLED"
    <3>1. CASE Kind[cur[w]] = "RESUME_HUMAN_REVIEW"
      <4>1. Kind[cur[w]] # "EXECUTE_TASK" /\ MaxCrashes = 0
        BY <2>1, <3>1 DEF NeverOverlaps
      <4>2. task[Task(w)] = "RESUMING"
        BY <2>1, <4>1 DEF TurnsInv, Steady, Turn, TurnStatus, Accepted
      <4> QED
        BY <2>1, <3>1, <4>2
    <3>2. CASE Kind[cur[w]] # "RESUME_HUMAN_REVIEW"
      BY <2>1, <3>2
    <3> QED
      BY <3>1, <3>2
  <2> QED
    BY <2>1, <2>2
<1>6. ASSUME NEW w \in Workers, InvokeGraph(w) \/ CompleteNode(w) PROVE SettledInv'
  <2>1. /\ UNCHANGED <<task, pc, cur, row>> /\ pc[w] = "working"
        /\ \E s : mem' = [mem EXCEPT ![w] = s] /\ ckpt' = [ckpt EXCEPT ![Task(w)] = s]
    BY <1>6 DEF InvokeGraph, CompleteNode, StoreCheckpoint, EndRun, Runnable, vars, workerVars,
                rowExtras
  <2> QED
    BY <2>1 DEF ThreadsSound
<1>7. ASSUME NEW w \in Workers, FailAgent(w) PROVE SettledInv'
  <2>1. /\ UNCHANGED <<ckpt, row, task, pc, cur>>
        /\ mem' = [mem EXCEPT ![w].next = "ERROR"]
        /\ mem[w] # NoThread /\ mem[w].next # "ERROR"
    BY <1>7 DEF FailAgent, EndRun, Runnable, workerVars, rowExtras
  <2>2. mem[w] \in Threads /\ mem = [v \in Workers |-> mem[v]]
    BY <2>1 DEF ThreadInv, ThreadsSound
  <2>3. mem'[w].next = "ERROR" /\ \A v \in Workers \ {w} : mem'[v] = mem[v]
    BY <2>1, <2>2 DEF Threads, ThreadsAt
  <2> QED
    BY <2>1, <2>3
<1>8. ASSUME NEW w \in Workers, RaiseFromGraph(w) \/ RejectFindings(w) PROVE SettledInv'
  BY <1>8 DEF RaiseFromGraph, RejectFindings, Raise, Goto, extras, threadVars, rowExtras
<1>9. ASSUME NEW w \in Workers, ApplyResult(w) PROVE SettledInv'
  <2>1. /\ UNCHANGED <<cur, ckpt, mem>> /\ pc' = [pc EXCEPT ![w] = "settled"]
        /\ row' = [row EXCEPT ![Task(w)] = mem[w]]
    BY <1>9 DEF ApplyResult, Settle, Goto, threadVars
  <2>2. /\ pc[w] = "working" /\ mem[w] # NoThread /\ mem[w].next # "ERROR"
        /\ \/ mem[w].next = "END" /\ task' = [task EXCEPT ![Task(w)] = "SETTLED"]
           \/ task' = [task EXCEPT ![Task(w)] = "HUMAN_REVIEW"]
    BY <1>9, AppliedResults DEF ApplyResult, Stopped
  <2>3. Task(w) \in Tasks /\ ckpt[Task(w)] = mem[w]
    BY <2>2
  <2> QED
    BY <2>1, <2>2, <2>3
<1>10. ASSUME NEW w \in Workers, Conclude(w) \/ LeaveHandler(w) \/ CrashWorker(w) PROVE SettledInv'
  BY <1>10 DEF Conclude, Return, LeaveHandler, MarkTaskFailed, FinishJob, CrashWorker, Crash, Goto,
               threadVars, rowExtras, ThreadsSound
<1> QED
  <2>1. ASSUME NEW j \in Jobs,
               \/ AcceptTask(j) \/ ReadReview(j) \/ DecideReview(j)
               \/ RefuseReview(j) \/ LapseOfLease(j)
        PROVE  SettledInv'
    BY <1>1, <1>2, <1>3, <2>1
    DEF AcceptTask, ReadReview, RefuseReview, LapseOfLease, vars, workerVars, threadVars, rowExtras
  <2>2. ASSUME NEW w \in Workers, StartAgent(w) \/ Heartbeat(w) PROVE SettledInv'
    BY <1>1, <2>2 DEF StartAgent, StartRun, Heartbeat, Renew, extras, workerVars, threadVars, rowExtras
  <2>3. CASE UNCHANGED allVars
    BY <1>1, <2>3 DEF allVars, vars, workerVars, extras, threadVars, rowExtras
  <2> QED
    BY <1>4, <1>5, <1>6, <1>7, <1>8, <1>9, <1>10, <2>1, <2>2, <2>3 DEF TaskNext, WorkerStep

LEMMA SettledInvariant == NeverOverlaps => (TaskSpec => []SettledInv)
<1> SUFFICES ASSUME NeverOverlaps PROVE TaskSpec => []SettledInv
  OBVIOUS
<1>1. SoundInv /\ TurnsInv /\ SettledInv /\ [TaskNext]_allVars => SettledInv'
  BY SettledInvNext
<1> QED
  BY <1>1, SettledInvInit, ThreadsStaySound, TurnsInvariant, PTL DEF TaskSpec

\* A settled row holds the finished thread, through crashes of the only job of
\* its task, and through its review where nothing crashes (tasks.py:54-72).
THEOREM SettledRowsAreFinal == NeverOverlaps => (TaskSpec => []SettledRowIsFinal)
<1> SUFFICES ASSUME NeverOverlaps PROVE TaskSpec => []SettledRowIsFinal
  OBVIOUS
<1>1. SettledInv => SettledRowIsFinal
  BY DEF SettledInv
<1> QED
  BY <1>1, SettledInvariant, PTL

-----------------------------------------------------------------------------
(* Implementations are repeated for a crash or a failing agent only.       *)

\* The implementations of a task that are at work.
Open(t) == {w \in Workers : run[w] # "NONE" /\ Task(w) = t /\ mem[w].next = "implementation"}

RunsCounted ==
    \A t \in Tasks : ckpt[t] # NoThread =>
        implRuns[t] <= ckpt[t].builds + crashes + faults + Cardinality(Open(t))

\* What was never started has no implementation, and an open run has a thread.
RunsInv ==
    /\ implRuns \in [Tasks -> Nat] /\ faults \in Nat
    /\ \A t \in Tasks : ckpt[t] = NoThread \/ task[t] = "NONE" => implRuns[t] = 0
    /\ \A j \in Jobs : status[j] = "RUNNING" => attempts[j] > 0
    /\ \A j \in Jobs : status[j] = "QUEUED" /\ attempts[j] = 0 /\ Kind[j] = "EXECUTE_TASK"
                         => implRuns[TaskOf[j]] = 0
    /\ \A w \in Workers : /\ pc[w] \in {"started", "working"} /\ mem[w] = NoThread
                          /\ Kind[cur[w]] = "EXECUTE_TASK" /\ attempts[cur[w]] = 1
                          => implRuns[Task(w)] = 0
    /\ \A w \in Workers : run[w] # "NONE" => mem[w] # NoThread /\ mem[w].next # "ERROR"
    /\ RunsCounted

LEMMA RunsInvInit == TaskInit => RunsInv
  BY ConstantsOK DEF TaskInit, Init, RunsInv, RunsCounted

\* One implementation of a task is at work at most.
OpenAlone ==
    /\ \A t : Cardinality(Open(t)) \in {0, 1}
    /\ \A t : Open(t) = {} => Cardinality(Open(t)) = 0
    /\ \A w \in Workers : pc[w] = "working" =>
         Open(Task(w)) = IF run[w] # "NONE" /\ mem[w].next = "implementation"
                         THEN {w} ELSE {}

LEMMA OpenRuns == NeverOverlaps /\ QueueInv /\ TurnsInv => OpenAlone
<1> SUFFICES ASSUME NeverOverlaps, QueueInv, TurnsInv PROVE OpenAlone
  OBVIOUS
<1>1. \A w \in Workers : run[w] # "NONE" => pc[w] = "working"
  BY DEF QueueInv, OwnerInv, RowInv, TypeOK
<1>2. \A v, w \in Workers : pc[v] = "working" /\ pc[w] = "working" /\ Task(v) = Task(w) => v = w
  BY OneWorks DEF Turn
<1>3. \A t : Open(t) = {} \/ \E w : Open(t) = {w}
  BY <1>1, <1>2 DEF Open
<1>4. \A w : Cardinality({w}) = 1
  BY FS_Singleton
<1>5. \A t : Open(t) = {} => Cardinality(Open(t)) = 0
  BY FS_EmptySet
<1>6. \A t : Cardinality(Open(t)) \in {0, 1}
  BY <1>3, <1>4, <1>5
<1>7. ASSUME NEW w \in Workers, pc[w] = "working"
      PROVE  Open(Task(w)) = IF run[w] # "NONE" /\ mem[w].next = "implementation"
                             THEN {w} ELSE {}
  BY <1>1, <1>2, <1>7 DEF Open
<1> QED
  BY <1>5, <1>6, <1>7 DEF OpenAlone

\* What the constants say of the thread no worker has.
LEMMA NoThreadIsApart ==
    /\ \A j \in Jobs : Kind[j] \in {"EXECUTE_TASK", "RESUME_HUMAN_REVIEW"}
    /\ NoThread \notin Threads
    /\ \A s \in Threads : s.next # "ERROR" /\ NoThread # [s EXCEPT !.next = "ERROR"]
<1>1. "ERROR" \notin Nodes \cup {"END"}
  BY DEF Nodes, AgentNodes, GateNodes
<1>2. \A s \in Threads : [s EXCEPT !.next = "ERROR"] \in ThreadsAt(Nodes \cup {"END", "ERROR"})
  BY DEF Threads, ThreadsAt
<1>3. Threads \subseteq ThreadsAt(Nodes \cup {"END", "ERROR"})
  BY DEF Threads, ThreadsAt
<1> QED
  BY <1>1, <1>2, <1>3, ExecutionConstantsOK DEF Threads, ThreadsAt

LEMMA RunsInvNext ==
    NeverOverlaps =>
        (SoundInv /\ TurnsInv /\ SettledInv /\ RunsInv /\ [TaskNext]_allVars /\ SoundInv' /\ TurnsInv'
           => RunsInv')
<1> SUFFICES ASSUME NeverOverlaps, SoundInv, TurnsInv, SettledInv, RunsInv,
                    [TaskNext]_allVars, SoundInv', TurnsInv'
             PROVE  RunsInv'
  OBVIOUS
<1>0. /\ Held /\ Held' /\ TaskOf \in [Jobs -> Tasks] /\ QueueInv /\ ThreadsSound
      /\ attempts \in [Jobs -> Nat] /\ crashes \in Nat /\ crashes' \in Nat
      /\ run \in [Workers -> {"NONE", "STARTED", "ABANDONED"}]
      /\ \A w \in Workers : run[w] # "NONE" => pc[w] = "working"
      /\ ThreadsSound' /\ NoThread \notin Threads
      /\ \A s \in Threads : s.next # "ERROR" /\ NoThread # [s EXCEPT !.next = "ERROR"]
      /\ \A j \in Jobs : Kind[j] \in {"EXECUTE_TASK", "RESUME_HUMAN_REVIEW"}
  BY JobsStayHeld, ConstantsOK, NoThreadIsApart DEF SoundInv, QueueInv, OwnerInv, RowInv, TypeOK
<1>o. /\ \A v, w \in Workers : pc[v] \in Turn /\ pc[w] \in Turn /\ Task(v) = Task(w) => v = w
      /\ \A j \in Jobs, w \in Workers : status[j] = "QUEUED" /\ pc[w] \in Turn
                                          => Task(w) # TaskOf[j]
  BY <1>0, OneWorks
<1>c. OpenAlone /\ OpenAlone'
  <2>1. (NeverOverlaps /\ QueueInv /\ TurnsInv)' => OpenAlone'
    BY OpenRuns, PTL
  <2>2. NeverOverlaps'
    BY DEF NeverOverlaps
  <2> QED
    BY <2>1, <2>2, <1>0, OpenRuns DEF SoundInv
<1>t. \A t \in Tasks : ckpt[t] # NoThread => ckpt[t].builds \in Nat
  BY <1>0 DEF ThreadsSound, ThreadInv, Threads, ThreadsAt
<1>w. \A w \in Workers : pc[w] \in {"claiming"} \cup Executing => Task(w) \in Tasks
  BY <1>0 DEF Held, Task
<1>f. ASSUME UNCHANGED <<ckpt, implRuns, faults, crashes>>, \A t \in Tasks : Open(t)' = Open(t)
      PROVE  RunsCounted'
  BY <1>f DEF RunsInv, RunsCounted
<1>1. ASSUME UNCHANGED <<ckpt, implRuns, faults, crashes, status, attempts, task, mem, pc, cur, run>>
      PROVE  RunsInv'
  <2>1. RunsCounted'
    BY <1>f, <1>1 DEF Open, Task
  <2> QED
    BY <1>1, <2>1 DEF RunsInv, Task
<1>2. ASSUME NEW j \in Jobs, Accept(j) \/ ClaimReview(j), UNCHANGED <<threadVars, faults>>
      PROVE  RunsInv'
  <2>1. /\ UNCHANGED <<ckpt, implRuns, faults, crashes, attempts, mem, pc, cur, run>>
        /\ status' = [status EXCEPT ![j] = "QUEUED"]
        /\ \A t \in Tasks : task'[t] = "NONE" => task[t] = "NONE"
        /\ Kind[j] = "EXECUTE_TASK" => task[TaskOf[j]] = "NONE"
    BY <1>0, <1>2 DEF Accept, ClaimReview, NewJob, runVars, workerVars, boundVars, threadVars, Held
  <2>2. RunsCounted'
    BY <1>f, <2>1 DEF Open, Task
  <2> QED
    BY <1>0, <2>1, <2>2 DEF RunsInv, Task, Held
<1>3. ASSUME NEW w \in Workers, Reap(w), UNCHANGED <<threadVars, faults>> PROVE RunsInv'
  <2>1. /\ UNCHANGED <<ckpt, implRuns, faults, crashes, attempts, mem, cur>>
        /\ pc' = [pc EXCEPT ![w] = "polling"] /\ pc[w] = "idle"
        /\ \A v \in Workers : run'[v] = "NONE" <=> run[v] = "NONE"
        /\ \A j \in Jobs : status'[j] = "RUNNING" => status[j] = "RUNNING"
        /\ \A j \in Jobs : status'[j] = "QUEUED" => status[j] \in {"QUEUED", "RUNNING"}
        /\ \A t \in Tasks : task'[t] = "NONE" => task[t] = "NONE"
    BY <1>0, <1>3 DEF Reap, AbandonRuns, Expired, Dead, Requeued, Goto, boundVars, threadVars
  <2>2. RunsCounted'
    BY <1>f, <2>1 DEF Open, Task
  <2> QED
    BY <1>0, <2>1, <2>2 DEF RunsInv, Task, Held
<1>4. ASSUME NEW w \in Workers, ClaimLock(w) \/ ClaimNothing(w), UNCHANGED <<threadVars, faults>>
      PROVE  RunsInv'
  <2>1. /\ UNCHANGED <<ckpt, implRuns, faults, crashes, attempts, status, task, mem, run>>
        /\ pc[w] = "polling" /\ pc'[w] \in {"idle", "claiming"}
        /\ \A v \in Workers \ {w} : pc'[v] = pc[v] /\ cur'[v] = cur[v]
    BY <1>0, <1>4 DEF ClaimLock, ClaimNothing, Goto, rowVars, runVars, boundVars, threadVars, Held
  <2>2. RunsCounted'
    BY <1>0, <1>f, <2>1 DEF Open, Task
  <2> QED
    BY <1>0, <2>1, <2>2 DEF RunsInv, Task, Held
<1>5. ASSUME NEW w \in Workers, ClaimCommit(w), UNCHANGED <<threadVars, faults>> PROVE RunsInv'
  <2>1. /\ UNCHANGED <<ckpt, implRuns, faults, crashes, task, mem, cur, run>>
        /\ pc[w] = "claiming" /\ pc' = [pc EXCEPT ![w] = "started"]
        /\ cur[w] \in Jobs /\ status[cur[w]] = "QUEUED"
        /\ status' = [status EXCEPT ![cur[w]] = "RUNNING"]
        /\ attempts' = [attempts EXCEPT ![cur[w]] = @ + 1]
    BY <1>0, <1>5 DEF ClaimCommit, Goto, runVars, boundVars, threadVars, Held
  <2>2. RunsCounted'
    BY <1>0, <1>f, <2>1 DEF Open, Task
  <2>3. \A v \in Workers : pc[v] \in Executing => cur[v] # cur[w]
    BY <1>0, <2>1 DEF Held
  <2>4. attempts[cur[w]] \in Nat /\ attempts'[cur[w]] = attempts[cur[w]] + 1
        /\ \A j \in Jobs \ {cur[w]} : attempts'[j] = attempts[j] /\ status'[j] = status[j]
    BY <1>0, <2>1
  <2>5. attempts'[cur[w]] > 0 /\ (attempts'[cur[w]] = 1 => attempts[cur[w]] = 0)
    BY <2>4
  <2>6. ASSUME NEW v \in Workers, pc'[v] \in {"started", "working"}, mem'[v] = NoThread,
               Kind[cur'[v]] = "EXECUTE_TASK", attempts'[cur'[v]] = 1
        PROVE  implRuns'[Task(v)'] = 0
    <3>1. CASE v = w
      BY <1>0, <2>1, <2>5, <2>6, <3>1 DEF RunsInv, Task
    <3>2. CASE v # w
      BY <1>0, <2>1, <2>3, <2>4, <2>6, <3>2 DEF RunsInv, Task, Held, Executing
    <3> QED
      BY <3>1, <3>2
  <2> QED
    BY <1>0, <2>1, <2>2, <2>4, <2>5, <2>6 DEF RunsInv
<1>6. ASSUME NEW w \in Workers, Begin(w), UNCHANGED <<threadVars, faults>> PROVE RunsInv'
  <2>1. /\ UNCHANGED <<ckpt, implRuns, faults, crashes, status, attempts, mem, cur, run>>
        /\ pc[w] = "started" /\ pc' = [pc EXCEPT ![w] = "working"]
        /\ \A t \in Tasks : task'[t] = "NONE" => task[t] = "NONE"
    BY <1>0, <1>6 DEF Begin, Goto, rowVars, runVars, boundVars, threadVars, Held
  <2>2. RunsCounted'
    BY <1>0, <1>f, <2>1 DEF Open, Task
  <2> QED
    BY <1>0, <2>1, <2>2 DEF RunsInv, Task, Held
<1>7. ASSUME NEW w \in Workers, InvokeGraph(w) PROVE RunsInv'
  <2> DEFINE t == Task(w)
  <2>1. /\ UNCHANGED <<implRuns, faults, crashes, status, attempts, task, pc, cur, run>>
        /\ pc[w] = "working" /\ mem[w] = NoThread /\ t \in Tasks /\ cur[w] \in Jobs
    BY <1>0, <1>w, <1>7 DEF InvokeGraph, vars, rowVars, runVars, workerVars, boundVars, Executing, Held
  <2>2. run[w] = "NONE"
    BY <1>0, <2>1 DEF RunsInv
  <2>3. CASE Fresh(w)
    <3>1. implRuns[t] = 0
      BY <1>0, <2>1, <2>3 DEF Fresh, Resumes, RunsInv
    <3>2. mem' = [mem EXCEPT ![w] = Start] /\ ckpt' = [ckpt EXCEPT ![t] = Start]
      BY <1>7, <2>3 DEF InvokeGraph
    <3>3. /\ Start \in Threads /\ Start # NoThread /\ Start.next # "ERROR" /\ Start.builds = 0
          /\ ckpt = [u \in Tasks |-> ckpt[u]] /\ mem = [v \in Workers |-> mem[v]]
      BY <1>0, StartIsSound DEF Start, ThreadInv, ThreadsSound
    <3>4. ASSUME NEW u \in Tasks, ckpt'[u] # NoThread
          PROVE  implRuns'[u] <= ckpt'[u].builds + crashes' + faults' + Cardinality(Open(u))'
      <4>1. CASE u = t
        <5>1. implRuns'[u] = 0 /\ ckpt'[u].builds = 0
          BY <2>1, <3>1, <3>2, <3>3, <4>1
        <5>2. Cardinality(Open(u))' \in {0, 1} /\ faults' \in Nat
          BY <1>c, <2>1 DEF OpenAlone, RunsInv
        <5> QED
          BY <1>0, <5>1, <5>2
      <4>2. CASE u # t
        <5>1. Open(u)' = Open(u)
          BY <2>1, <2>2, <3>2, <3>3, <4>2 DEF Open, Task
        <5>2. ckpt'[u] = ckpt[u]
          BY <3>2, <3>3, <4>2
        <5> QED
          BY <2>1, <3>4, <5>1, <5>2 DEF RunsInv, RunsCounted
      <4> QED
        BY <4>1, <4>2
    <3>5. RunsCounted'
      BY <3>4 DEF RunsCounted
    <3> QED
      BY <1>0, <2>1, <3>1, <3>2, <3>3, <3>5 DEF RunsInv, Task
  <2>4. CASE ~Fresh(w)
    <3>1. mem' = [mem EXCEPT ![w] = ckpt[t]] /\ ckpt' = ckpt
      BY <1>0, <1>7, <2>1, <2>4 DEF InvokeGraph, ThreadsSound
    <3>2. RunsCounted'
      BY <1>0, <1>f, <2>1, <2>2, <3>1 DEF Open, Task, ThreadsSound
    <3>3. \A v \in Workers : v # w => mem'[v] = mem[v]
      BY <1>0, <3>1 DEF ThreadsSound
    <3>4. mem'[w] = NoThread => ckpt[t] = NoThread
      BY <1>0, <3>1 DEF ThreadsSound
    <3> QED
      BY <1>0, <2>1, <2>2, <3>1, <3>2, <3>3, <3>4 DEF RunsInv, Task
  <2> QED
    BY <2>3, <2>4
<1>8. ASSUME NEW w \in Workers, StartAgent(w) PROVE RunsInv'
  <2> DEFINE t == Task(w)
  <2>1. /\ UNCHANGED <<ckpt, mem, faults, crashes, status, attempts, task, pc, cur>>
        /\ pc[w] = "working" /\ run[w] = "NONE" /\ run' = [run EXCEPT ![w] = "STARTED"]
        /\ mem[w] # NoThread /\ mem[w].next # "ERROR" /\ t \in Tasks
        /\ implRuns' = IF mem[w].next = "implementation"
                       THEN [implRuns EXCEPT ![t] = @ + 1] ELSE implRuns
    BY <1>0, <1>w, <1>8 DEF StartAgent, StartRun, Runnable, rowVars, workerVars, boundVars, Executing
  <2>2. ckpt[t] = mem[w] /\ task[t] # "NONE" /\ cur[w] \in Jobs /\ status[cur[w]] = "RUNNING"
    BY <1>0, <2>1 DEF SettledInv, TurnsInv, AcceptedOnce, Held, Executing, Task
  <2>3. \A u \in Tasks \ {t} : implRuns'[u] = implRuns[u]
    BY <2>1 DEF RunsInv
  <2>4. implRuns' \in [Tasks -> Nat]
    BY <2>1 DEF RunsInv
  <2>5. ASSUME NEW u \in Tasks, ckpt'[u] # NoThread
        PROVE  implRuns'[u] <= ckpt'[u].builds + crashes' + faults' + Cardinality(Open(u))'
    <3>1. CASE u = t
      <4>1. Cardinality(Open(t)) = 0
        BY <1>c, <2>1 DEF OpenAlone
      <4>2. mem[w].next = "implementation" => Cardinality(Open(t))' = 1
        <5>1. SUFFICES ASSUME mem[w].next = "implementation" PROVE Cardinality(Open(t))' = 1
          OBVIOUS
        <5>2. Open(t)' # {}
          BY <1>0, <2>1, <5>1 DEF Open, Task
        <5>3. Open(Task(w))' = {w}
          BY <1>0, <1>c, <2>1, <5>1 DEF OpenAlone
        <5> QED
          BY <5>3, FS_Singleton
      <4>3. Cardinality(Open(t))' \in {0, 1}
        BY <1>c, <2>1 DEF OpenAlone, Task
      <4>4. implRuns[t] <= ckpt[t].builds + crashes + faults + 0
        BY <2>1, <2>2, <4>1 DEF RunsInv, RunsCounted
      <4>5. ckpt[t].builds \in Nat /\ implRuns[t] \in Nat /\ faults \in Nat
        BY <1>t, <2>1, <2>2 DEF RunsInv
      <4>6. implRuns'[t] = IF mem[w].next = "implementation" THEN implRuns[t] + 1 ELSE implRuns[t]
        BY <2>1 DEF RunsInv
      <4>7. implRuns'[t] <= ckpt[t].builds + crashes + faults + Cardinality(Open(t))'
        BY <1>0, <4>2, <4>3, <4>4, <4>5, <4>6
      <4> QED
        BY <2>1, <3>1, <4>7 DEF Task
    <3>2. CASE u # t
      <4>1. Open(u)' = Open(u)
        BY <1>0, <2>1, <3>2 DEF Open, Task
      <4> QED
        BY <2>1, <2>3, <2>5, <3>2, <4>1 DEF RunsInv, RunsCounted
    <3> QED
      BY <3>1, <3>2
  <2>6. RunsCounted'
    BY <2>5 DEF RunsCounted
  <2>7. \A j \in Jobs : status[j] = "QUEUED" => TaskOf[j] # t
    BY <1>o, <2>1 DEF Turn
  <2>8. \A v \in Workers : pc[v] \in {"started", "working"} /\ mem[v] = NoThread => Task(v) # t
    BY <1>o, <2>1 DEF Turn
  <2>9. \A v \in Workers : pc[v] \in {"started", "working"} => Task(v) \in Tasks
    BY <1>w DEF Executing
  <2>10. \A v \in Workers : run'[v] # "NONE" => mem'[v] # NoThread /\ mem'[v].next # "ERROR"
    BY <1>0, <2>1 DEF RunsInv
  <2> QED
    BY <1>0, <2>1, <2>2, <2>3, <2>4, <2>6, <2>7, <2>8, <2>9, <2>10 DEF RunsInv, Task
<1>9. ASSUME NEW w \in Workers, CompleteNode(w) PROVE RunsInv'
  <2> DEFINE t == Task(w)
  <2>1. /\ UNCHANGED <<implRuns, faults, crashes, status, attempts, task, pc, cur>>
        /\ pc[w] = "working" /\ mem[w] # NoThread /\ mem[w].next # "ERROR" /\ t \in Tasks
        /\ run' = run \/ run' = [run EXCEPT ![w] = "NONE"]
        /\ mem[w].next = "implementation" => run[w] # "NONE" /\ run' = [run EXCEPT ![w] = "NONE"]
    BY <1>0, <1>w, <1>9 DEF CompleteNode, EndRun, Runnable, ByAgent, AgentNodes, vars, rowVars,
                            runVars, workerVars, boundVars, Executing
  <2>2. PICK s \in NodeResults(w) : /\ mem'  = [mem EXCEPT ![w] = s]
                                    /\ ckpt' = [ckpt EXCEPT ![t] = s]
    BY <1>9 DEF CompleteNode, StoreCheckpoint
  <2>3. Moves(mem[w], s) /\ ThreadInv(mem[w])
    BY <1>0, <1>9, <2>1, NodesMove DEF CompleteNode, ThreadsSound
  <2>4. ThreadInv(s) /\ Traced(mem[w], s)
    BY <2>3, ThreadInvKept, MovesAreTraced
  <2>5. s \in Threads /\ s # NoThread /\ s.next # "ERROR" /\ s.builds \in Nat
    BY <1>0, <2>4 DEF ThreadInv, Threads, ThreadsAt, Nodes, AgentNodes, GateNodes
  <2>6. ckpt[t] = mem[w] /\ task[t] # "NONE" /\ cur[w] \in Jobs
    BY <1>0, <2>1 DEF SettledInv, TurnsInv, AcceptedOnce, Held, Executing, Task
  <2>7. /\ ckpt'[t] = s /\ \A u \in Tasks \ {t} : ckpt'[u] = ckpt[u]
        /\ mem'[w] = s /\ \A v \in Workers \ {w} : mem'[v] = mem[v]
    BY <1>0, <2>1, <2>2 DEF ThreadsSound
  <2>8. ASSUME NEW u \in Tasks, ckpt'[u] # NoThread
        PROVE  implRuns'[u] <= ckpt'[u].builds + crashes' + faults' + Cardinality(Open(u))'
    <3>1. CASE u = t
      <4>1. Cardinality(Open(t))' \in {0, 1} /\ Cardinality(Open(t)) \in {0, 1}
        BY <1>c, <2>1 DEF OpenAlone, Task
      <4>2. Cardinality(Open(t)) = 1 => mem[w].next = "implementation"
        BY <1>c, <2>1 DEF OpenAlone
      <4>3. s.builds = IF mem[w].next = "implementation" THEN mem[w].builds + 1 ELSE mem[w].builds
        BY <2>4 DEF Traced
      <4>4. implRuns[t] <= ckpt[t].builds + crashes + faults + Cardinality(Open(t))
        BY <2>1, <2>6 DEF RunsInv, RunsCounted
      <4>5. mem[w].builds \in Nat /\ implRuns[t] \in Nat /\ faults \in Nat
        BY <1>t, <2>1, <2>6 DEF RunsInv
      <4>6. implRuns[t] <= s.builds + crashes + faults + Cardinality(Open(t))'
        BY <1>0, <2>6, <4>1, <4>2, <4>3, <4>4, <4>5
      <4> QED
        BY <2>1, <2>7, <3>1, <4>6 DEF Task
    <3>2. CASE u # t
      <4>1. Open(u)' = Open(u)
        BY <1>0, <2>1, <2>7, <3>2 DEF Open, Task
      <4> QED
        BY <2>1, <2>7, <2>8, <3>2, <4>1 DEF RunsInv, RunsCounted
    <3> QED
      BY <3>1, <3>2
  <2>9. RunsCounted'
    BY <2>8 DEF RunsCounted
  <2>10. \A v \in Workers : run'[v] # "NONE" => mem'[v] # NoThread /\ mem'[v].next # "ERROR"
    BY <1>0, <2>1, <2>5, <2>7 DEF RunsInv
  <2>11. \A u \in Tasks : ckpt'[u] = NoThread \/ task'[u] = "NONE" => implRuns'[u] = 0
    BY <2>1, <2>5, <2>6, <2>7 DEF RunsInv
  <2> QED
    BY <1>0, <2>1, <2>5, <2>7, <2>9, <2>10, <2>11 DEF RunsInv, Task
<1>10. ASSUME NEW w \in Workers, FailAgent(w) PROVE RunsInv'
  <2> DEFINE t == Task(w)
  <2>1. /\ UNCHANGED <<ckpt, implRuns, crashes, status, attempts, task, pc, cur>>
        /\ faults' = faults + 1 /\ pc[w] = "working" /\ t \in Tasks
        /\ mem[w] # NoThread /\ mem[w].next # "ERROR"
        /\ run' = [run EXCEPT ![w] = "NONE"] /\ mem' = [mem EXCEPT ![w].next = "ERROR"]
    BY <1>0, <1>w, <1>10 DEF FailAgent, EndRun, Runnable, rowVars, workerVars, boundVars, Executing
  <2>2. mem[w] \in Threads
    BY <1>0, <2>1 DEF ThreadsSound, ThreadInv
  <2>3. /\ mem'[w].next = "ERROR" /\ mem'[w] # NoThread
        /\ \A v \in Workers \ {w} : mem'[v] = mem[v]
    BY <1>0, <2>1, <2>2 DEF ThreadsSound, Threads, ThreadsAt, Nodes, AgentNodes, GateNodes
  <2>4. ASSUME NEW u \in Tasks, ckpt'[u] # NoThread
        PROVE  implRuns'[u] <= ckpt'[u].builds + crashes' + faults' + Cardinality(Open(u))'
    <3>1. /\ Cardinality(Open(u))' \in {0, 1} /\ Cardinality(Open(u)) \in {0, 1}
          /\ faults \in Nat /\ faults' = faults + 1
          /\ implRuns[u] \in Nat /\ ckpt[u].builds \in Nat
      BY <1>c, <1>t, <2>1, <2>4 DEF OpenAlone, RunsInv
    <3>2. implRuns[u] <= ckpt[u].builds + crashes + faults + Cardinality(Open(u))
      BY <2>1, <2>4 DEF RunsInv, RunsCounted
    <3>3. implRuns[u] <= ckpt[u].builds + crashes + faults' + Cardinality(Open(u))'
      BY <1>0, <3>1, <3>2
    <3> QED
      BY <2>1, <3>3
  <2>5. RunsCounted'
    BY <2>4 DEF RunsCounted
  <2>6. \A v \in Workers : run'[v] # "NONE" => v # w
    BY <1>0, <2>1
  <2> QED
    BY <1>0, <2>1, <2>3, <2>5, <2>6 DEF RunsInv, Task
<1>11. ASSUME NEW w \in Workers, Raise(w) \/ Settle(w) \/ Return(w) \/ MarkTaskFailed(w),
              UNCHANGED <<ckpt, implRuns, faults>>,
              mem' = mem \/ mem' = [mem EXCEPT ![w] = NoThread]
       PROVE  RunsInv'
  <2>1. /\ UNCHANGED <<crashes, status, attempts, cur, run>>
        /\ run[w] = "NONE"
        /\ \E place \in {"raised", "settled", "finishing", "failing"} :
             pc' = [pc EXCEPT ![w] = place]
    BY <1>0, <1>11 DEF Raise, Settle, Return, MarkTaskFailed, Outcomes, Goto, rowVars, runVars,
                       boundVars, Held
  <2>2. \A v \in Workers \ {w} : mem'[v] = mem[v] /\ pc'[v] = pc[v]
    BY <1>0, <1>11, <2>1 DEF ThreadsSound, Held
  <2>3. RunsCounted'
    BY <1>f, <1>11, <2>1, <2>2 DEF Open, Task
  <2>4. \A t \in Tasks : task'[t] = "NONE" => task[t] = "NONE"
    BY TaskStepsQueue, RowsStay DEF SoundInv, allVars
  <2> QED
    BY <1>0, <1>11, <2>1, <2>2, <2>3, <2>4 DEF RunsInv, Task, Held
<1>12. ASSUME NEW w \in Workers, FinishJob(w), UNCHANGED <<ckpt, implRuns, faults>>,
              mem' = [mem EXCEPT ![w] = NoThread]
       PROVE  RunsInv'
  <2>1. /\ UNCHANGED <<crashes, attempts, task, run>> /\ run[w] = "NONE"
        /\ pc' = [pc EXCEPT ![w] = "idle"] /\ cur' = [cur EXCEPT ![w] = NoJob]
        /\ \A j \in Jobs : status'[j] \in {"RUNNING", "QUEUED"} => status'[j] = status[j]
    <3>1. status' = [status EXCEPT ![cur[w]] =
                       IF pc[w] = "finishing" THEN "SUCCEEDED" ELSE "FAILED"]
      BY <1>12, JobsFinish DEF SoundInv
    <3> QED
      BY <1>0, <1>12, <3>1 DEF FinishJob, Goto, runVars, boundVars, Held
  <2>2. \A v \in Workers \ {w} : mem'[v] = mem[v] /\ pc'[v] = pc[v] /\ cur'[v] = cur[v]
    BY <1>0, <1>12, <2>1 DEF ThreadsSound, Held
  <2>3. RunsCounted'
    BY <1>f, <1>12, <2>1, <2>2 DEF Open, Task
  <2> QED
    BY <1>0, <1>12, <2>1, <2>2, <2>3 DEF RunsInv, Task, Held
<1>13. ASSUME NEW w \in Workers, CrashWorker(w) PROVE RunsInv'
  <2>1. /\ UNCHANGED <<ckpt, implRuns, faults, status, attempts, task>>
        /\ crashes' = crashes + 1
        /\ pc' = [pc EXCEPT ![w] = "idle"] /\ cur' = [cur EXCEPT ![w] = NoJob]
        /\ run' = [run EXCEPT ![w] = "NONE"] /\ mem' = [mem EXCEPT ![w] = NoThread]
    BY <1>13 DEF CrashWorker, Crash, Goto, rowVars
  <2>2. \A v \in Workers \ {w} : /\ mem'[v] = mem[v] /\ pc'[v] = pc[v] /\ cur'[v] = cur[v]
                                 /\ run'[v] = run[v]
    BY <1>0, <2>1 DEF ThreadsSound, Held
  <2>3. ASSUME NEW u \in Tasks, ckpt'[u] # NoThread
        PROVE  implRuns'[u] <= ckpt'[u].builds + crashes' + faults' + Cardinality(Open(u))'
    <3>1. /\ Cardinality(Open(u))' \in {0, 1} /\ Cardinality(Open(u)) \in {0, 1}
          /\ faults \in Nat /\ implRuns[u] \in Nat /\ ckpt[u].builds \in Nat
      BY <1>c, <1>t, <2>1, <2>3 DEF OpenAlone, RunsInv
    <3>2. implRuns[u] <= ckpt[u].builds + crashes + faults + Cardinality(Open(u))
      BY <2>1, <2>3 DEF RunsInv, RunsCounted
    <3>3. implRuns[u] <= ckpt[u].builds + (crashes + 1) + faults + Cardinality(Open(u))'
      BY <1>0, <3>1, <3>2
    <3> QED
      BY <2>1, <3>3
  <2>4. RunsCounted'
    BY <2>3 DEF RunsCounted
  <2>5. pc'[w] = "idle" /\ run'[w] = "NONE"
    BY <1>0, <2>1 DEF Held
  <2> QED
    BY <1>0, <2>1, <2>2, <2>4, <2>5 DEF RunsInv, Task
<1> QED
  <2>1. ASSUME NEW j \in Jobs,
               \/ AcceptTask(j) \/ ReadReview(j) \/ DecideReview(j)
               \/ RefuseReview(j) \/ LapseOfLease(j)
        PROVE  RunsInv'
    BY <1>1, <1>2, <2>1
    DEF AcceptTask, ReadReview, DecideReview, RefuseReview, LapseOfLease, LeaseLapses, vars, rowVars,
        runVars, workerVars, boundVars, extras, threadVars
  <2>2. ASSUME NEW w \in Workers, PollQueue(w) \/ BeginHandler(w) \/ Heartbeat(w) PROVE RunsInv'
    BY <1>1, <1>3, <1>4, <1>5, <1>6, <2>2
    DEF PollQueue, LoadJob, rowVars, BeginHandler, Heartbeat, Renew, runVars, workerVars, boundVars, extras, threadVars
  <2>3. ASSUME NEW w \in Workers,
               \/ RaiseFromGraph(w) \/ ApplyResult(w) \/ RejectFindings(w)
               \/ Conclude(w) \/ LeaveHandler(w)
        PROVE  RunsInv'
    BY <1>11, <1>12, <2>3
    DEF RaiseFromGraph, ApplyResult, RejectFindings, Conclude, LeaveHandler, extras, threadVars
  <2>4. CASE UNCHANGED allVars
    BY <1>1, <2>4 DEF allVars, vars, rowVars, runVars, workerVars, boundVars, extras, threadVars
  <2> QED
    BY <1>7, <1>8, <1>9, <1>10, <1>13, <2>1, <2>2, <2>3, <2>4 DEF TaskNext, WorkerStep

\* An implementation is repeated for a crash or a failing agent only, so what
\* was checkpointed is never applied again (ADR-017:46, 68-69).
THEOREM ImplementedOnce == NeverOverlaps => (TaskSpec => []ImplementedOncePerCrash)
<1> SUFFICES ASSUME NeverOverlaps PROVE TaskSpec => []ImplementedOncePerCrash
  OBVIOUS
<1>1. RunsInv => ImplementedOncePerCrash
  BY DEF RunsInv, RunsCounted, Open, ImplementedOncePerCrash
<1>2. /\ SoundInv /\ TurnsInv /\ SettledInv /\ RunsInv /\ [TaskNext]_allVars
      /\ SoundInv' /\ TurnsInv'
      => RunsInv'
  BY RunsInvNext
<1> QED
  BY <1>1, <1>2, RunsInvInit, ThreadsStaySound, TurnsInvariant, SettledInvariant, PTL DEF TaskSpec
-----------------------------------------------------------------------------
(* The contract, while no worker dies.                                     *)

\* A thread somebody decided still waits, or went on with the decision.
Obeys(s, decision) == s.next \in {"ERROR", "human_review"} \/ s.review = decision

VerdictInv ==
    /\ \A t \in Tasks : Decided(t) => task[t] \in {"RESUMING", "SETTLED", "FAILED"}
    /\ \A j \in Jobs : Kind[j] = "RESUME_HUMAN_REVIEW" /\ status[j] # "ABSENT" =>
         Obeys(ckpt[TaskOf[j]], payload[j])
    /\ \A w \in Workers : pc[w] = "working" /\ Resumes(w) /\ mem[w] # NoThread =>
         Obeys(mem[w], payload[cur[w]])

LEMMA VerdictInvInit == TaskInit => VerdictInv
  BY DEF TaskInit, Init, VerdictInv, Decided

\* A decision is never changed by the nodes that come after it.
LEMMA DecisionsStay ==
    QueueInv /\ ThreadsSound /\ VerdictInv =>
        \A w \in Workers : Runnable(w) /\ Resumes(w) =>
            \A s \in NodeResults(w) : s.review = payload[cur[w]]
<1> SUFFICES ASSUME QueueInv, ThreadsSound, VerdictInv, NEW w \in Workers, Runnable(w),
                    Resumes(w), NEW s \in NodeResults(w)
             PROVE  s.review = payload[cur[w]]
  OBVIOUS
<1>1. /\ ThreadInv(mem[w]) /\ Obeys(mem[w], payload[cur[w]]) /\ mem[w].next # "ERROR"
      /\ cur[w] \in Jobs /\ payload[cur[w]] \in Decisions
  BY JobsAreHeld DEF Runnable, ThreadsSound, VerdictInv, Held, Executing, Resumes
<1>2. CASE mem[w].next = "human_review"
  BY <1>1, <1>2 DEF NodeResults, Resume, ThreadInv, Threads, ThreadsAt
<1>3. CASE mem[w].next # "human_review"
  <2>1. mem[w].review = payload[cur[w]] /\ mem[w].next # "prepare_human_review"
    BY <1>1, <1>3 DEF Obeys, ThreadInv, ReviewPlaced, Decisions, Planning, Developing, Checking,
                      Halted
  <2>2. Moves(mem[w], s)
    BY NodesMove
  <2>3. Traced(mem[w], s)
    BY <1>1, <2>2, MovesAreTraced
  <2> QED
    BY <1>3, <2>1, <2>3 DEF Traced, Reviewing
<1> QED
  BY <1>2, <1>3

LEMMA VerdictInvNext ==
    ReviewsAreSound /\ MaxCrashes = 0 =>
        (SoundInv /\ TurnsInv /\ ReviewInv /\ VerdictInv /\ [TaskNext]_allVars => VerdictInv')
<1> SUFFICES ASSUME ReviewsAreSound, MaxCrashes = 0, SoundInv, TurnsInv, ReviewInv, VerdictInv,
                    [TaskNext]_allVars
             PROVE  VerdictInv'
  OBVIOUS
<1>0. /\ Held /\ Held' /\ TaskOf \in [Jobs -> Tasks] /\ QueueInv /\ ThreadsSound
      /\ \A j \in Jobs : Kind[j] \in {"EXECUTE_TASK", "RESUME_HUMAN_REVIEW"}
      /\ Steady /\ OneDecision /\ crashes = 0 /\ task = [t \in Tasks |-> task[t]]
  BY JobsStayHeld, ConstantsOK, ExecutionConstantsOK
  DEF SoundInv, TurnsInv, ReviewInv, QueueInv, OwnerInv, RowInv, TypeOK
\* Who works on a decided task resumes it.
<1>a. ASSUME NEW w \in Workers, pc[w] \in Turn, Decided(Task(w))
      PROVE  Resumes(w)
  BY <1>0, <1>a DEF VerdictInv, Steady, Held, Executing, Turn, TurnStatus, Accepted, Working,
                    Raised, Resumes, Task
\* It is the decision it was queued with.
<1>b. ASSUME NEW w \in Workers, NEW j \in Jobs, pc[w] \in Turn, Resumes(w),
             Kind[j] = "RESUME_HUMAN_REVIEW", status[j] # "ABSENT", TaskOf[j] = Task(w)
      PROVE  j = cur[w]
  BY <1>0, <1>b DEF OneDecision, Held, Executing, Turn, Resumes, Task
<1>1. CASE UNCHANGED <<status, task, ckpt, mem, payload, pc, cur>>
  BY <1>1 DEF VerdictInv, Decided, Obeys, Resumes
<1>2. ASSUME NEW j \in Jobs, AcceptTask(j) PROVE VerdictInv'
  <2>1. /\ UNCHANGED <<ckpt, mem, payload, pc, cur>> /\ Kind[j] # "RESUME_HUMAN_REVIEW"
        /\ status' = [status EXCEPT ![j] = "QUEUED"]
        /\ task' = [task EXCEPT ![TaskOf[j]] = "QUEUED"] /\ task[TaskOf[j]] = "NONE"
    BY <1>2 DEF AcceptTask, Accept, NewJob, workerVars, extras, threadVars, reviewVars
  <2>2. ~Decided(TaskOf[j]) /\ \A t \in Tasks : Decided(t)' => Decided(t)
    BY <2>1, <1>0 DEF Decided, VerdictInv
  <2>3. \A i \in Jobs : Kind[i] = "RESUME_HUMAN_REVIEW" => status'[i] = status[i]
    BY <2>1, <1>0 DEF Held
  <2> HIDE DEF Decided
  <2> QED
    BY <2>1, <2>2, <2>3, <1>0 DEF VerdictInv, Obeys, Resumes
<1>3. ASSUME NEW j \in Jobs, DecideReview(j) PROVE VerdictInv'
  <2>1. /\ UNCHANGED <<ckpt, mem, pc, cur>> /\ task[TaskOf[j]] = "HUMAN_REVIEW"
        /\ status' = [status EXCEPT ![j] = "QUEUED"] /\ status[j] = "ABSENT"
        /\ \E d \in Decisions : payload' = [payload EXCEPT ![j] = d]
        /\ task' = [task EXCEPT ![TaskOf[j]] = "RESUMING"]
    BY <1>3 DEF DecideReview, ClaimReview, ReviewOpen, NewJob, workerVars, threadVars
  <2>2. ckpt[TaskOf[j]].next = "human_review"
    BY <2>1, <1>0 DEF ReviewInv, ReviewCanBeDecided
  <2>3. \A t \in Tasks \ {TaskOf[j]} : Decided(t)' => Decided(t)
    BY <2>1, <1>0 DEF Decided, Held
  <2>4. \A w \in Workers : pc[w] = "working" => cur[w] # j /\ cur[w] \in Jobs
    BY <2>1, <1>0 DEF Held, Executing
  <2>5. \A t \in Tasks : Decided(t)' => task'[t] \in {"RESUMING", "SETTLED", "FAILED"}
    BY <2>1, <2>3, <1>0 DEF VerdictInv
  <2>6. \A i \in Jobs \ {j} : status'[i] = status[i] /\ payload'[i] = payload[i]
    BY <2>1, <1>0 DEF Held, ThreadsSound
  <2> QED
    BY <2>1, <2>2, <2>4, <2>5, <2>6 DEF VerdictInv, Obeys, Resumes
<1>4. ASSUME NEW w \in Workers, PollQueue(w) PROVE VerdictInv'
  <2>1. Expired = {}
    BY <1>0 DEF Expired, Steady
  <2>2. /\ UNCHANGED <<ckpt, mem, payload, task>>
        /\ \A j \in Jobs : status'[j] = "ABSENT" <=> status[j] = "ABSENT"
        /\ \A v \in Workers : pc'[v] = "working" => pc[v] = "working" /\ cur'[v] = cur[v]
    BY <1>4, <1>0, <2>1
    DEF PollQueue, Reap, ClaimLock, ClaimNothing, ClaimCommit, LoadJob, Dead, Requeued,
        AbandonedTasks, Goto, Held, rowVars, extras, threadVars, reviewVars
  <2> QED
    BY <2>2 DEF VerdictInv, Decided, Obeys, Resumes
<1>5. ASSUME NEW w \in Workers, BeginHandler(w) PROVE VerdictInv'
  <2>1. /\ UNCHANGED <<ckpt, mem, payload, status, cur>> /\ pc[w] = "started"
        /\ pc' = [pc EXCEPT ![w] = "working"] /\ mem[w] = NoThread
        /\ \/ task' = [task EXCEPT ![Task(w)] = "ANALYZING"] /\ ~Resumes(w)
           \/ task' = task
    BY <1>5, <1>0 DEF BeginHandler, Begin, Goto, Resumes, rowVars, extras, threadVars, reviewVars,
                      ThreadsSound
  <2>2. ~Resumes(w) => ~Decided(Task(w))
    BY <1>a, <2>1 DEF Turn
  <2>3. \A t \in Tasks : Decided(t)' <=> Decided(t)
    BY <2>1 DEF Decided
  <2>4. \A t \in Tasks : Decided(t)' => task'[t] \in {"RESUMING", "SETTLED", "FAILED"}
    BY <2>1, <2>2, <2>3, <1>0 DEF VerdictInv
  <2> QED
    BY <2>1, <2>4, <1>0 DEF VerdictInv, Obeys, Resumes, Held
<1>6. ASSUME NEW w \in Workers, NEW s, pc[w] = "working",
             UNCHANGED <<status, task, payload, pc, cur>>,
             mem' = [mem EXCEPT ![w] = s], ckpt' = [ckpt EXCEPT ![Task(w)] = s],
             Resumes(w) => Obeys(s, payload[cur[w]])
      PROVE  VerdictInv'
  <2>1. \A j \in Jobs : /\ Kind[j] = "RESUME_HUMAN_REVIEW" /\ status[j] # "ABSENT"
                        /\ TaskOf[j] = Task(w)
                        => j = cur[w] /\ Resumes(w)
    BY <1>6, <1>a, <1>b DEF Turn, Decided
  <2>2. \A j \in Jobs : Kind[j] = "RESUME_HUMAN_REVIEW" /\ status[j] # "ABSENT" =>
           Obeys(ckpt'[TaskOf[j]], payload[j])
    BY <1>6, <2>1, <1>0 DEF VerdictInv, ThreadsSound
  <2>3. \A v \in Workers : pc[v] = "working" /\ Resumes(v) /\ mem'[v] # NoThread =>
           Obeys(mem'[v], payload[cur[v]])
    BY <1>6, <1>0 DEF VerdictInv, ThreadsSound
  <2>4. \A t \in Tasks : Decided(t)' <=> Decided(t)
    BY <1>6 DEF Decided
  <2>5. \A t \in Tasks : Decided(t)' => task'[t] \in {"RESUMING", "SETTLED", "FAILED"}
    BY <1>6, <2>4 DEF VerdictInv
  <2>6. UNCHANGED <<status, payload, pc, cur>>
    BY <1>6
  <2> QED
    BY <2>2, <2>3, <2>5, <2>6 DEF VerdictInv, Obeys, Resumes
<1>7. ASSUME NEW w \in Workers, InvokeGraph(w) PROVE VerdictInv'
  <2>1. /\ pc[w] = "working" /\ UNCHANGED vars /\ UNCHANGED payload
        /\ \E s : /\ Resumes(w) => s = ckpt[Task(w)]
                  /\ mem' = [mem EXCEPT ![w] = s] /\ ckpt' = [ckpt EXCEPT ![Task(w)] = s]
    BY <1>7 DEF InvokeGraph, Fresh, reviewVars
  <2>2. Resumes(w) => Obeys(ckpt[Task(w)], payload[cur[w]])
    BY <2>1, <1>0 DEF VerdictInv, Held, Executing, Resumes, Task
  <2>3. UNCHANGED <<status, task, payload, pc, cur>>
    BY <2>1 DEF vars, rowVars, workerVars
  <2> QED
    BY <2>1, <2>2, <2>3, <1>6
<1>8. ASSUME NEW w \in Workers, CompleteNode(w) PROVE VerdictInv'
  <2>1. /\ Runnable(w) /\ pc[w] = "working" /\ UNCHANGED <<status, task, payload, pc, cur>>
    BY <1>8 DEF CompleteNode, EndRun, Runnable, vars, rowVars, workerVars, reviewVars
  <2>2. PICK s \in NodeResults(w) : /\ mem'  = [mem EXCEPT ![w] = s]
                                    /\ ckpt' = [ckpt EXCEPT ![Task(w)] = s]
    BY <1>8 DEF CompleteNode, StoreCheckpoint
  <2>3. Resumes(w) => Obeys(s, payload[cur[w]])
    BY <2>1, <2>2, <1>0, DecisionsStay DEF Obeys
  <2> QED
    BY <2>1, <2>2, <2>3, <1>6
<1>9. ASSUME NEW w \in Workers, FailAgent(w) PROVE VerdictInv'
  <2>1. /\ UNCHANGED <<ckpt, payload, status, task, pc, cur>>
        /\ mem' = [mem EXCEPT ![w].next = "ERROR"]
        /\ mem[w] # NoThread /\ mem[w].next # "ERROR"
    BY <1>9 DEF FailAgent, EndRun, Runnable, rowVars, workerVars, reviewVars
  <2>2. mem[w] \in Threads /\ mem = [v \in Workers |-> mem[v]]
    BY <2>1, <1>0 DEF ThreadInv, ThreadsSound
  <2>3. mem'[w].next = "ERROR" /\ \A v \in Workers \ {w} : mem'[v] = mem[v]
    BY <2>1, <2>2 DEF Threads, ThreadsAt
  <2> QED
    BY <2>1, <2>3 DEF VerdictInv, Decided, Obeys, Resumes
<1>10. ASSUME NEW w \in Workers, RaiseFromGraph(w) \/ RejectFindings(w) \/ Conclude(w)
       PROVE  VerdictInv'
  <2>1. /\ UNCHANGED <<status, payload, cur, ckpt, mem>>
        /\ \E place \in {"raised", "finishing"} : pc' = [pc EXCEPT ![w] = place]
        /\ task' = task \/ task' = [task EXCEPT ![Task(w)] = "FAILED"]
    BY <1>10, <1>0 DEF RaiseFromGraph, RejectFindings, Conclude, Raise, Return, Goto, rowVars, extras,
                 threadVars, reviewVars
  <2>2. \A t \in Tasks : Decided(t)' => Decided(t)
    BY <2>1 DEF Decided
  <2>3. \A t \in Tasks : Decided(t)' => task'[t] \in {"RESUMING", "SETTLED", "FAILED"}
    BY <2>1, <2>2, <1>0 DEF VerdictInv
  <2> QED
    BY <2>1, <2>3, <1>0 DEF VerdictInv, Obeys, Resumes, Held
<1>11. ASSUME NEW w \in Workers, ApplyResult(w) PROVE VerdictInv'
  <2>1. /\ UNCHANGED <<status, payload, cur, ckpt, mem>> /\ pc[w] = "working"
        /\ pc' = [pc EXCEPT ![w] = "settled"]
    BY <1>11 DEF ApplyResult, Settle, Goto, rowVars, threadVars, reviewVars
  <2>2. \/ task' = [task EXCEPT ![Task(w)] = "SETTLED"]
        \/ ~Resumes(w) /\ task' = [task EXCEPT ![Task(w)] = "HUMAN_REVIEW"]
    BY <1>11, <1>0, AppliedResults DEF ReviewsAreSound
  <2>3. \A t \in Tasks : Decided(t)' => Decided(t)
    BY <2>1 DEF Decided
  <2>4. \A t \in Tasks : Decided(t)' => task'[t] \in {"RESUMING", "SETTLED", "FAILED"}
    BY <2>1, <2>2, <2>3, <1>0, <1>a DEF VerdictInv, Turn
  <2> QED
    BY <2>1, <2>4, <1>0 DEF VerdictInv, Obeys, Resumes, Held
<1>12. ASSUME NEW w \in Workers, LeaveHandler(w) PROVE VerdictInv'
  <2>1. /\ UNCHANGED <<payload, ckpt>> /\ mem' = [mem EXCEPT ![w] = NoThread]
        /\ \A j \in Jobs : status'[j] = "ABSENT" <=> status[j] = "ABSENT"
        /\ \A v \in Workers \ {w} : pc'[v] = pc[v] /\ cur'[v] = cur[v]
        /\ task' = task \/ task' = [task EXCEPT ![Task(w)] = "FAILED"]
    <3>1. CASE FinishJob(w)
      <4>1. /\ pc[w] \in {"finishing", "failing"}
            /\ status' = [status EXCEPT ![cur[w]] =
                            IF pc[w] = "finishing" THEN "SUCCEEDED" ELSE "FAILED"]
        BY <3>1, <1>0, JobsFinish DEF FinishJob
      <4> QED
        BY <1>12, <1>0, <3>1, <4>1 DEF LeaveHandler, FinishJob, Goto, reviewVars, Held, Executing
    <3>2. CASE MarkTaskFailed(w)
      BY <1>12, <1>0, <3>2 DEF LeaveHandler, MarkTaskFailed, Goto, rowVars, reviewVars, Held,
                               Executing
    <3> QED
      BY <1>12, <3>1, <3>2 DEF LeaveHandler
  <2>2. \A t \in Tasks : Decided(t)' => Decided(t)
    BY <2>1 DEF Decided
  <2>3. \A t \in Tasks : Decided(t)' => task'[t] \in {"RESUMING", "SETTLED", "FAILED"}
    BY <2>1, <2>2, <1>0 DEF VerdictInv
  <2>4. \A v \in Workers : mem'[v] # NoThread =>
           mem'[v] = mem[v] /\ pc'[v] = pc[v] /\ cur'[v] = cur[v]
    BY <2>1, <1>0 DEF ThreadsSound
  <2> QED
    BY <2>1, <2>3, <2>4 DEF VerdictInv, Obeys, Resumes
<1>13. ASSUME NEW w \in Workers, CrashWorker(w) PROVE FALSE
  BY <1>13, <1>0 DEF CrashWorker, Crash
<1> QED
  <2>1. ASSUME NEW j \in Jobs, ReadReview(j) \/ RefuseReview(j) \/ LapseOfLease(j)
        PROVE  VerdictInv'
    BY <1>1, <2>1 DEF ReadReview, RefuseReview, LapseOfLease, LeaseLapses, vars, rowVars, workerVars,
                      extras, threadVars, reviewVars
  <2>2. ASSUME NEW w \in Workers, StartAgent(w) \/ Heartbeat(w) PROVE VerdictInv'
    BY <1>1, <2>2 DEF StartAgent, StartRun, Heartbeat, Renew, rowVars, workerVars, extras, threadVars,
                      reviewVars
  <2>3. CASE UNCHANGED allVars
    BY <1>1, <2>3 DEF allVars, vars, rowVars, workerVars, extras, threadVars, reviewVars
  <2> QED
    BY <1>2, <1>3, <1>4, <1>5, <1>7, <1>8, <1>9, <1>10, <1>11, <1>12, <1>13, <2>1, <2>2, <2>3
    DEF TaskNext, WorkerStep

LEMMA VerdictInvariant ==
    ReviewsAreSound /\ MaxCrashes = 0 => (TaskSpec => []VerdictInv)
<1> SUFFICES ASSUME ReviewsAreSound, MaxCrashes = 0 PROVE TaskSpec => []VerdictInv
  OBVIOUS
<1>1. SoundInv /\ TurnsInv /\ ReviewInv /\ VerdictInv /\ [TaskNext]_allVars => VerdictInv'
  BY VerdictInvNext
<1> QED
  BY <1>1, VerdictInvInit, ThreadsStaySound, TurnsInvariant, ReviewInvariant, PTL DEF TaskSpec

\* The phase and the verdict of a task, as Contract maps them.
PhaseOf(t) ==
    CASE task[t] \in {"QUEUED", "ANALYZING"} -> "ACCEPTED"
      [] task[t] = "HUMAN_REVIEW"            -> "REVIEW"
      [] task[t] = "RESUMING"                -> "DECIDED"
      [] task[t] = "SETTLED"                 -> row[t].status
      [] OTHER                               -> task[t]
VerdictOf(t) ==
    LET decided == {j \in Jobs : TaskOf[j] = t /\ payload[j] # "NONE"}
    IN  IF decided = {} THEN "NONE" ELSE payload[CHOOSE j \in decided : TRUE]

\* The verdict is that of the one decision there is.
Recorded ==
    \A t \in Tasks :
        /\ (\A j \in Jobs : TaskOf[j] = t => payload[j] = "NONE") => VerdictOf(t) = "NONE"
        /\ \A j \in Jobs : TaskOf[j] = t /\ payload[j] # "NONE" => VerdictOf(t) = payload[j]

LEMMA VerdictsAreRecorded == ThreadsSound /\ OneDecision => Recorded
<1> SUFFICES ASSUME ThreadsSound, OneDecision, NEW t \in Tasks
             PROVE  /\ (\A j \in Jobs : TaskOf[j] = t => payload[j] = "NONE")
                         => VerdictOf(t) = "NONE"
                    /\ \A j \in Jobs : TaskOf[j] = t /\ payload[j] # "NONE"
                         => VerdictOf(t) = payload[j]
  BY DEF Recorded
<1> DEFINE decided == {j \in Jobs : TaskOf[j] = t /\ payload[j] # "NONE"}
<1>1. \A i, j \in decided : i = j
  BY DEF ThreadsSound, OneDecision
<1>2. decided # {} => (CHOOSE j \in decided : TRUE) \in decided
  OBVIOUS
<1> QED
  BY <1>1, <1>2 DEF VerdictOf

\* A step in which each task keeps its phase and its verdict.
LEMMA ContractStutters ==
    (\A t \in Tasks : PhaseOf(t)' = PhaseOf(t) /\ VerdictOf(t)' = VerdictOf(t))
        => UNCHANGED Contract!vars
  BY DEF PhaseOf, VerdictOf, Contract!vars

LEMMA ContractInit == TaskInit => Contract!Init
<1> SUFFICES ASSUME TaskInit PROVE Contract!Init
  OBVIOUS
<1>1. \A t \in Tasks : PhaseOf(t) = "NONE" /\ VerdictOf(t) = "NONE"
  BY DEF TaskInit, Init, PhaseOf, VerdictOf
<1> QED
  BY <1>1 DEF Contract!Init, PhaseOf, VerdictOf

\* Only u goes on.
Others(u) == \A t \in Tasks \ {u} : PhaseOf(t)' = PhaseOf(t) /\ VerdictOf(t)' = VerdictOf(t)

\* The steps of the contract in which a task moves to another phase.
LEMMA ContractMoves ==
    \A u \in Tasks : Others(u) /\ VerdictOf(u)' = VerdictOf(u) =>
        /\ PhaseOf(u) = "NONE" /\ PhaseOf(u)' = "ACCEPTED" => Contract!Accept(u)
        /\ PhaseOf(u) = "ACCEPTED" /\ PhaseOf(u)' = "REVIEW" => Contract!RequestReview(u)
        /\ PhaseOf(u) \in {"ACCEPTED", "DECIDED"} /\ PhaseOf(u)' = "FAILED" => Contract!Fail(u)
        /\ /\ PhaseOf(u) \in {"ACCEPTED", "DECIDED"} /\ PhaseOf(u)' \in Finals
           /\ VerdictOf(u) \in {"REJECTED", "EXPIRED"} => PhaseOf(u)' = "BLOCKED"
           => Contract!Finish(u)
<1> SUFFICES ASSUME NEW u \in Tasks, Others(u), VerdictOf(u)' = VerdictOf(u)
             PROVE  /\ PhaseOf(u) = "NONE" /\ PhaseOf(u)' = "ACCEPTED" => Contract!Accept(u)
                    /\ PhaseOf(u) = "ACCEPTED" /\ PhaseOf(u)' = "REVIEW"
                         => Contract!RequestReview(u)
                    /\ PhaseOf(u) \in {"ACCEPTED", "DECIDED"} /\ PhaseOf(u)' = "FAILED"
                         => Contract!Fail(u)
                    /\ /\ PhaseOf(u) \in {"ACCEPTED", "DECIDED"} /\ PhaseOf(u)' \in Finals
                       /\ VerdictOf(u) \in {"REJECTED", "EXPIRED"} => PhaseOf(u)' = "BLOCKED"
                       => Contract!Finish(u)
  OBVIOUS
<1> DEFINE phase   == [t \in Tasks |-> PhaseOf(t)]
           verdict == [t \in Tasks |-> VerdictOf(t)]
<1>1. phase' = [phase EXCEPT ![u] = PhaseOf(u)'] /\ phase[u] = PhaseOf(u)
  BY DEF Others
<1>2. verdict' = verdict /\ verdict[u] = VerdictOf(u)
  BY DEF Others
<1>3. ASSUME PhaseOf(u) = "NONE", PhaseOf(u)' = "ACCEPTED" PROVE Contract!Accept(u)
  <2>1. phase[u] = "NONE" /\ phase' = [phase EXCEPT ![u] = "ACCEPTED"]
    BY <1>1, <1>3
  <2> QED
    BY <2>1, <1>2 DEF Contract!Accept, PhaseOf, VerdictOf
<1>4. ASSUME PhaseOf(u) = "ACCEPTED", PhaseOf(u)' = "REVIEW" PROVE Contract!RequestReview(u)
  <2>1. phase[u] = "ACCEPTED" /\ phase' = [phase EXCEPT ![u] = "REVIEW"]
    BY <1>1, <1>4
  <2> QED
    BY <2>1, <1>2 DEF Contract!RequestReview, PhaseOf, VerdictOf
<1>5. ASSUME PhaseOf(u) \in {"ACCEPTED", "DECIDED"}, PhaseOf(u)' = "FAILED" PROVE Contract!Fail(u)
  <2>1. phase[u] \in {"ACCEPTED", "DECIDED"} /\ phase' = [phase EXCEPT ![u] = "FAILED"]
    BY <1>1, <1>5
  <2> QED
    BY <2>1, <1>2 DEF Contract!Fail, PhaseOf, VerdictOf
<1>6. ASSUME PhaseOf(u) \in {"ACCEPTED", "DECIDED"}, PhaseOf(u)' \in Finals,
             VerdictOf(u) \in {"REJECTED", "EXPIRED"} => PhaseOf(u)' = "BLOCKED"
      PROVE  Contract!Finish(u)
  <2>1. /\ phase[u] \in {"ACCEPTED", "DECIDED"}
        /\ \E o \in Finals : /\ verdict[u] \in {"REJECTED", "EXPIRED"} => o = "BLOCKED"
                             /\ phase' = [phase EXCEPT ![u] = o]
    BY <1>1, <1>2, <1>6
  <2>2. Finals = Contract!Outcome
    BY DEF Finals, Contract!Outcome
  <2> QED
    BY <2>1, <2>2, <1>2 DEF Contract!Finish, PhaseOf, VerdictOf
<1> QED
  BY <1>3, <1>4, <1>5, <1>6

LEMMA ContractDecides ==
    \A u \in Tasks : /\ Others(u) /\ PhaseOf(u) = "REVIEW" /\ PhaseOf(u)' = "DECIDED"
                     /\ VerdictOf(u) = "NONE" /\ VerdictOf(u)' \in Decisions
                     => Contract!Decide(u)
<1> SUFFICES ASSUME NEW u \in Tasks, Others(u), PhaseOf(u) = "REVIEW", PhaseOf(u)' = "DECIDED",
                    VerdictOf(u) = "NONE", VerdictOf(u)' \in Decisions
             PROVE  Contract!Decide(u)
  OBVIOUS
<1> DEFINE phase   == [t \in Tasks |-> PhaseOf(t)]
           verdict == [t \in Tasks |-> VerdictOf(t)]
<1>1. phase' = [phase EXCEPT ![u] = "DECIDED"] /\ phase[u] = "REVIEW"
  BY DEF Others
<1>2. /\ verdict[u] = "NONE"
      /\ \E v \in Decisions : verdict' = [verdict EXCEPT ![u] = v]
  BY DEF Others
<1>3. Decisions = Contract!Verdicts
  BY DEF Decisions, Contract!Verdicts
<1> QED
  BY <1>1, <1>2, <1>3 DEF Contract!Decide, PhaseOf, VerdictOf

LEMMA ContractNext ==
    ReviewsAreSound /\ MaxCrashes = 0 =>
        (SoundInv /\ TurnsInv /\ ReviewInv /\ VerdictInv /\ Recorded /\ Recorded'
            /\ [TaskNext]_allVars => [Contract!Next]_Contract!vars)
<1> SUFFICES ASSUME ReviewsAreSound, MaxCrashes = 0, SoundInv, TurnsInv, ReviewInv, VerdictInv,
                    Recorded, Recorded', [TaskNext]_allVars
             PROVE  [Contract!Next]_Contract!vars
  OBVIOUS
<1>0. /\ Held /\ TaskOf \in [Jobs -> Tasks] /\ QueueInv /\ ThreadsSound /\ Steady
      /\ \A j \in Jobs : Kind[j] \in {"EXECUTE_TASK", "RESUME_HUMAN_REVIEW"}
      /\ crashes = 0 /\ task = [t \in Tasks |-> task[t]] /\ row = [t \in Tasks |-> row[t]]
  BY JobsStayHeld, ConstantsOK, ExecutionConstantsOK
  DEF SoundInv, TurnsInv, ReviewInv, QueueInv, OwnerInv, RowInv, TypeOK
<1>w. \A w \in Workers : pc[w] \in Executing => Task(w) \in Tasks
  BY <1>0 DEF Held, Task
<1>v. UNCHANGED payload => \A t \in Tasks : VerdictOf(t)' = VerdictOf(t)
  BY DEF Recorded
<1>s. ASSUME UNCHANGED <<task, row, payload>> PROVE UNCHANGED Contract!vars
  BY <1>s, <1>v, ContractStutters DEF PhaseOf
<1>m. ASSUME NEW u \in Tasks, NEW s, UNCHANGED payload, task' = [task EXCEPT ![u] = s],
             \A t \in Tasks \ {u} : row'[t] = row[t]
      PROVE  Others(u) /\ VerdictOf(u)' = VerdictOf(u)
  BY <1>m, <1>v, <1>0 DEF Others, PhaseOf
<1>1. ASSUME NEW j \in Jobs, AcceptTask(j) PROVE Contract!Next
  <2>1. /\ UNCHANGED <<row, payload>> /\ task[TaskOf[j]] = "NONE"
        /\ task' = [task EXCEPT ![TaskOf[j]] = "QUEUED"]
    BY <1>1 DEF AcceptTask, Accept, extras, rowExtras, reviewVars
  <2>2. PhaseOf(TaskOf[j]) = "NONE" /\ PhaseOf(TaskOf[j])' = "ACCEPTED"
    BY <2>1, <1>0 DEF PhaseOf
  <2>3. Others(TaskOf[j]) /\ VerdictOf(TaskOf[j])' = VerdictOf(TaskOf[j])
    BY <2>1, <1>0, <1>m
  <2>4. Contract!Accept(TaskOf[j])
    BY <2>2, <2>3, <1>0, ContractMoves
  <2> QED
    BY <2>4, <1>0 DEF Contract!Next
<1>2. ASSUME NEW j \in Jobs, DecideReview(j) PROVE Contract!Next
  <2>1. /\ UNCHANGED row /\ task[TaskOf[j]] = "HUMAN_REVIEW"
        /\ task' = [task EXCEPT ![TaskOf[j]] = "RESUMING"]
        /\ \E d \in Decisions : payload' = [payload EXCEPT ![j] = d]
    BY <1>2 DEF DecideReview, ClaimReview, ReviewOpen, rowExtras
  <2>2. PhaseOf(TaskOf[j]) = "REVIEW" /\ PhaseOf(TaskOf[j])' = "DECIDED"
    BY <2>1, <1>0 DEF PhaseOf
  <2>3. payload'[j] \in Decisions /\ \A i \in Jobs \ {j} : payload'[i] = payload[i]
    BY <2>1, <1>0 DEF ThreadsSound
  <2>4. \A i \in Jobs : TaskOf[i] = TaskOf[j] => payload[i] = "NONE"
    BY <2>1, <1>0 DEF ReviewInv, Decided, ThreadsSound
  <2>5. VerdictOf(TaskOf[j]) = "NONE" /\ VerdictOf(TaskOf[j])' \in Decisions
    BY <2>3, <2>4, <1>0 DEF Recorded, Decisions
  <2>6. \A t \in Tasks \ {TaskOf[j]} : VerdictOf(t)' = VerdictOf(t)
    BY <2>3, <1>0 DEF Recorded
  <2>7. Others(TaskOf[j])
    BY <2>1, <2>6, <1>0 DEF Others, PhaseOf
  <2>8. Contract!Decide(TaskOf[j])
    BY <2>2, <2>5, <2>7, <1>0, ContractDecides
  <2> QED
    BY <2>8, <1>0 DEF Contract!Next
<1>3. ASSUME NEW w \in Workers, PollQueue(w) PROVE UNCHANGED Contract!vars
  <2>1. Expired = {}
    BY <1>0 DEF Expired, Steady
  <2>2. UNCHANGED <<task, row, payload>>
    BY <1>3, <1>0, <2>1 DEF PollQueue, Reap, ClaimLock, ClaimNothing, ClaimCommit, LoadJob,
                            Dead, AbandonedTasks, extras, rowExtras, reviewVars
  <2> QED
    BY <2>2, <1>s
<1>4. ASSUME NEW w \in Workers, BeginHandler(w) PROVE UNCHANGED Contract!vars
  <2>1. /\ pc[w] = "started" /\ UNCHANGED <<row, payload>>
        /\ task' = IF Kind[cur[w]] = "RESUME_HUMAN_REVIEW" THEN task
                   ELSE [task EXCEPT ![Task(w)] = "ANALYZING"]
    BY <1>4 DEF BeginHandler, Begin, extras, rowExtras, reviewVars
  <2>2. Kind[cur[w]] # "RESUME_HUMAN_REVIEW" => task[Task(w)] = "QUEUED"
    BY <2>1, <1>0 DEF Held, Executing, Steady, Turn, TurnStatus, Accepted
  <2>3. \A t \in Tasks : PhaseOf(t)' = PhaseOf(t)
    BY <2>1, <2>2, <1>0 DEF PhaseOf
  <2> QED
    BY <2>1, <2>3, <1>v, ContractStutters
<1>5. ASSUME NEW w \in Workers, ApplyResult(w) PROVE Contract!Next
  <2>0. PICK u \in Tasks : u = Task(w)
    BY <1>5, <1>w DEF ApplyResult, Executing
  <2>1. /\ pc[w] = "working" /\ UNCHANGED payload /\ row' = [row EXCEPT ![u] = mem[w]]
        /\ cur[w] \in Jobs /\ status[cur[w]] = "RUNNING"
    BY <1>5, <1>0, <2>0 DEF ApplyResult, reviewVars, Held, Executing
  <2>2. /\ mem[w] # NoThread /\ ThreadInv(mem[w])
        /\ \/ mem[w].next = "END" /\ mem[w].status \in Finals
              /\ task' = [task EXCEPT ![u] = "SETTLED"]
           \/ ~Resumes(w) /\ task' = [task EXCEPT ![u] = "HUMAN_REVIEW"]
    BY <1>5, <1>0, <2>0, AppliedResults DEF ReviewsAreSound
  <2>3. task[u] = Working(cur[w])
    BY <2>0, <2>1, <1>0 DEF Steady, Turn, TurnStatus
  <2>4. Others(u) /\ VerdictOf(u)' = VerdictOf(u)
    BY <2>1, <2>2, <1>0, <1>m
  <2>5. PhaseOf(u) = IF Resumes(w) THEN "DECIDED" ELSE "ACCEPTED"
    BY <2>1, <2>3, <1>0 DEF PhaseOf, Working, Resumes
  <2>6. CASE ~Resumes(w) /\ task' = [task EXCEPT ![u] = "HUMAN_REVIEW"]
    <3>1. PhaseOf(u)' = "REVIEW"
      BY <2>1, <2>6, <1>0 DEF PhaseOf
    <3>2. Contract!RequestReview(u)
      BY <2>4, <2>5, <2>6, <3>1, ContractMoves
    <3> QED
      BY <3>2 DEF Contract!Next
  <2>7. CASE /\ mem[w].next = "END" /\ mem[w].status \in Finals
             /\ task' = [task EXCEPT ![u] = "SETTLED"]
    <3>1. PhaseOf(u)' = mem[w].status
      BY <2>1, <2>7, <1>0 DEF PhaseOf
    <3>2. ASSUME VerdictOf(u) \in {"REJECTED", "EXPIRED"} PROVE mem[w].status = "BLOCKED"
      <4>1. PICK j \in Jobs : TaskOf[j] = u /\ payload[j] = VerdictOf(u) /\ payload[j] # "NONE"
        BY <2>1, <3>2 DEF Recorded
      <4>2. Kind[j] = "RESUME_HUMAN_REVIEW" /\ status[j] # "ABSENT"
        BY <4>1, <1>0 DEF ThreadsSound
      <4>3. Decided(u)
        BY <4>1, <4>2 DEF Decided
      <4>4. Resumes(w)
        BY <2>1, <2>3, <4>3, <1>0 DEF VerdictInv, Working, Resumes
      <4>5. cur[w] = j
        BY <2>0, <2>1, <4>1, <4>2, <4>4, <1>0 DEF ReviewInv, OneDecision, Resumes, Task
      <4>6. mem[w].review = VerdictOf(u)
        BY <2>1, <2>2, <2>7, <4>1, <4>4, <4>5 DEF VerdictInv, Obeys
      <4> QED
        BY <2>2, <2>7, <3>2, <4>6 DEF ThreadInv, ReviewPlaced, Flagged
    <3>3. Contract!Finish(u)
      BY <2>4, <2>5, <2>7, <3>1, <3>2, ContractMoves
    <3> QED
      BY <3>3 DEF Contract!Next
  <2> QED
    BY <2>2, <2>6, <2>7
<1>6. ASSUME NEW w \in Workers, RaiseFromGraph(w) PROVE Contract!Next \/ UNCHANGED Contract!vars
  <2>0. PICK u \in Tasks : u = Task(w)
    BY <1>6, <1>w DEF RaiseFromGraph, Executing
  <2>1. /\ pc[w] = "working" /\ UNCHANGED <<row, payload>>
        /\ task' = IF Resumes(w) THEN [task EXCEPT ![u] = "FAILED"] ELSE task
    BY <1>6, <2>0 DEF RaiseFromGraph, extras, rowExtras, reviewVars
  <2>2. CASE ~Resumes(w)
    BY <2>1, <2>2, <1>s
  <2>3. CASE Resumes(w)
    <3>1. PhaseOf(u) = "DECIDED" /\ PhaseOf(u)' = "FAILED"
      BY <2>0, <2>1, <2>3, <1>0 DEF PhaseOf, Steady, Turn, TurnStatus, Working, Resumes
    <3>2. Contract!Fail(u)
      BY <2>1, <2>3, <3>1, <1>m, ContractMoves
    <3> QED
      BY <3>2 DEF Contract!Next
  <2> QED
    BY <2>2, <2>3
<1>7. ASSUME NEW w \in Workers, LeaveHandler(w) PROVE Contract!Next \/ UNCHANGED Contract!vars
  <2>1. CASE UNCHANGED task
    BY <1>7, <2>1, <1>s DEF LeaveHandler, rowExtras, reviewVars
  <2>2. CASE MarkTaskFailed(w)
    <3>0. PICK u \in Tasks : u = Task(w)
      BY <2>2, <1>w DEF MarkTaskFailed, Executing
    <3>1. /\ pc[w] = "raised" /\ UNCHANGED <<row, payload>>
          /\ task' = [task EXCEPT ![u] = "FAILED"]
      BY <1>7, <2>2, <3>0 DEF LeaveHandler, MarkTaskFailed, rowExtras, reviewVars
    <3>2. task[u] \in {"ANALYZING", "FAILED"}
      BY <3>0, <3>1, <1>0 DEF Steady, Turn, TurnStatus, Raised
    <3>3. CASE task[u] = "FAILED"
      BY <3>1, <3>3, <2>1, <1>0
    <3>4. CASE task[u] = "ANALYZING"
      <4>1. PhaseOf(u) = "ACCEPTED" /\ PhaseOf(u)' = "FAILED"
        BY <3>1, <3>4, <1>0 DEF PhaseOf
      <4>2. Contract!Fail(u)
        BY <3>1, <4>1, <1>m, ContractMoves
      <4> QED
        BY <4>2 DEF Contract!Next
    <3> QED
      BY <3>2, <3>3, <3>4
  <2> QED
    BY <1>7, <2>1, <2>2 DEF LeaveHandler, FinishJob
<1>8. ASSUME NEW w \in Workers,
             \/ InvokeGraph(w) \/ StartAgent(w) \/ CompleteNode(w) \/ FailAgent(w)
             \/ RejectFindings(w) \/ Conclude(w) \/ Heartbeat(w)
      PROVE  UNCHANGED Contract!vars
  <2>1. UNCHANGED <<task, row, payload>>
    BY <1>8 DEF InvokeGraph, StartAgent, StartRun, CompleteNode, EndRun, FailAgent, RejectFindings,
                Conclude, Return, Heartbeat, Renew, vars, extras, rowExtras, reviewVars
  <2> QED
    BY <2>1, <1>s
<1>9. ASSUME NEW j \in Jobs, ReadReview(j) \/ RefuseReview(j) \/ LapseOfLease(j)
      PROVE  UNCHANGED Contract!vars
  <2>1. UNCHANGED <<task, row, payload>>
    BY <1>9 DEF ReadReview, RefuseReview, LapseOfLease, LeaseLapses, vars, extras, rowExtras, reviewVars
  <2> QED
    BY <2>1, <1>s
<1>10. ASSUME NEW w \in Workers, CrashWorker(w) PROVE FALSE
  BY <1>10, <1>0 DEF CrashWorker, Crash
<1>11. CASE UNCHANGED allVars
  BY <1>11, <1>s DEF allVars, vars, extras, rowExtras, reviewVars
<1> QED
  BY <1>1, <1>2, <1>3, <1>4, <1>5, <1>6, <1>7, <1>8, <1>9, <1>10, <1>11 DEF TaskNext, WorkerStep

\* While no worker dies and high verdicts come with findings, the execution of
\* a task keeps the contract of the API: it is decided at most once, and its
\* outcome respects the decision (ADR-011:20-29, ADR-016:87-93).
THEOREM ContractIsImplemented ==
    ReviewsAreSound /\ MaxCrashes = 0 => (TaskSpec => ContractHolds)
<1> SUFFICES ASSUME ReviewsAreSound, MaxCrashes = 0 PROVE TaskSpec => ContractHolds
  OBVIOUS
<1> DEFINE Inv == SoundInv /\ TurnsInv /\ ReviewInv /\ VerdictInv
<1>1. TaskSpec => []Inv
  BY ThreadsStaySound, TurnsInvariant, ReviewInvariant, VerdictInvariant, PTL
<1>2. Inv => Recorded
  BY VerdictsAreRecorded DEF SoundInv, ReviewInv
<1>3. Inv' => Recorded'
  BY <1>2, PTL
<1>4. Inv /\ Inv' /\ [TaskNext]_allVars => [Contract!Next]_Contract!vars
  BY <1>2, <1>3, ContractNext
<1> HIDE DEF Inv
<1> QED
  BY <1>1, <1>4, ContractInit, PTL DEF TaskSpec, ContractHolds, Contract!Spec
=============================================================================
