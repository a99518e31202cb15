------------------------- MODULE IssueAnalysisProofs -------------------------
(***************************************************************************)
(* Theorems about the analysis of GitHub issues (IssueAnalysis with        *)
(* IssueSpec), for any number of tasks, jobs and workers, of attempts and  *)
(* of crashes.  They rest on what JobQueueProofs shows of the queue.       *)
(***************************************************************************)
EXTENDS IssueAnalysis, JobQueueProofs, SequenceTheorems

-----------------------------------------------------------------------------
(* The queue.                                                              *)

\* The status that the start of the workflow writes is the one thing a handler
\* does that the queue does not know.
Enters(w) ==
    /\ pc[w] = "working"
    /\ task' = task \/ task' = [task EXCEPT ![Task(w)] = "ANALYZING"]
    /\ UNCHANGED <<rowVars, runVars, workerVars, boundVars>>

LEMMA IssueStepsQueue ==
    [IssueNext]_allVars => [Next]_vars \/ \E w \in Workers : Enters(w)
<1> SUFFICES ASSUME [IssueNext]_allVars PROVE [Next]_vars \/ \E w \in Workers : Enters(w)
  OBVIOUS
<1>1. ASSUME NEW j \in Jobs, AcceptIssue(j) \/ DecideReview(j) \/ LapseOfLease(j) PROVE Next
  BY <1>1 DEF AcceptIssue, DecideReview, LapseOfLease, Next
<1>2. ASSUME NEW w \in Workers,
             \/ PollQueue(w) \/ ReapJobs(w) \/ BeginHandler(w) \/ StartAgent(w)
             \/ CompleteAgent(w) \/ FailAgent(w) \/ CompleteUnheard(w) \/ LoseWrite(w)
      PROVE  Next
  BY <1>2 DEF PollQueue, ReapJobs, BeginHandler, StartAgent, CompleteAgent, FailAgent,
              CompleteUnheard, LoseWrite, Next, Iterate
<1>3. ASSUME NEW w \in Workers,
             \/ ApplyResult(w) \/ HandlerRaises(w) \/ LeaveHandler(w) \/ CrashWorker(w)
      PROVE  Next
  BY <1>3 DEF ApplyResult, HandlerRaises, LeaveHandler, CrashWorker, Next, Iterate
<1>4. ASSUME NEW w \in Workers,
             \/ StoreAnalysis(w) \/ StoreBundle(w) \/ StartUnheard(w)
             \/ StoreFails(w) \/ RejectFindings(w)
      PROVE  UNCHANGED vars
  BY <1>4 DEF StoreAnalysis, StoreBundle, StartUnheard, StoreFails, RejectFindings
<1>5. ASSUME NEW w \in Workers, EnterWorkflow(w) PROVE Enters(w)
  BY <1>5 DEF EnterWorkflow, Enters, At
<1> QED
  BY <1>1, <1>2, <1>3, <1>4, <1>5 DEF IssueNext, WorkerStep, allVars

QueueHeld == QueueInv /\ AcceptedOnce

LEMMA QueueHeldInit == IssueInit => QueueHeld
  BY OwnerInvInit, AcceptedOnceFirst DEF IssueInit, Init, QueueHeld, QueueInv

LEMMA QueueHeldNext == QueueHeld /\ [IssueNext]_allVars => QueueHeld'
<1> SUFFICES ASSUME QueueHeld, [IssueNext]_allVars PROVE QueueHeld'
  OBVIOUS
<1>0. Held /\ TaskOf \in [Jobs -> Tasks]
  BY JobsAreHeld, ConstantsOK DEF QueueHeld
<1>1. CASE [Next]_vars
  <2>1. OwnerInv' /\ AcceptedOnce'
    BY <1>1, OwnerInvNext, AcceptedOnceKept DEF QueueHeld, QueueInv
  <2>2. stalls' = 0
    BY <2>1, IssueConstantsOK DEF OwnerInv, RowInv, TypeOK
  <2> QED
    BY <2>1, <2>2 DEF QueueHeld, QueueInv
<1>2. ASSUME NEW w \in Workers, Enters(w) PROVE QueueHeld'
  <2>1. UNCHANGED <<status, attempts, lockedBy, lease, createdAt, run, orphans, pc, cur, loaded, crashes, stalls>>
    BY <1>2 DEF Enters, rowVars, runVars, workerVars, boundVars
  <2>2. task' \in [Tasks -> Waiting \cup {"NONE", "HUMAN_REVIEW", "SETTLED", "FAILED"}]
    BY <1>0, <1>2 DEF Enters, Held, Waiting
  <2>3. TypeOK'
    BY <2>1, <2>2 DEF QueueHeld, QueueInv, OwnerInv, RowInv, TypeOK
  <2>4. OwnerInv'
    BY <2>1, <2>3 DEF QueueHeld, QueueInv, OwnerInv, RowInv, LeaseTracksRunning, LeaseColumn,
          ReadFinal, ReadHeld, AttemptLeft, ClaimsDisjoint, AbsentIsFresh, OneExecutor, LiveLease,
          Executes
  <2>5. \A t \in Tasks : task'[t] = "NONE" => task[t] = "NONE"
    BY <1>0, <1>2 DEF Enters, Held
  <2> QED
    BY <1>0, <2>1, <2>4, <2>5 DEF QueueHeld, QueueInv, AcceptedOnce
<1> QED
  BY <1>1, <1>2, IssueStepsQueue

LEMMA QueueIsHeld == IssueSpec => []QueueHeld
  BY QueueHeldInit, QueueHeldNext, PTL DEF IssueSpec

LEMMA JobsStayHeld == QueueHeld /\ [IssueNext]_allVars => Held /\ Held'
<1>1. QueueInv' => Held'
  BY JobsAreHeld, PTL
<1> QED
  BY <1>1, JobsAreHeld, QueueHeldNext DEF QueueHeld

-----------------------------------------------------------------------------
(* The rows of agent_runs.                                                 *)

Fates == {"working", "done", "raised", "lost", "unwritten"}
Rows  == [task : Tasks, status : {"STARTED", "SUCCEEDED", "FAILED", "ABANDONED"},
          agent : Fates]

\* The row of an agent at work can still become either end's.
Sound(r) == Told(r) /\ (r.agent = "working" => r.status \in {"STARTED", "ABANDONED"})

\* TrailIsTruthful is not inductive: it says nothing of an agent at work, nor
\* of who will write its row.
TrailInv ==
    /\ runs \in Seq(Rows) /\ mine \in [Workers -> Nat]
    /\ \A w \in Workers : mine[w] # 0 =>
         mine[w] \in 1..Len(runs) /\ runs[mine[w]].agent = "working"
    /\ \A v, w \in Workers : mine[v] # 0 /\ mine[v] = mine[w] => v = w
    /\ \A i \in 1..Len(runs) : Sound(runs[i])

LEMMA TrailInvInit == IssueInit => TrailInv
<1> SUFFICES ASSUME IssueInit PROVE TrailInv
  OBVIOUS
<1>1. runs = <<>> /\ runs \in Seq(Rows) /\ Len(runs) = 0
  BY DEF IssueInit
<1> QED
  BY <1>1 DEF IssueInit, TrailInv
\* A row is inserted, with its lifecycle at work or not.
LEMMA RowIsInserted ==
    ASSUME TrailInv, NEW t \in Tasks, NEW w \in Workers, NEW fate \in {"working", "raised"},
           runs' = Append(runs, [task |-> t, status |-> "STARTED", agent |-> fate]),
           \/ mine' = mine
           \/ fate = "working" /\ mine' = [mine EXCEPT ![w] = Len(runs')]
    PROVE  TrailInv'
<1> DEFINE new == [task |-> t, status |-> "STARTED", agent |-> fate]
<1>0. PICK n \in Nat : n = Len(runs)
  BY LenProperties DEF TrailInv
<1>1. new \in Rows
  BY DEF Rows, Fates
<1>2. /\ runs' \in Seq(Rows) /\ Len(runs') = n + 1 /\ runs'[n + 1] = new
      /\ \A i \in 1..n : runs'[i] = runs[i]
  BY <1>0, <1>1, AppendProperties DEF TrailInv
<1>3. \A i : i \in 1..Len(runs') <=> i \in 1..n \/ i = n + 1
  BY <1>2
<1>4. /\ mine' \in [Workers -> Nat]
      /\ \A v \in Workers : mine'[v] = mine[v] \/ (v = w /\ mine'[v] = n + 1 /\ fate = "working")
  BY <1>2 DEF TrailInv
<1>5. \A v \in Workers : mine[v] # 0 => mine[v] \in 1..n
  BY <1>0 DEF TrailInv
<1>6. \A v \in Workers : mine'[v] # 0 => mine'[v] \in 1..Len(runs') /\ runs'[mine'[v]].agent = "working"
  BY <1>0, <1>2, <1>3, <1>4, <1>5 DEF TrailInv
<1>7. \A v \in Workers : mine[v] # n + 1
  BY <1>5
<1>8. \A v, u \in Workers : mine'[v] # 0 /\ mine'[v] = mine'[u] => v = u
  BY <1>4, <1>7 DEF TrailInv
<1>9. Sound(new)
  BY DEF Sound, Told
<1>10. \A i \in 1..Len(runs') : Sound(runs'[i])
  BY <1>0, <1>2, <1>3, <1>9 DEF TrailInv
<1> QED
  BY <1>2, <1>4, <1>6, <1>8, <1>10 DEF TrailInv

\* A lifecycle writes the row it holds, and forgets it.
LEMMA RowIsClosed ==
    ASSUME TrailInv, NEW w \in Workers, mine[w] # 0, NEW row \in Rows,
           runs' = [runs EXCEPT ![mine[w]] = row], mine' = [mine EXCEPT ![w] = 0],
           \/ row.status = "SUCCEEDED" /\ row.agent = "done"
           \/ row.status = "FAILED" /\ row.agent = "raised"
           \/ /\ row.status = runs[mine[w]].status
              /\ row.agent \in {"lost", "unwritten", "raised"}
    PROVE  TrailInv'
<1>0. PICK n \in Nat : n = Len(runs)
  BY LenProperties DEF TrailInv
<1>1. PICK m \in 1..n : m = mine[w] /\ runs[m].agent = "working"
  BY <1>0 DEF TrailInv
<1>2. runs' \in Seq(Rows) /\ Len(runs') = n
  BY <1>0, <1>1, ExceptSeq DEF TrailInv
<1>3. runs'[m] = row /\ \A i \in 1..n : i # m => runs'[i] = runs[i]
  BY <1>0, <1>1, ExceptSeq DEF TrailInv
<1>4. Sound(runs[m]) /\ runs[m].status \in {"STARTED", "ABANDONED"}
  BY <1>0, <1>1 DEF TrailInv, Sound
<1>5. /\ mine' \in [Workers -> Nat] /\ mine'[w] = 0
      /\ \A v \in Workers : v # w => mine'[v] = mine[v] /\ mine[v] # m
  BY <1>1 DEF TrailInv
<1>6. \A v \in Workers : mine'[v] # 0 => mine'[v] \in 1..Len(runs') /\ runs'[mine'[v]].agent = "working"
  BY <1>0, <1>2, <1>3, <1>5 DEF TrailInv
<1>7. Sound(row)
  BY <1>1, <1>4 DEF Sound, Told
<1>8. \A i \in 1..n : Sound(runs'[i])
  BY <1>0, <1>1, <1>3, <1>7 DEF TrailInv
<1> QED
  BY <1>2, <1>5, <1>6, <1>8 DEF TrailInv

LEMMA TrailInvNext == QueueHeld /\ TrailInv /\ [IssueNext]_allVars => TrailInv'
<1> SUFFICES ASSUME QueueHeld, TrailInv, [IssueNext]_allVars PROVE TrailInv'
  OBVIOUS
<1>0. Held /\ TaskOf \in [Jobs -> Tasks]
  BY JobsAreHeld, ConstantsOK DEF QueueHeld
<1>t. \A w \in Workers : pc[w] = "working" => Task(w) \in Tasks
  BY <1>0 DEF Held, Task, Executing
<1>r. \A w \in Workers : mine[w] # 0 => /\ runs[mine[w]] \in Rows
                                        /\ mine[w] \in 1..Len(runs) /\ DOMAIN runs = 1..Len(runs)
  BY ElementOfSeq, LenProperties DEF TrailInv
<1>1. ASSUME UNCHANGED runs,
             mine' = mine \/ \E w \in Workers : mine' = [mine EXCEPT ![w] = 0]
      PROVE  TrailInv'
  <2>1. mine' \in [Workers -> Nat] /\ \A v \in Workers : mine'[v] # 0 => mine'[v] = mine[v]
    BY <1>1 DEF TrailInv
  <2> QED
    BY <1>1, <2>1 DEF TrailInv
<1>2. ASSUME NEW w \in Workers, StartAgent(w) PROVE TrailInv'
  <2>1. Task(w) \in Tasks
    BY <1>2, <1>t DEF StartAgent, At
  <2> QED
    BY <1>2, <2>1, RowIsInserted DEF StartAgent
<1>3. ASSUME NEW w \in Workers, StartUnheard(w) PROVE TrailInv'
  <2>1. Task(w) \in Tasks
    BY <1>3, <1>t DEF StartUnheard, At
  <2> QED
    BY <1>3, <2>1, RowIsInserted DEF StartUnheard
<1>4. ASSUME NEW w \in Workers, CompleteAgent(w) \/ CompleteUnheard(w) PROVE TrailInv'
  <2> DEFINE row == [runs[mine[w]] EXCEPT !.status = "SUCCEEDED", !.agent = "done"]
  <2>1. /\ mine[w] # 0 /\ mine' = [mine EXCEPT ![w] = 0]
        /\ runs' = [runs EXCEPT ![mine[w]].status = Succeeded(@), ![mine[w]].agent = "done"]
    BY <1>4 DEF CompleteAgent, CompleteUnheard
  <2>2. runs' = [runs EXCEPT ![mine[w]] = row]
    BY <1>r, <2>1 DEF Succeeded
  <2>3. row \in Rows /\ row.status = "SUCCEEDED" /\ row.agent = "done"
    BY <1>r, <2>1 DEF Rows, Fates
  <2> QED
    BY <2>1, <2>2, <2>3, RowIsClosed
<1>5. ASSUME NEW w \in Workers, FailAgent(w) PROVE TrailInv'
  <2> DEFINE row == [runs[mine[w]] EXCEPT !.status = "FAILED", !.agent = "raised"]
  <2>1. /\ mine[w] # 0 /\ mine' = [mine EXCEPT ![w] = 0]
        /\ runs' = [runs EXCEPT ![mine[w]].status = "FAILED", ![mine[w]].agent = "raised"]
    BY <1>5 DEF FailAgent
  <2>2. runs' = [runs EXCEPT ![mine[w]] = row]
    BY <1>r, <2>1
  <2>3. row \in Rows /\ row.status = "FAILED" /\ row.agent = "raised"
    BY <1>r, <2>1 DEF Rows, Fates
  <2> QED
    BY <2>1, <2>2, <2>3, RowIsClosed
<1>6. ASSUME NEW w \in Workers, CrashWorker(w), mine[w] # 0 PROVE TrailInv'
  <2> DEFINE row == [runs[mine[w]] EXCEPT !.agent = "lost"]
  <2>1. /\ mine' = [mine EXCEPT ![w] = 0]
        /\ runs' = [runs EXCEPT ![mine[w]].agent = "lost"]
    BY <1>6 DEF CrashWorker, Forget
  <2>2. runs' = [runs EXCEPT ![mine[w]] = row]
    BY <1>r, <2>1, <1>6
  <2>3. row \in Rows /\ row.status = runs[mine[w]].status /\ row.agent = "lost"
    BY <1>r, <1>6 DEF Rows, Fates
  <2> QED
    BY <1>6, <2>1, <2>2, <2>3, RowIsClosed
<1>8. ASSUME NEW w \in Workers, LoseWrite(w) PROVE TrailInv'
  <2>1. PICK end \in {"unwritten", "raised"} :
          runs' = [runs EXCEPT ![mine[w]].agent = end]
    BY <1>8 DEF LoseWrite
  <2> DEFINE row == [runs[mine[w]] EXCEPT !.agent = end]
  <2>2. mine[w] # 0 /\ mine' = [mine EXCEPT ![w] = 0]
    BY <1>8 DEF LoseWrite
  <2>3. runs' = [runs EXCEPT ![mine[w]] = row]
    BY <1>r, <2>1, <2>2
  <2>4. row \in Rows /\ row.status = runs[mine[w]].status /\ row.agent = end
    BY <1>r, <2>2 DEF Rows, Fates
  <2> QED
    BY <2>2, <2>3, <2>4, RowIsClosed
<1>7. ASSUME NEW w \in Workers, ReapJobs(w) PROVE TrailInv'
  <2>0. PICK n \in Nat : n = Len(runs) /\ DOMAIN runs = 1..n
    BY LenProperties DEF TrailInv
  <2>1. /\ mine' = mine
        /\ runs' = [i \in 1..n |-> IF runs[i].task \in ReapedTasks /\ Abandons(runs[i])
                                   THEN [runs[i] EXCEPT !.status = "ABANDONED"] ELSE runs[i]]
    BY <1>7, <2>0 DEF ReapJobs
  <2>2. \A i \in 1..n : runs[i] \in Rows
    BY <2>0, ElementOfSeq DEF TrailInv
  <2>3. ASSUME NEW i \in 1..n
        PROVE  /\ runs'[i] \in Rows /\ runs'[i].agent = runs[i].agent
               /\ \/ runs'[i].status = runs[i].status
                  \/ runs[i].status = "STARTED" /\ runs'[i].status = "ABANDONED"
    BY <2>1, <2>2 DEF Abandons, Rows
  <2>4. runs' \in Seq(Rows) /\ Len(runs') = n
    <3>1. runs' \in [1..n -> Rows]
      BY <2>1, <2>3
    <3> QED
      BY <3>1, SeqDef, LenProperties
  <2>5. ASSUME NEW i \in 1..n PROVE Sound(runs'[i])
    <3>1. Sound(runs[i])
      BY <2>0 DEF TrailInv
    <3> QED
      BY <2>2, <2>3, <3>1 DEF Sound, Told, Rows
  <2> QED
    BY <2>0, <2>1, <2>3, <2>4, <2>5 DEF TrailInv
<1> QED
  <2>1. ASSUME NEW j \in Jobs, AcceptIssue(j) \/ DecideReview(j) \/ LapseOfLease(j)
        PROVE  UNCHANGED <<runs, mine>>
    BY <2>1 DEF AcceptIssue, DecideReview, LapseOfLease, issueVars
  <2>2. ASSUME NEW w \in Workers,
               \/ PollQueue(w) \/ BeginHandler(w) \/ StoreAnalysis(w) \/ StoreBundle(w)
               \/ EnterWorkflow(w) \/ ApplyResult(w) \/ RejectFindings(w) \/ HandlerRaises(w)
               \/ StoreFails(w)
        PROVE  UNCHANGED <<runs, mine>>
    BY <2>2 DEF PollQueue, BeginHandler, StoreAnalysis, StoreBundle, EnterWorkflow, ApplyResult,
                RejectFindings, HandlerRaises, StoreFails, issueVars
  <2>3. ASSUME NEW w \in Workers, LeaveHandler(w) \/ (CrashWorker(w) /\ mine[w] = 0)
        PROVE  UNCHANGED runs /\ mine' = [mine EXCEPT ![w] = 0]
    BY <2>3 DEF LeaveHandler, CrashWorker, Forget
  <2>4. CASE UNCHANGED allVars
    BY <1>1, <2>4 DEF allVars, issueVars
  <2> QED
    BY <1>1, <1>2, <1>3, <1>4, <1>5, <1>6, <1>7, <1>8, <2>1, <2>2, <2>3, <2>4
       DEF IssueNext, WorkerStep

\* The rows of agent_runs tell what became of the agents, whatever the reaper
\* and the lifecycles write at the same time (jobs.py:154-164, audit.py:69-114).
THEOREM RunsAreTold == IssueSpec => []TrailIsTruthful
<1>1. TrailInv => TrailIsTruthful
  BY DEF TrailInv, Sound, TrailIsTruthful
<1> QED
  BY <1>1, TrailInvInit, TrailInvNext, QueueIsHeld, PTL DEF IssueSpec

-----------------------------------------------------------------------------
(* What the recovery of an analysis finds.                                 *)

Analyses(j) == Kind[j] = "ANALYZE_GITHUB_ISSUE"
Blank(t)    == analysis[t] = 0 /\ bundle[t] = 0 /\ thread[t] = 0

Stages == {"none", "analyse", "analysed", "bundle", "enter", "graph", "stopped", "error"}

StoreTypes ==
    /\ step \in [Workers -> Stages] /\ draft \in [Workers -> Nat]
    /\ analysis \in [Tasks -> Nat] /\ bundle \in [Tasks -> Nat]
    /\ thread \in [Tasks -> Nat]

\* The three commits of a task, each made of the one before it.
CommitsAgree ==
    \A t \in Tasks : /\ bundle[t] # 0 => bundle[t] = analysis[t]
                     /\ thread[t] # 0 => thread[t] = bundle[t]

\* Nothing is written before the first attempt of a task's analysis starts.
BlankRows ==
    /\ \A j \in Jobs : status[j] = "RUNNING" => attempts[j] > 0
    /\ \A j \in Jobs : Analyses(j) /\ status[j] # "ABSENT" /\ attempts[j] = 0
                         => Blank(TaskOf[j])
    /\ \A w \in Workers : pc[w] = "started" /\ Analyses(cur[w]) /\ attempts[cur[w]] = 1
                            => Blank(Task(w))

FirstAttemptIsBlank == BlankRows /\ \A t \in Tasks : task[t] = "NONE" => Blank(t)

\* What is written of its task when a handler is at work.
StageOf(w) ==
    /\ At(w, "analyse") \/ At(w, "analysed") \/ At(w, "bundle") =>
         Analyses(cur[w]) /\ bundle[Task(w)] = 0 /\ thread[Task(w)] = 0
    /\ At(w, "analysed") => draft[w] # 0
    /\ At(w, "bundle") => draft[w] # 0 /\ analysis[Task(w)] = draft[w]
    /\ At(w, "enter") => Analyses(cur[w]) /\ bundle[Task(w)] # 0

StageInv ==
    /\ StoreTypes /\ CommitsAgree /\ FirstAttemptIsBlank
    /\ \A w \in Workers : StageOf(w)

LEMMA LoneAnalysis ==
    ASSUME QueueHeld, NEW v \in Workers, NEW w \in Workers,
           pc[v] \in Executing, pc[w] \in Executing,
           Analyses(cur[v]), Analyses(cur[w]), Task(v) = Task(w)
    PROVE  v = w
<1>1. Held
  BY JobsAreHeld DEF QueueHeld
<1>2. cur[v] = cur[w]
  BY <1>1 DEF Held, QueueHeld, AcceptedOnce, Analyses, Task
<1> QED
  BY <1>1, <1>2 DEF Held

\* A step of the queue leaves the first attempt of an analysis blank.
LEMMA FirstAttemptKept ==
    ASSUME QueueHeld, FirstAttemptIsBlank, [Next]_vars, UNCHANGED <<analysis, bundle, thread>>
    PROVE  FirstAttemptIsBlank'
<1>0. Held /\ TaskOf \in [Jobs -> Tasks]
  BY JobsAreHeld, ConstantsOK DEF QueueHeld
<1>1. attempts \in [Jobs -> Nat] /\ AbsentIsFresh
  BY ConstantsOK DEF QueueHeld, QueueInv, OwnerInv, RowInv, TypeOK
<1>2. \A t \in Tasks : Blank(t)' <=> Blank(t)
  BY DEF Blank
<1>3. \A t \in Tasks : task'[t] = "NONE" => Blank(t)'
  BY <1>2, RowsStay DEF QueueHeld, FirstAttemptIsBlank
<1>b. BlankRows
  BY DEF FirstAttemptIsBlank
<1> USE <1>0, <1>b DEF Held, Executing, Analyses, Task
<1>4. ASSUME UNCHANGED attempts,
             \A j \in Jobs : /\ status'[j] = "RUNNING" => status[j] = "RUNNING"
                             /\ status'[j] # "ABSENT" => status[j] # "ABSENT",
             \A v \in Workers : pc'[v] = "started" => pc[v] = "started" /\ cur'[v] = cur[v]
      PROVE  BlankRows'
  <2>1. \A j \in Jobs : status'[j] = "RUNNING" => attempts'[j] > 0
    BY <1>4 DEF BlankRows
  <2>2. \A j \in Jobs : Analyses(j) /\ status'[j] # "ABSENT" /\ attempts'[j] = 0
                         => Blank(TaskOf[j])'
    BY <1>2, <1>4 DEF BlankRows
  <2>3. ASSUME NEW v \in Workers, pc'[v] = "started", Analyses(cur'[v]), attempts'[cur'[v]] = 1
        PROVE  Blank(TaskOf[cur[v]])'
    <3>1. pc[v] = "started" /\ cur'[v] = cur[v] /\ cur[v] \in Jobs
      BY <1>4, <2>3
    <3>2. Blank(TaskOf[cur[v]])
      BY <1>4, <2>3, <3>1 DEF BlankRows
    <3>3. TaskOf[cur'[v]] = TaskOf[cur[v]] /\ TaskOf[cur[v]] \in Tasks
      BY <3>1
    <3> QED
      BY <3>2, <3>3 DEF Blank
  <2> QED
    BY <2>1, <2>2, <2>3 DEF BlankRows
<1>5. ASSUME NEW j \in Jobs, Accept(j) \/ ClaimReview(j) PROVE BlankRows'
  <2>1. UNCHANGED <<attempts, pc, cur>> /\ status' = [status EXCEPT ![j] = "QUEUED"]
    BY <1>5 DEF Accept, ClaimReview, NewJob, workerVars
  <2>2. Analyses(j) => Blank(TaskOf[j])
    BY <1>5 DEF Accept, ClaimReview, FirstAttemptIsBlank
  <2> QED
    BY <1>2, <2>1, <2>2 DEF BlankRows
<1>6. ASSUME NEW w \in Workers, ClaimCommit(w) PROVE BlankRows'
  <2>1. /\ cur' = cur /\ pc' = [pc EXCEPT ![w] = "started"]
        /\ status' = [status EXCEPT ![cur[w]] = "RUNNING"]
        /\ attempts' = [attempts EXCEPT ![cur[w]] = attempts[cur[w]] + 1]
        /\ pc[w] = "claiming"
    BY <1>6 DEF ClaimCommit, Goto
  <2>2. cur[w] \in Jobs /\ status[cur[w]] = "QUEUED"
    BY <2>1
  <2>3. Analyses(cur[w]) /\ attempts[cur[w]] + 1 = 1 => Blank(TaskOf[cur[w]])
    BY <1>1, <2>2 DEF BlankRows
  <2>4. \A j \in Jobs : attempts'[j] = IF j = cur[w] THEN attempts[j] + 1 ELSE attempts[j]
    BY <1>1, <2>1
  <2>5. \A j \in Jobs : status'[j] = IF j = cur[w] THEN "RUNNING" ELSE status[j]
    BY <2>1
  <2>6. ASSUME NEW v \in Workers, pc'[v] = "started", Analyses(cur[v]), attempts'[cur[v]] = 1
        PROVE  Blank(TaskOf[cur[v]])
    <3>1. CASE v = w
      BY <1>1, <2>2, <2>3, <2>4, <2>6, <3>1
    <3>2. CASE v # w
      <4>1. pc[v] = "started" /\ cur[v] # cur[w] /\ cur[v] \in Jobs
        BY <2>1, <2>2, <2>6, <3>2
      <4> QED
        BY <2>4, <2>6, <4>1 DEF BlankRows
    <3> QED
      BY <3>1, <3>2
  <2> QED
    BY <1>1, <1>2, <2>1, <2>2, <2>4, <2>5, <2>6 DEF BlankRows
<1>7. ASSUME NEW w \in Workers, Reap(w) \/ FinishJob(w) PROVE BlankRows'
  <2>1. UNCHANGED attempts
    BY <1>7 DEF Reap, FinishJob
  <2>2. \A j \in Jobs : /\ status'[j] = "RUNNING" => status[j] = "RUNNING"
                        /\ status'[j] # "ABSENT" => status[j] # "ABSENT"
    <3>1. FinishJob(w) => status' = [status EXCEPT ![cur[w]] =
                             IF pc[w] = "finishing" THEN "SUCCEEDED" ELSE "FAILED"]
      BY JobsFinish DEF QueueHeld
    <3>2. FinishJob(w) => pc[w] \in {"finishing", "failing"}
      BY DEF FinishJob
    <3> QED
      BY <1>7, <3>1, <3>2 DEF Reap, Expired, Dead, Requeued
  <2>3. \A v \in Workers : pc'[v] = "started" => pc[v] = "started" /\ cur'[v] = cur[v]
    BY <1>7 DEF Reap, FinishJob, Goto
  <2> HIDE <1>0, <1>b DEF Held, Executing, Analyses, Task
  <2> QED
    BY <1>4, <2>1, <2>2, <2>3
<1>8. ASSUME UNCHANGED <<status, attempts>>,
             \A v \in Workers : pc'[v] = "started" => pc[v] = "started" /\ cur'[v] = cur[v]
      PROVE  BlankRows'
  BY <1>4, <1>8
<1>9. ASSUME NEW w \in Workers,
             \/ ClaimLock(w) \/ ClaimNothing(w) \/ Begin(w) \/ StartRun(w) \/ EndRun(w)
             \/ Settle(w) \/ Raise(w) \/ Return(w) \/ LoadJob(w) \/ MarkTaskFailed(w)
             \/ Renew(w) \/ Crash(w)
      PROVE  BlankRows'
  <2>1. UNCHANGED <<status, attempts>>
    BY <1>9 DEF ClaimLock, ClaimNothing, Begin, StartRun, EndRun, Settle, Raise, Return,
                LoadJob, MarkTaskFailed, Renew, Crash, rowVars
  <2>2. \A v \in Workers : pc'[v] = "started" => pc[v] = "started" /\ cur'[v] = cur[v]
    BY <1>9 DEF ClaimLock, ClaimNothing, Begin, StartRun, EndRun, Settle, Raise, Return,
                LoadJob, MarkTaskFailed, Renew, Crash, Goto, workerVars
  <2> QED
    BY <1>8, <2>1, <2>2
<1>10. ASSUME NEW j \in Jobs, LeaseLapses(j) PROVE BlankRows'
  BY <1>8, <1>10 DEF LeaseLapses, workerVars
<1>11. ASSUME UNCHANGED vars PROVE BlankRows'
  <2>1. UNCHANGED <<status, attempts, pc, cur>>
    BY <1>11 DEF vars, rowVars, workerVars
  <2> HIDE <1>0, <1>b DEF Held, Executing, Analyses, Task
  <2>2. \A v \in Workers : pc'[v] = "started" => pc[v] = "started" /\ cur'[v] = cur[v]
    BY <2>1
  <2> QED
    BY <1>8, <2>1, <2>2
<1> QED
  BY <1>3, <1>5, <1>6, <1>7, <1>9, <1>10, <1>11 DEF Next, Iterate, FirstAttemptIsBlank

\* ... and so does a commit of the handler of an analysis.
LEMMA BlankElsewhere ==
    ASSUME QueueHeld, FirstAttemptIsBlank,
           NEW w \in Workers, pc[w] = "working", Analyses(cur[w]),
           UNCHANGED <<status, attempts, pc, cur>>,
           task' = task \/ task' = [task EXCEPT ![Task(w)] = "ANALYZING"],
           \A t \in Tasks \ {Task(w)} : Blank(t) => Blank(t)'
    PROVE  FirstAttemptIsBlank'
<1>0. Held /\ TaskOf \in [Jobs -> Tasks] /\ AcceptedOnce /\ FirstAttemptIsBlank
  BY JobsAreHeld, ConstantsOK DEF QueueHeld
<1>1. cur[w] \in Jobs /\ status[cur[w]] = "RUNNING" /\ attempts[cur[w]] > 0 /\ Task(w) \in Tasks
  BY <1>0 DEF Held, Executing, Task, FirstAttemptIsBlank, BlankRows
<1>2. task[Task(w)] # "NONE"
  BY <1>0, <1>1 DEF AcceptedOnce, Task
<1>3. \A t \in Tasks : task'[t] = "NONE" => task[t] = "NONE" /\ t # Task(w)
  BY <1>0, <1>1, <1>2 DEF Held
<1>4. \A j \in Jobs : Analyses(j) /\ status[j] # "ABSENT" /\ TaskOf[j] = Task(w) => j = cur[w]
  BY <1>0, <1>1 DEF AcceptedOnce, Analyses, Task
<1>5. \A j \in Jobs : Analyses(j) /\ status[j] # "ABSENT" /\ attempts[j] = 0
                      => Blank(TaskOf[j])'
  <2>1. attempts[cur[w]] # 0
    BY <1>1
  <2> QED
    BY <1>0, <1>4, <2>1 DEF FirstAttemptIsBlank, BlankRows
<1>6. ASSUME NEW v \in Workers, pc[v] = "started", Analyses(cur[v]), attempts[cur[v]] = 1
      PROVE  Blank(TaskOf[cur[v]])'
  <2>1. v # w /\ pc[v] \in Executing /\ pc[w] \in Executing
    BY <1>6 DEF Executing
  <2>2. Task(v) # Task(w)
    BY <1>6, <2>1, LoneAnalysis
  <2>3. cur[v] \in Jobs /\ Blank(TaskOf[cur[v]])
    BY <1>0, <1>6, <2>1 DEF Held, FirstAttemptIsBlank, BlankRows, Task
  <2> QED
    BY <1>0, <2>2, <2>3 DEF Task
<1>7. \A t \in Tasks : task'[t] = "NONE" => Blank(t)'
  BY <1>0, <1>3 DEF FirstAttemptIsBlank
<1>8. BlankRows'
  <2>1. \A v \in Workers : pc'[v] = "started" /\ Analyses(cur'[v]) /\ attempts'[cur'[v]] = 1
                            => Blank(Task(v))'
    BY <1>6 DEF Blank, Task
  <2>2. \A j \in Jobs : status'[j] = "RUNNING" => attempts'[j] > 0
    BY <1>0 DEF FirstAttemptIsBlank, BlankRows
  <2> QED
    BY <1>5, <2>1, <2>2 DEF BlankRows
<1> QED
  BY <1>7, <1>8 DEF FirstAttemptIsBlank

\* A worker that has not moved in a handler is where it was.
LEMMA StageStays ==
    ASSUME NEW v \in Workers, StageOf(v), UNCHANGED <<analysis, bundle, thread>>,
           pc'[v] = "working" => /\ pc[v] = "working" /\ cur'[v] = cur[v]
                                 /\ step'[v] = step[v] /\ draft'[v] = draft[v]
    PROVE  StageOf(v)'
  BY DEF StageOf, At, Analyses, Task

LEMMA StageInvInit == IssueInit => StageInv
<1> SUFFICES ASSUME IssueInit PROVE StageInv
  OBVIOUS
<1>1. StoreTypes /\ CommitsAgree
  BY DEF IssueInit, StoreTypes, Stages, CommitsAgree
<1>2. FirstAttemptIsBlank
  BY ConstantsOK DEF IssueInit, Init, FirstAttemptIsBlank, BlankRows, Blank, Task
<1>3. \A w \in Workers : StageOf(w)
  BY DEF IssueInit, Init, StageOf, At
<1> QED
  BY <1>1, <1>2, <1>3 DEF StageInv

\* A step of the queue that no handler takes part in, or only to leave.
LEMMA StageInvQueue ==
    ASSUME QueueHeld, StageInv, [Next]_vars, UNCHANGED <<analysis, bundle, thread>>,
           step' \in [Workers -> Stages], draft' \in [Workers -> Nat],
           NEW w, \/ w \notin Workers
                  \/ pc'[w] # "working"
                  \/ StageOf(w)',
           \A v \in Workers \ {w} :
             pc'[v] = "working" => /\ pc[v] = "working" /\ cur'[v] = cur[v]
                                   /\ step'[v] = step[v] /\ draft'[v] = draft[v]
    PROVE  StageInv'
<1>1. StoreTypes' /\ CommitsAgree'
  BY DEF StageInv, StoreTypes, CommitsAgree
<1>2. FirstAttemptIsBlank'
  BY FirstAttemptKept DEF StageInv
<1>3. ASSUME NEW v \in Workers PROVE StageOf(v)'
  <2>1. CASE v # w
    BY <2>1, StageStays DEF StageInv
  <2>2. CASE v = w /\ pc'[v] # "working"
    BY <2>2 DEF StageOf, At
  <2> QED
    BY <2>1, <2>2
<1> QED
  BY <1>1, <1>2, <1>3 DEF StageInv

\* What a handler commits disturbs no other handler of an analysis.
LEMMA StageInvCommit ==
    ASSUME QueueHeld, StageInv, StoreTypes', CommitsAgree',
           NEW w \in Workers, pc[w] = "working", Analyses(cur[w]),
           UNCHANGED <<status, attempts, pc, cur>>,
           task' = task \/ task' = [task EXCEPT ![Task(w)] = "ANALYZING"],
           \A t \in Tasks \ {Task(w)} :
             analysis'[t] = analysis[t] /\ bundle'[t] = bundle[t] /\ thread'[t] = thread[t],
           \A v \in Workers \ {w} : step'[v] = step[v] /\ draft'[v] = draft[v],
           StageOf(w)'
    PROVE  StageInv'
<1>1. FirstAttemptIsBlank'
  <2>1. \A t \in Tasks \ {Task(w)} : Blank(t) => Blank(t)'
    BY DEF Blank
  <2> QED
    BY <2>1, BlankElsewhere DEF StageInv
<1>2. ASSUME NEW v \in Workers \ {w} PROVE StageOf(v)'
  <2>1. CASE pc[v] = "working" /\ Analyses(cur[v])
    <3>1. Task(v) # Task(w)
      BY <2>1, LoneAnalysis DEF Executing
    <3>2. Task(v) \in Tasks
      BY <2>1, JobsAreHeld, ConstantsOK DEF QueueHeld, Held, Executing, Task
    <3>3. StageOf(v)
      BY DEF StageInv
    <3> QED
      BY <3>1, <3>2, <3>3 DEF StageOf, At, Analyses, Task
  <2>2. CASE ~(pc[v] = "working" /\ Analyses(cur[v]))
    <3>1. StageOf(v)
      BY DEF StageInv
    <3> QED
      BY <2>2, <3>1 DEF StageOf, At, Analyses, Task
  <2> QED
    BY <2>1, <2>2
<1> QED
  BY <1>1, <1>2 DEF StageInv

LEMMA StageInvNext == QueueHeld /\ TrailInv /\ StageInv /\ [IssueNext]_allVars => StageInv'
<1> SUFFICES ASSUME QueueHeld, TrailInv, StageInv, [IssueNext]_allVars PROVE StageInv'
  OBVIOUS
<1>0. /\ Held /\ TaskOf \in [Jobs -> Tasks]
      /\ \A w \in Workers : StageOf(w)
  BY JobsAreHeld, ConstantsOK DEF QueueHeld, StageInv
<1>t. \A w \in Workers : pc[w] = "working" => Task(w) \in Tasks
  BY <1>0 DEF Held, Task, Executing
<1> USE DEF Stages, taskVars
<1>1. ASSUME NEW j \in Jobs, AcceptIssue(j) \/ DecideReview(j) \/ LapseOfLease(j)
      PROVE  StageInv'
  <2>1. [Next]_vars /\ UNCHANGED <<analysis, bundle, thread, step, draft, pc, cur>>
    BY <1>1 DEF AcceptIssue, DecideReview, LapseOfLease, Next, issueVars, Accept, ClaimReview,
                NewJob, LeaseLapses, workerVars
  <2>2. StoreTypes
    BY DEF StageInv
  <2>3. NoWorker \notin Workers
    BY ConstantsOK
  <2> QED
    BY <2>1, <2>2, <2>3, StageInvQueue DEF StoreTypes
<1>2. ASSUME NEW w \in Workers, PollQueue(w) \/ ReapJobs(w) PROVE StageInv'
  <2>1. [Next]_vars /\ UNCHANGED <<analysis, bundle, thread, step, draft>>
    BY <1>2 DEF PollQueue, ReapJobs, Next, Iterate, issueVars
  <2>2. /\ pc'[w] # "working"
        /\ \A v \in Workers \ {w} : pc'[v] = pc[v] /\ cur'[v] = cur[v]
    BY <1>0, <1>2 DEF Held, PollQueue, ReapJobs, ClaimLock, ClaimNothing, ClaimCommit, LoadJob,
                      FinishJob, Reap, Goto
  <2>3. StoreTypes
    BY DEF StageInv
  <2> QED
    BY <2>1, <2>2, <2>3, StageInvQueue DEF StoreTypes
<1>3. ASSUME NEW w \in Workers, ApplyResult(w) \/ HandlerRaises(w) PROVE StageInv'
  <2>1. [Next]_vars /\ UNCHANGED <<analysis, bundle, thread, step, draft>>
    BY <1>3 DEF ApplyResult, HandlerRaises, Next, Iterate, issueVars
  <2>2. /\ pc'[w] # "working"
        /\ \A v \in Workers \ {w} : pc'[v] = pc[v] /\ cur'[v] = cur[v]
    BY <1>0, <1>3 DEF Held, ApplyResult, HandlerRaises, Settle, Raise, Goto
  <2>3. StoreTypes
    BY DEF StageInv
  <2> QED
    BY <2>1, <2>2, <2>3, StageInvQueue DEF StoreTypes
<1>4. ASSUME NEW w \in Workers, LeaveHandler(w) \/ CrashWorker(w) PROVE StageInv'
  <2>1. [Next]_vars /\ UNCHANGED <<analysis, bundle, thread>>
    BY <1>4 DEF LeaveHandler, CrashWorker, Next, Iterate
  <2>2. step' = [step EXCEPT ![w] = "none"] /\ draft' = [draft EXCEPT ![w] = 0]
    BY <1>4 DEF LeaveHandler, CrashWorker, Forget, GoOn
  <2>3. /\ pc'[w] # "working"
        /\ \A v \in Workers \ {w} : pc'[v] = pc[v] /\ cur'[v] = cur[v]
    BY <1>0, <1>4 DEF Held, LeaveHandler, CrashWorker, Return, MarkTaskFailed, Crash, Goto
  <2>4. step' \in [Workers -> Stages] /\ draft' \in [Workers -> Nat]
    BY <2>2 DEF StageInv, StoreTypes
  <2>5. \A v \in Workers \ {w} : step'[v] = step[v] /\ draft'[v] = draft[v]
    BY <2>2 DEF StageInv, StoreTypes
  <2> QED
    BY <2>1, <2>3, <2>4, <2>5, StageInvQueue
<1>5. ASSUME NEW w \in Workers, BeginHandler(w) PROVE StageInv'
  <2>1. [Next]_vars /\ UNCHANGED <<analysis, bundle, thread, draft>> /\ UNCHANGED <<attempts, cur>>
    BY <1>5 DEF BeginHandler, Begin, rowVars, Next, Iterate
  <2>2. /\ step' = [step EXCEPT ![w] = IF Resumes(w) THEN "graph"
                                       ELSE IF Analysed(w) THEN "enter" ELSE "analyse"]
        /\ pc[w] = "started" /\ pc' = [pc EXCEPT ![w] = "working"]
    BY <1>5 DEF BeginHandler, GoOn, Begin, Goto
  <2>3. cur[w] \in Jobs /\ attempts[cur[w]] > 0 /\ attempts[cur[w]] \in Nat /\ Task(w) \in Tasks
    <3>1. cur[w] \in Jobs /\ status[cur[w]] = "RUNNING"
      BY <1>0, <2>2 DEF Held, Executing
    <3>2. attempts \in [Jobs -> Nat]
      BY ConstantsOK DEF QueueHeld, QueueInv, OwnerInv, RowInv, TypeOK
    <3> QED
      BY <1>0, <3>1, <3>2 DEF StageInv, FirstAttemptIsBlank, BlankRows, Task
  <2>4. step' \in [Workers -> Stages] /\ draft' \in [Workers -> Nat]
    BY <2>1, <2>2 DEF StageInv, StoreTypes
  <2>5. \A v \in Workers \ {w} : step'[v] = step[v] /\ draft'[v] = draft[v] /\ pc'[v] = pc[v]
    BY <1>0, <2>1, <2>2 DEF StageInv, StoreTypes, Held
  <2>6. step'[w] = IF Resumes(w) THEN "graph" ELSE IF Analysed(w) THEN "enter" ELSE "analyse"
    BY <2>2 DEF StageInv, StoreTypes
  <2>7. ~Resumes(w) => Analyses(cur[w])
    BY <2>3, IssueConstantsOK DEF Resumes, Analyses
  <2>8. ~Resumes(w) /\ ~Analysed(w) => bundle[Task(w)] = 0 /\ thread[Task(w)] = 0
    <3>1. CASE attempts[cur[w]] = 1 /\ ~Resumes(w)
      BY <2>2, <2>7, <3>1 DEF StageInv, FirstAttemptIsBlank, BlankRows, Blank
    <3>2. CASE attempts[cur[w]] > 1
      BY <2>3, <3>2 DEF Analysed, StageInv, CommitsAgree
    <3> QED
      BY <2>3, <3>1, <3>2
  <2>9. StageOf(w)'
    <3>1. UNCHANGED <<bundle, thread>>
      BY <2>1 DEF taskVars
    <3> QED
      BY <2>1, <2>6, <2>7, <2>8, <3>1 DEF StageOf, At, Analyses, Task, Analysed
  <2> QED
    BY <2>1, <2>4, <2>5, <2>9, StageInvQueue
<1>6. ASSUME NEW w \in Workers, StartAgent(w) PROVE StageInv'
  <2>1. [Next]_vars /\ UNCHANGED <<analysis, bundle, thread, step, draft, pc, cur>>
    BY <1>6 DEF StartAgent, Next, StartRun, workerVars
  <2>2. StageOf(w)'
    BY <1>0, <2>1, StageStays
  <2>3. StoreTypes
    BY DEF StageInv
  <2> QED
    BY <2>1, <2>2, <2>3, StageInvQueue DEF StoreTypes
<1>7. ASSUME NEW w \in Workers,
             \/ StartUnheard(w) \/ FailAgent(w) \/ CompleteUnheard(w) \/ LoseWrite(w)
             \/ StoreFails(w) \/ RejectFindings(w)
      PROVE  StageInv'
  <2>1. [Next]_vars /\ UNCHANGED <<analysis, bundle, thread, draft, pc, cur>>
    BY <1>7 DEF StartUnheard, FailAgent, CompleteUnheard, LoseWrite, StoreFails, RejectFindings,
                Next, Iterate, EndRun, workerVars, vars
  <2>2. step' = [step EXCEPT ![w] = "error"]
    BY <1>7 DEF StartUnheard, FailAgent, CompleteUnheard, LoseWrite, StoreFails, RejectFindings,
                GoOn
  <2>3. step' \in [Workers -> Stages] /\ draft' \in [Workers -> Nat] /\ step'[w] = "error"
    BY <2>1, <2>2 DEF StageInv, StoreTypes
  <2>4. \A v \in Workers \ {w} : step'[v] = step[v]
    BY <2>2 DEF StageInv, StoreTypes
  <2>5. StageOf(w)'
    BY <2>3 DEF StageOf, At
  <2> QED
    BY <2>1, <2>3, <2>4, <2>5, StageInvQueue
<1>8. ASSUME NEW w \in Workers, CompleteAgent(w) PROVE StageInv'
  <2>1. [Next]_vars /\ UNCHANGED <<analysis, bundle, thread, pc, cur>> /\ pc[w] = "working" /\ mine[w] # 0
    BY <1>8 DEF CompleteAgent, Next, Iterate, EndRun, workerVars
  <2>2. \/ /\ step[w] = "analyse" /\ step' = [step EXCEPT ![w] = "analysed"]
           /\ draft' = [draft EXCEPT ![w] = mine[w]]
        \/ step' = [step EXCEPT ![w] = "stopped"] /\ draft' = draft
    BY <1>8 DEF CompleteAgent, GoOn
  <2>3. mine[w] \in Nat
    BY DEF TrailInv
  <2>4. step' \in [Workers -> Stages] /\ draft' \in [Workers -> Nat]
    BY <2>2, <2>3 DEF StageInv, StoreTypes
  <2>5. \A v \in Workers \ {w} : step'[v] = step[v] /\ draft'[v] = draft[v]
    BY <2>2 DEF StageInv, StoreTypes
  <2>6. \/ step[w] = "analyse" /\ step'[w] = "analysed" /\ draft'[w] # 0
        \/ step'[w] = "stopped"
    BY <2>1, <2>2 DEF StageInv, StoreTypes
  <2>7. StageOf(w)'
    BY <1>0, <2>1, <2>6 DEF StageOf, At, Analyses, Task, taskVars
  <2> QED
    BY <2>1, <2>4, <2>5, <2>7, StageInvQueue
<1>9. ASSUME NEW w \in Workers, StoreAnalysis(w) PROVE StageInv'
  <2>1. /\ pc[w] = "working" /\ step[w] = "analysed" /\ UNCHANGED vars
        /\ analysis' = [analysis EXCEPT ![Task(w)] = draft[w]]
        /\ step' = [step EXCEPT ![w] = "bundle"] /\ UNCHANGED <<draft, bundle, thread>>
    BY <1>9 DEF StoreAnalysis, At, GoOn
  <2>2. UNCHANGED <<status, attempts, pc, cur, task>>
    BY <2>1 DEF vars, rowVars, workerVars
  <2>3. /\ Analyses(cur[w]) /\ bundle[Task(w)] = 0 /\ thread[Task(w)] = 0 /\ draft[w] # 0
        /\ Task(w) \in Tasks
    BY <1>0, <1>t, <2>1 DEF StageOf, At
  <2>4. StoreTypes'
    BY <2>1 DEF StageInv, StoreTypes
  <2>5. /\ \A t \in Tasks \ {Task(w)} : analysis'[t] = analysis[t]
        /\ analysis'[Task(w)] = draft[w]
        /\ \A v \in Workers \ {w} : step'[v] = step[v]
        /\ step'[w] = "bundle"
    BY <2>1, <2>3 DEF StageInv, StoreTypes
  <2>6. CommitsAgree'
    BY <2>1, <2>3, <2>5 DEF StageInv, CommitsAgree
  <2>7. StageOf(w)'
    BY <2>1, <2>2, <2>3, <2>5 DEF StageOf, At, Analyses, Task
  <2> QED
    BY <2>1, <2>2, <2>3, <2>4, <2>5, <2>6, <2>7, StageInvCommit
<1>10. ASSUME NEW w \in Workers, StoreBundle(w) PROVE StageInv'
  <2>1. /\ pc[w] = "working" /\ step[w] = "bundle" /\ UNCHANGED vars
        /\ bundle' = [bundle EXCEPT ![Task(w)] = draft[w]]
        /\ step' = [step EXCEPT ![w] = "enter"] /\ UNCHANGED <<draft, analysis, thread>>
    BY <1>10 DEF StoreBundle, At, GoOn
  <2>2. UNCHANGED <<status, attempts, pc, cur, task>>
    BY <2>1 DEF vars, rowVars, workerVars
  <2>3. /\ Analyses(cur[w]) /\ thread[Task(w)] = 0 /\ draft[w] # 0
        /\ analysis[Task(w)] = draft[w] /\ Task(w) \in Tasks
    BY <1>0, <1>t, <2>1 DEF StageOf, At
  <2>4. StoreTypes'
    BY <2>1 DEF StageInv, StoreTypes
  <2>5. /\ \A t \in Tasks \ {Task(w)} : bundle'[t] = bundle[t]
        /\ bundle'[Task(w)] = draft[w]
        /\ \A v \in Workers \ {w} : step'[v] = step[v]
        /\ step'[w] = "enter"
    BY <2>1, <2>3 DEF StageInv, StoreTypes
  <2>6. CommitsAgree'
    BY <2>1, <2>3, <2>5 DEF StageInv, CommitsAgree
  <2>7. StageOf(w)'
    BY <2>1, <2>2, <2>3, <2>5 DEF StageOf, At, Analyses, Task
  <2> QED
    BY <2>1, <2>2, <2>3, <2>4, <2>5, <2>6, <2>7, StageInvCommit
<1>11. ASSUME NEW w \in Workers, EnterWorkflow(w) PROVE StageInv'
  <2>1. /\ pc[w] = "working" /\ step[w] = "enter"
        /\ Analyses(cur[w]) /\ bundle[Task(w)] # 0 /\ Task(w) \in Tasks
    BY <1>0, <1>t, <1>11 DEF EnterWorkflow, StageOf, At
  <2>2. /\ step' = [step EXCEPT ![w] = "graph"] /\ UNCHANGED <<draft, analysis, bundle>>
        /\ task' = [task EXCEPT ![Task(w)] = "ANALYZING"]
        /\ thread' = thread \/ thread' = [thread EXCEPT ![Task(w)] = bundle[Task(w)]]
    BY <1>11, <2>1 DEF EnterWorkflow, GoOn
  <2>3. UNCHANGED <<status, attempts, pc, cur>>
    BY <1>11 DEF EnterWorkflow, rowVars, workerVars
  <2>4. StoreTypes'
    BY <2>1, <2>2 DEF StageInv, StoreTypes
  <2>5. /\ \A t \in Tasks \ {Task(w)} : thread'[t] = thread[t]
        /\ thread'[Task(w)] = thread[Task(w)] \/ thread'[Task(w)] = bundle[Task(w)]
        /\ \A v \in Workers \ {w} : step'[v] = step[v]
        /\ step'[w] = "graph"
    BY <2>1, <2>2 DEF StageInv, StoreTypes
  <2>6. CommitsAgree'
    BY <2>1, <2>2, <2>5 DEF StageInv, CommitsAgree
  <2>7. StageOf(w)'
    BY <2>5 DEF StageOf, At
  <2> QED
    BY <2>1, <2>2, <2>3, <2>4, <2>5, <2>6, <2>7, StageInvCommit
<1>12. CASE UNCHANGED allVars
  <2>1. [Next]_vars /\ UNCHANGED <<analysis, bundle, thread, step, draft, pc, cur>>
    BY <1>12 DEF allVars, issueVars, vars, workerVars
  <2>2. StoreTypes
    BY DEF StageInv
  <2> QED
    BY <2>1, <2>2, ConstantsOK, StageInvQueue DEF StoreTypes
<1> QED
  BY <1>1, <1>2, <1>3, <1>4, <1>5, <1>6, <1>7, <1>8, <1>9, <1>10, <1>11, <1>12
     DEF IssueNext, WorkerStep

\* The workflow works on what the task shows, through crashes between any two
\* of the three commits (github_issues.py:228-268).
THEOREM ThreadsMatchTheirRows == IssueSpec => []ThreadMatchesRow
<1>1. StageInv => ThreadMatchesRow
  BY DEF StageInv, CommitsAgree, StoreTypes, ThreadMatchesRow
<1> QED
  BY <1>1, StageInvInit, StageInvNext, TrailInvInit, TrailInvNext, QueueIsHeld, PTL DEF IssueSpec

-----------------------------------------------------------------------------
(* Why a task fails.                                                       *)

\* Before the first crash a job is attempted once, and one that has been
\* claimed has its worker.
Uninterrupted ==
    crashes = 0 => \A j \in Jobs :
        /\ attempts[j] <= 1
        /\ status[j] = "QUEUED" => attempts[j] = 0
        /\ status[j] = "RUNNING" => \E w \in Workers : Executes(w, j)

\* No handler meets the findings of its thread in its first attempt.
FoundInv ==
    /\ found \in [Tasks -> {"UNKNOWN", "NONE", "SOME"}]
    /\ \A t \in Tasks : task[t] = "NONE" => found[t] = "UNKNOWN"
    /\ \A j \in Jobs : Analyses(j) /\ status[j] # "ABSENT" /\ attempts[j] = 0
                         => found[TaskOf[j]] = "UNKNOWN"
    /\ \A w \in Workers :
         pc[w] \in {"started", "working"} /\ Analyses(cur[w]) /\ attempts[cur[w]] = 1
           => found[Task(w)] = "UNKNOWN"

LEMMA FirstRunInit == IssueInit => Uninterrupted /\ FoundInv
  BY ConstantsOK DEF IssueInit, Init, Uninterrupted, FoundInv, Analyses, Task

LEMMA UninterruptedNext ==
    QueueHeld /\ Uninterrupted /\ [IssueNext]_allVars => Uninterrupted'
<1> SUFFICES ASSUME QueueHeld, Uninterrupted, [IssueNext]_allVars PROVE Uninterrupted'
  OBVIOUS
<1>0. /\ Held /\ attempts \in [Jobs -> Nat] /\ crashes \in Nat /\ OwnerInv /\ stalls = 0
      /\ AbsentIsFresh
  BY JobsAreHeld, ConstantsOK DEF QueueHeld, QueueInv, OwnerInv, RowInv, TypeOK
<1> USE <1>0 DEF Held, Executes, Executing, Uninterrupted
<1>1. ASSUME NEW w \in Workers, Crash(w) PROVE Uninterrupted'
  BY <1>1 DEF Crash
<1>2. ASSUME NEW j \in Jobs, Accept(j) \/ ClaimReview(j) \/ LeaseLapses(j) PROVE Uninterrupted'
  BY <1>2 DEF Accept, ClaimReview, NewJob, LeaseLapses, workerVars, boundVars, AbsentIsFresh
<1>3. ASSUME NEW w \in Workers, Reap(w) PROVE Uninterrupted'
  <2>1. crashes = 0 => Expired = {}
    BY DEF OwnerInv, LiveLease, Expired
  <2>2. crashes = 0 => status' = status
    BY <1>3, <2>1 DEF Reap, Dead, Requeued
  <2> QED
    BY <1>3, <2>2 DEF Reap, Goto, boundVars
<1>4. ASSUME NEW w \in Workers, ClaimCommit(w) PROVE Uninterrupted'
  BY <1>4 DEF ClaimCommit, Goto, boundVars
<1>5. ASSUME NEW w \in Workers, FinishJob(w) PROVE Uninterrupted'
  <2>1. status' = [status EXCEPT ![cur[w]] =
                     IF pc[w] = "finishing" THEN "SUCCEEDED" ELSE "FAILED"]
    BY <1>5, JobsFinish DEF QueueHeld
  <2> QED
    BY <1>5, <2>1 DEF FinishJob, Goto, boundVars
<1>6. ASSUME UNCHANGED <<status, attempts, crashes>>,
             \A v \in Workers : pc[v] \in Executing => pc'[v] \in Executing /\ cur'[v] = cur[v]
      PROVE  Uninterrupted'
  BY <1>6
<1>7. ASSUME NEW w \in Workers,
             \/ ClaimLock(w) \/ ClaimNothing(w) \/ Begin(w) \/ StartRun(w) \/ EndRun(w)
             \/ Settle(w) \/ Raise(w) \/ Return(w) \/ LoadJob(w) \/ MarkTaskFailed(w) \/ Renew(w)
      PROVE  Uninterrupted'
  <2>1. UNCHANGED <<status, attempts, crashes>>
    BY <1>7 DEF ClaimLock, ClaimNothing, Begin, StartRun, EndRun, Settle, Raise, Return,
                LoadJob, MarkTaskFailed, Renew, rowVars, boundVars
  <2>2. \A v \in Workers : pc[v] \in Executing => pc'[v] \in Executing /\ cur'[v] = cur[v]
    BY <1>7 DEF ClaimLock, ClaimNothing, Begin, StartRun, EndRun, Settle, Raise, Return,
                LoadJob, MarkTaskFailed, Renew, Goto, workerVars
  <2> QED
    BY <1>6, <2>1, <2>2
<1>8. ASSUME UNCHANGED vars \/ \E w \in Workers : Enters(w) PROVE Uninterrupted'
  <2>1. UNCHANGED <<status, attempts, crashes, pc, cur>>
    BY <1>8 DEF Enters, vars, rowVars, workerVars, boundVars
  <2> QED
    BY <1>6, <2>1
<1>9. [Next]_vars \/ \E w \in Workers : Enters(w)
  BY IssueStepsQueue
<1> QED
  <2> HIDE <1>0 DEF Held, Executes, Executing, Uninterrupted
  <2> QED
    BY <1>1, <1>2, <1>3, <1>4, <1>5, <1>7, <1>8, <1>9 DEF Next, Iterate

\* What a step does to the job of an analysis whose findings it leaves alone.
LEMMA FoundKept ==
    ASSUME QueueHeld, FoundInv, [Next]_vars \/ \E w \in Workers : Enters(w), UNCHANGED found
    PROVE  FoundInv'
<1>0. /\ Held /\ TaskOf \in [Jobs -> Tasks] /\ attempts \in [Jobs -> Nat] /\ AbsentIsFresh
      /\ AcceptedOnce /\ QueueInv
  BY JobsAreHeld, ConstantsOK DEF QueueHeld, QueueInv, OwnerInv, RowInv, TypeOK
<1>1. ASSUME UNCHANGED <<status, attempts>>, \A t \in Tasks : task'[t] = "NONE" => task[t] = "NONE",
             \A v \in Workers : pc'[v] \in {"started", "working"} =>
                                   pc[v] \in {"started", "working"} /\ cur'[v] = cur[v]
      PROVE  FoundInv'
  BY <1>1 DEF FoundInv, Analyses, Task
<1>n. \A t \in Tasks : task'[t] = "NONE" => task[t] = "NONE"
  <2>1. (\E w \in Workers : Enters(w)) => \A t \in Tasks : task'[t] = "NONE" => task[t] = "NONE"
    BY <1>0 DEF Enters, Held
  <2> QED
    BY <1>0, <2>1, RowsStay
<1>2. ASSUME NEW w \in Workers, Enters(w) PROVE FoundInv'
  BY <1>1, <1>2, <1>n DEF Enters, rowVars, workerVars
<1>3. ASSUME NEW j \in Jobs, Accept(j) \/ ClaimReview(j) PROVE FoundInv'
  <2>1. /\ UNCHANGED <<attempts, pc, cur>> /\ status' = [status EXCEPT ![j] = "QUEUED"]
        /\ Analyses(j) => found[TaskOf[j]] = "UNKNOWN"
    BY <1>0, <1>3 DEF Accept, ClaimReview, NewJob, workerVars, Analyses, FoundInv
  <2> QED
    BY <1>0, <1>n, <2>1 DEF FoundInv, Held, Analyses, Task
<1>4. ASSUME NEW w \in Workers, ClaimCommit(w) PROVE FoundInv'
  <2>1. /\ cur' = cur /\ pc' = [pc EXCEPT ![w] = "started"] /\ cur[w] \in Jobs
        /\ status' = [status EXCEPT ![cur[w]] = "RUNNING"] /\ status[cur[w]] = "QUEUED"
        /\ attempts' = [attempts EXCEPT ![cur[w]] = attempts[cur[w]] + 1]
    BY <1>0, <1>4 DEF ClaimCommit, Goto, Held
  <2>2. Analyses(cur[w]) /\ attempts[cur[w]] = 0 => found[TaskOf[cur[w]]] = "UNKNOWN"
    BY <2>1 DEF FoundInv
  <2>3. ASSUME NEW v \in Workers, pc'[v] \in {"started", "working"}, Analyses(cur[v]),
               attempts'[cur[v]] = 1
        PROVE  found[TaskOf[cur[v]]] = "UNKNOWN"
    <3>1. CASE v = w
      BY <1>0, <2>1, <2>2, <2>3, <3>1
    <3>2. CASE v # w
      <4>1. pc[v] \in {"started", "working"} /\ cur[v] # cur[w] /\ cur[v] \in Jobs
        BY <1>0, <2>1, <2>3, <3>2 DEF Held, Executing
      <4>2. attempts[cur[v]] = 1
        BY <1>0, <2>1, <2>3, <4>1
      <4> QED
        BY <2>3, <4>1, <4>2 DEF FoundInv, Task
    <3> QED
      BY <3>1, <3>2
  <2>4. \A j \in Jobs : Analyses(j)' /\ status'[j] # "ABSENT" /\ attempts'[j] = 0
                         => found[TaskOf[j]] = "UNKNOWN"
    BY <1>0, <2>1 DEF FoundInv, Held, Analyses
  <2> QED
    BY <1>n, <2>1, <2>3, <2>4 DEF FoundInv, Analyses, Task
<1>5. ASSUME NEW w \in Workers, Reap(w) \/ FinishJob(w) PROVE FoundInv'
  <2>1. \A j \in Jobs : status'[j] # "ABSENT" => status[j] # "ABSENT"
    <3>1. FinishJob(w) => status' = [status EXCEPT ![cur[w]] =
                             IF pc[w] = "finishing" THEN "SUCCEEDED" ELSE "FAILED"]
      BY <1>0, JobsFinish
    <3>2. FinishJob(w) => pc[w] \in {"finishing", "failing"}
      BY DEF FinishJob
    <3> QED
      BY <1>0, <1>5, <3>1, <3>2 DEF Held, Executing, Reap, Expired, Dead, Requeued
  <2>2. /\ UNCHANGED attempts
        /\ \A v \in Workers : pc'[v] \in {"started", "working"} =>
                              pc[v] \in {"started", "working"} /\ cur'[v] = cur[v]
    BY <1>0, <1>5 DEF Held, Reap, FinishJob, Goto
  <2> QED
    BY <1>n, <2>1, <2>2 DEF FoundInv, Analyses, Task
<1>6. ASSUME NEW w \in Workers,
             \/ ClaimLock(w) \/ ClaimNothing(w) \/ Begin(w) \/ StartRun(w) \/ EndRun(w)
             \/ Settle(w) \/ Raise(w) \/ Return(w) \/ LoadJob(w) \/ MarkTaskFailed(w)
             \/ Renew(w) \/ Crash(w)
      PROVE  FoundInv'
  <2>1. UNCHANGED <<status, attempts>>
    BY <1>6 DEF ClaimLock, ClaimNothing, Begin, StartRun, EndRun, Settle, Raise, Return,
                LoadJob, MarkTaskFailed, Renew, Crash, rowVars
  <2>2. \A v \in Workers : pc'[v] \in {"started", "working"} =>
                              pc[v] \in {"started", "working"} /\ cur'[v] = cur[v]
    BY <1>0, <1>6 DEF Held, ClaimLock, ClaimNothing, Begin, StartRun, EndRun, Settle, Raise, Return,
                      LoadJob, MarkTaskFailed, Renew, Crash, Goto, workerVars
  <2> QED
    BY <1>1, <1>n, <2>1, <2>2
<1>7. ASSUME UNCHANGED vars PROVE FoundInv'
  BY <1>1, <1>7, <1>n DEF vars, rowVars, workerVars
<1>8. ASSUME NEW j \in Jobs, LeaseLapses(j) PROVE FoundInv'
  BY <1>1, <1>8, <1>n DEF LeaseLapses, workerVars
<1> QED
  BY <1>2, <1>3, <1>4, <1>5, <1>6, <1>7, <1>8 DEF Next, Iterate

\* Only the outcome of a workflow stores findings.
LEMMA FoundStays ==
    [IssueNext]_allVars /\ (\A w \in Workers : ~ApplyResult(w)) => UNCHANGED found
<1> SUFFICES ASSUME [IssueNext]_allVars, \A w \in Workers : ~ApplyResult(w)
             PROVE  UNCHANGED found
  OBVIOUS
<1>1. ASSUME NEW j \in Jobs, AcceptIssue(j) \/ DecideReview(j) \/ LapseOfLease(j)
      PROVE  UNCHANGED found
  BY <1>1 DEF AcceptIssue, DecideReview, LapseOfLease, issueVars, taskVars
<1>2. ASSUME NEW w \in Workers,
             \/ PollQueue(w) \/ ReapJobs(w) \/ BeginHandler(w) \/ StartAgent(w)
             \/ CompleteAgent(w) \/ StoreAnalysis(w) \/ StoreBundle(w) \/ EnterWorkflow(w)
             \/ RejectFindings(w) \/ HandlerRaises(w) \/ LeaveHandler(w) \/ CrashWorker(w)
      PROVE  UNCHANGED found
  BY <1>2 DEF PollQueue, ReapJobs, BeginHandler, StartAgent, CompleteAgent, StoreAnalysis,
              StoreBundle, EnterWorkflow, RejectFindings, HandlerRaises, LeaveHandler,
              CrashWorker, issueVars, taskVars
<1>3. ASSUME NEW w \in Workers,
             \/ StartUnheard(w) \/ FailAgent(w) \/ CompleteUnheard(w) \/ LoseWrite(w)
             \/ StoreFails(w)
      PROVE  UNCHANGED found
  BY <1>3 DEF StartUnheard, FailAgent, CompleteUnheard, LoseWrite, StoreFails, taskVars
<1>4. UNCHANGED allVars => UNCHANGED found
  BY DEF allVars, issueVars, taskVars
<1> QED
  BY <1>1, <1>2, <1>3, <1>4 DEF IssueNext, WorkerStep

LEMMA FoundInvNext ==
    QueueHeld /\ StageInv /\ FoundInv /\ [IssueNext]_allVars => FoundInv'
<1> SUFFICES ASSUME QueueHeld, StageInv, FoundInv, [IssueNext]_allVars PROVE FoundInv'
  OBVIOUS
<1>1. ASSUME NEW w \in Workers, ApplyResult(w) PROVE FoundInv'
  <2>0. /\ Held /\ TaskOf \in [Jobs -> Tasks] /\ AcceptedOnce /\ BlankRows
        /\ attempts \in [Jobs -> Nat] /\ Kind \in [Jobs -> JobKinds]
    BY JobsAreHeld, ConstantsOK
       DEF QueueHeld, StageInv, FirstAttemptIsBlank, QueueInv, OwnerInv, RowInv, TypeOK
  <2>1. CASE Resumes(w)
    BY <1>1, <2>1, IssueStepsQueue, FoundKept DEF ApplyResult
  <2>2. CASE ~Resumes(w)
    <3>1. /\ pc[w] = "working" /\ pc' = [pc EXCEPT ![w] = "settled"]
          /\ UNCHANGED <<status, attempts, cur>>
          /\ \E s \in Outcomes(cur[w]) : task' = [task EXCEPT ![Task(w)] = s]
          /\ \E f \in {"NONE", "SOME"} : found' = [found EXCEPT ![Task(w)] = f]
      BY <1>1, <2>2 DEF ApplyResult, Settle, Goto, rowVars
    <3>2. /\ cur[w] \in Jobs /\ status[cur[w]] = "RUNNING" /\ attempts[cur[w]] > 0
          /\ Analyses(cur[w]) /\ Task(w) \in Tasks
      BY <2>0, <2>2, <3>1, IssueConstantsOK
         DEF Held, Executing, BlankRows, Analyses, Resumes, Task
    <3>3. found' \in [Tasks -> {"UNKNOWN", "NONE", "SOME"}]
          /\ \A t \in Tasks \ {Task(w)} : found'[t] = found[t]
      BY <3>1, <3>2 DEF FoundInv
    <3>4. \A t \in Tasks : task'[t] = "NONE" => task[t] = "NONE" /\ t # Task(w)
      BY <2>0, <3>1, <3>2 DEF Held, Outcomes
    <3>5. \A j \in Jobs : Analyses(j) /\ status[j] # "ABSENT" /\ TaskOf[j] = Task(w) => j = cur[w]
      BY <2>0, <3>2 DEF AcceptedOnce, Analyses, Task
    <3>6. ASSUME NEW j \in Jobs, Analyses(j), status[j] # "ABSENT", attempts[j] = 0
          PROVE  found'[TaskOf[j]] = "UNKNOWN"
      <4>1. TaskOf[j] # Task(w)
        BY <3>2, <3>5, <3>6
      <4> QED
        BY <2>0, <3>3, <3>6, <4>1 DEF FoundInv
    <3>7. ASSUME NEW v \in Workers, pc'[v] \in {"started", "working"}, Analyses(cur[v]),
                 attempts[cur[v]] = 1
          PROVE  found'[Task(v)] = "UNKNOWN"
      <4>1. v # w /\ pc[v] \in {"started", "working"}
        BY <2>0, <3>1, <3>7 DEF Held
      <4>2. Task(v) # Task(w) /\ Task(v) \in Tasks
        <5>1. pc[v] \in Executing /\ pc[w] \in Executing
          BY <3>1, <4>1 DEF Executing
        <5>2. cur[v] \in Jobs
          BY <2>0, <5>1 DEF Held
        <5> QED
          BY <2>0, <3>2, <3>7, <4>1, <5>1, <5>2, LoneAnalysis DEF Task
      <4> QED
        BY <3>3, <3>7, <4>1, <4>2 DEF FoundInv
    <3> QED
      BY <3>1, <3>3, <3>4, <3>6, <3>7 DEF FoundInv, Analyses, Task
  <2> QED
    BY <2>1, <2>2
<1> QED
  BY <1>1, FoundStays, IssueStepsQueue, FoundKept

\* A handler raises for a reason.
ReasonInv ==
    /\ faults \in Nat
    /\ \A w \in Workers : At(w, "error") \/ pc[w] = "raised"
                           => faults # 0 \/ StoredTwice(Task(w))
    /\ FailsForAReason

LEMMA ReasonInvInit == IssueInit => ReasonInv
  BY DEF IssueInit, Init, ReasonInv, At, FailsForAReason

\* A job that was given up is never claimed or written again.
LEMMA GivenUpStays ==
    ASSUME QueueHeld, [Next]_vars, NEW t \in Tasks, GivenUp(t) PROVE GivenUp(t)'
<1>0. Held
  BY JobsAreHeld DEF QueueHeld
<1>1. PICK j \in Jobs : TaskOf[j] = t /\ status[j] = "FAILED" /\ attempts[j] = MaxAttempts
  BY DEF GivenUp
<1>2. attempts \in [Jobs -> Nat]
  BY ConstantsOK DEF QueueHeld, QueueInv, OwnerInv, RowInv, TypeOK
<1> DEFINE Same == status'[j] = "FAILED" /\ attempts'[j] = MaxAttempts
<1> USE <1>0, <1>1, <1>2 DEF Held, Executing
<1>3. ASSUME NEW k \in Jobs, Accept(k) \/ ClaimReview(k) \/ LeaseLapses(k) PROVE Same
  BY <1>3 DEF Accept, ClaimReview, NewJob, LeaseLapses
<1>4. ASSUME NEW w \in Workers, Reap(w) \/ ClaimCommit(w) PROVE Same
  BY <1>4 DEF Reap, ClaimCommit, Expired, Dead, Requeued
<1>9. ASSUME NEW w \in Workers, FinishJob(w) PROVE Same
  <2>1. status' = [status EXCEPT ![cur[w]] =
                     IF pc[w] = "finishing" THEN "SUCCEEDED" ELSE "FAILED"]
    BY <1>9, JobsFinish DEF QueueHeld
  <2>2. cur[w] # j /\ attempts' = attempts
    BY <1>9 DEF FinishJob
  <2> QED
    BY <2>1, <2>2
<1>5. ASSUME UNCHANGED <<status, attempts>> PROVE Same
  BY <1>5
<1>6. ASSUME NEW w \in Workers,
             \/ ClaimLock(w) \/ ClaimNothing(w) \/ Begin(w) \/ StartRun(w) \/ EndRun(w)
             \/ Settle(w) \/ Raise(w) \/ Return(w) \/ LoadJob(w) \/ MarkTaskFailed(w)
             \/ Renew(w) \/ Crash(w)
      PROVE  UNCHANGED <<status, attempts>>
  BY <1>6 DEF ClaimLock, ClaimNothing, Begin, StartRun, EndRun, Settle, Raise, Return,
              LoadJob, MarkTaskFailed, Renew, Crash, rowVars
<1>7. UNCHANGED vars => UNCHANGED <<status, attempts>>
  BY DEF vars, rowVars
<1>8. Same
  <2> HIDE DEF Same
  <2> QED
    BY <1>3, <1>4, <1>5, <1>6, <1>7, <1>9 DEF Next, Iterate
<1> QED
  BY <1>8 DEF GivenUp

\* Findings stay, and so does what made them be stored again.
LEMMA StoredTwiceStays ==
    ASSUME QueueHeld, FoundInv, [IssueNext]_allVars, NEW t \in Tasks, StoredTwice(t)
    PROVE  StoredTwice(t)'
<1>0. /\ attempts \in [Jobs -> Nat] /\ crashes \in Nat /\ found \in [Tasks -> {"UNKNOWN", "NONE", "SOME"}]
      /\ Held
  BY JobsAreHeld, ConstantsOK DEF QueueHeld, QueueInv, OwnerInv, RowInv, TypeOK, FoundInv
<1>1. ASSUME NEW w \in Workers, ApplyResult(w) PROVE found'[t] = "SOME"
  BY <1>0, <1>1 DEF ApplyResult, StoredTwice
<1>2. (\A w \in Workers : ~ApplyResult(w)) => found'[t] = "SOME"
  BY FoundStays DEF StoredTwice
<1>3. crashes' >= crashes /\ \A j \in Jobs : attempts'[j] >= attempts[j]
  <2>1. ASSUME NEW w \in Workers, Enters(w) \/ UNCHANGED vars PROVE UNCHANGED <<attempts, crashes>>
    BY <2>1 DEF Enters, vars, rowVars, boundVars
  <2>2. ASSUME NEW j \in Jobs, Accept(j) \/ ClaimReview(j) \/ LeaseLapses(j)
        PROVE  UNCHANGED <<attempts, crashes>>
    BY <2>2 DEF Accept, ClaimReview, NewJob, LeaseLapses, boundVars
  <2>3. ASSUME NEW w \in Workers,
               \/ Reap(w) \/ ClaimLock(w) \/ ClaimNothing(w) \/ Begin(w) \/ StartRun(w) \/ EndRun(w)
               \/ Settle(w) \/ Raise(w) \/ Return(w) \/ LoadJob(w) \/ MarkTaskFailed(w)
               \/ FinishJob(w) \/ Renew(w)
        PROVE  UNCHANGED <<attempts, crashes>>
    BY <2>3 DEF Reap, ClaimLock, ClaimNothing, Begin, StartRun, EndRun, Settle, Raise, Return,
                LoadJob, MarkTaskFailed, FinishJob, Renew, rowVars, boundVars
  <2>4. ASSUME NEW w \in Workers, Crash(w) PROVE attempts' = attempts /\ crashes' = crashes + 1
    BY <2>4 DEF Crash, rowVars
  <2>5. ASSUME NEW w \in Workers, ClaimCommit(w)
        PROVE  crashes' = crashes /\ \A j \in Jobs : attempts'[j] \in {attempts[j], attempts[j] + 1}
    BY <1>0, <2>5 DEF ClaimCommit, boundVars
  <2>6. UNCHANGED vars => UNCHANGED <<attempts, crashes>>
    BY DEF vars, rowVars, boundVars
  <2> DEFINE Grown == crashes' >= crashes /\ \A j \in Jobs : attempts'[j] >= attempts[j]
  <2>7. UNCHANGED <<attempts, crashes>> => Grown
    BY <1>0
  <2>8. ASSUME NEW w \in Workers, Crash(w) \/ ClaimCommit(w) PROVE Grown
    BY <1>0, <2>4, <2>5, <2>8
  <2> HIDE DEF Grown
  <2>9. Grown
    BY <2>1, <2>2, <2>3, <2>6, <2>7, <2>8, IssueStepsQueue DEF Next, Iterate
  <2> QED
    BY <2>9 DEF Grown
<1>4. attempts' \in [Jobs -> Nat] /\ crashes' \in Nat
  <2>1. QueueHeld'
    BY QueueHeldNext
  <2> QED
    BY <2>1, ConstantsOK DEF QueueHeld, QueueInv, OwnerInv, RowInv, TypeOK
<1>5. found'[t] = "SOME"
  BY <1>1, <1>2
<1>6. PICK j \in Jobs : TaskOf[j] = t /\ Kind[j] = "ANALYZE_GITHUB_ISSUE" /\ attempts[j] > 1
  BY DEF StoredTwice
<1>7. attempts'[j] > 1 /\ crashes' > 0
  <2>1. attempts'[j] \in Nat /\ attempts[j] \in Nat /\ crashes > 0
    BY <1>0, <1>4 DEF StoredTwice
  <2> QED
    BY <1>0, <1>3, <1>4, <1>6, <2>1
<1> QED
  BY <1>5, <1>6, <1>7 DEF StoredTwice

\* Whoever a failed task can be blamed on, faults apart.
Blamed(t) == GivenUp(t) \/ StoredTwice(t)

LEMMA ReasonInvNext ==
    QueueHeld /\ StageInv /\ Uninterrupted /\ FoundInv /\ ReasonInv /\ [IssueNext]_allVars => ReasonInv'
<1> SUFFICES ASSUME QueueHeld, StageInv, Uninterrupted, FoundInv, ReasonInv, [IssueNext]_allVars
             PROVE  ReasonInv'
  OBVIOUS
<1>0. /\ Held /\ TaskOf \in [Jobs -> Tasks] /\ attempts \in [Jobs -> 0..MaxAttempts]
      /\ \A w \in Workers : StageOf(w)
  BY JobsAreHeld, ConstantsOK DEF QueueHeld, StageInv, QueueInv, OwnerInv, RowInv, TypeOK
<1>t. \A w \in Workers : pc[w] \in Executing => Task(w) \in Tasks
  BY <1>0 DEF Held, Task
<1>r. \A t \in Tasks : task[t] = "FAILED" /\ faults = 0 => Blamed(t)
  BY DEF ReasonInv, FailsForAReason, Blamed
<1>g. \A t \in Tasks : Blamed(t) => Blamed(t)'
  <2>1. ASSUME NEW w \in Workers, Enters(w), NEW t \in Tasks, GivenUp(t) PROVE GivenUp(t)'
    BY <2>1 DEF Enters, rowVars, GivenUp
  <2> QED
    BY <2>1, IssueStepsQueue, GivenUpStays, StoredTwiceStays DEF Blamed
\* A step that blames no new worker and fails no task without a reason.
<1>1. ASSUME faults' = faults,
             \A v \in Workers : At(v, "error")' \/ pc'[v] = "raised"
                                 => (At(v, "error") \/ pc[v] = "raised") /\ cur'[v] = cur[v],
             \A t \in Tasks : task'[t] = "FAILED" /\ faults = 0
                               => task[t] = "FAILED" \/ Blamed(t)'
      PROVE  ReasonInv'
  <2>1. \A t \in Tasks : task'[t] = "FAILED" /\ faults' = 0 => Blamed(t)'
    BY <1>r, <1>g, <1>1
  <2>2. ASSUME NEW v \in Workers, At(v, "error")' \/ pc'[v] = "raised", faults' = 0
        PROVE  StoredTwice(Task(v))'
    <3>1. (At(v, "error") \/ pc[v] = "raised") /\ cur'[v] = cur[v] /\ StoredTwice(Task(v))
      BY <1>1, <2>2 DEF ReasonInv
    <3>2. Task(v) \in Tasks
      BY <1>t, <3>1 DEF At, Executing
    <3>3. \A t \in Tasks : StoredTwice(t) => StoredTwice(t)'
      BY StoredTwiceStays
    <3> QED
      BY <3>1, <3>2, <3>3 DEF Task, StoredTwice
  <2> QED
    BY <1>1, <2>1, <2>2 DEF ReasonInv, FailsForAReason, Blamed
\* A fault.
<1>2. ASSUME faults' = faults + 1 PROVE ReasonInv'
  <2>1. faults' \in Nat /\ faults' # 0
    BY <1>2 DEF ReasonInv
  <2> QED
    BY <2>1 DEF ReasonInv, FailsForAReason
<1>3. ASSUME NEW j \in Jobs, AcceptIssue(j) \/ DecideReview(j) \/ LapseOfLease(j)
      PROVE  ReasonInv'
  <2>1. UNCHANGED <<faults, step, pc, cur>>
    BY <1>3 DEF AcceptIssue, DecideReview, LapseOfLease, issueVars, Accept, ClaimReview,
                NewJob, LeaseLapses, workerVars
  <2>2. \A t \in Tasks : task'[t] = "FAILED" => task[t] = "FAILED"
    BY <1>0, <1>3 DEF Held, AcceptIssue, DecideReview, LapseOfLease, Accept, ClaimReview, LeaseLapses
  <2> QED
    BY <1>1, <2>1, <2>2 DEF At
<1>4. ASSUME NEW w \in Workers, PollQueue(w) PROVE ReasonInv'
  <2>1. UNCHANGED <<faults, step, task>>
    BY <1>4 DEF PollQueue, issueVars, ClaimLock, ClaimNothing, ClaimCommit, LoadJob, FinishJob
  <2>2. \A v \in Workers : \/ pc'[v] = pc[v] /\ (cur'[v] = cur[v] \/ pc[v] \notin Executing)
                           \/ pc'[v] \in {"idle", "claiming", "started"}
    BY <1>0, <1>4 DEF Held, PollQueue, ClaimLock, ClaimNothing, ClaimCommit, LoadJob, FinishJob, Goto
  <2> QED
    BY <1>1, <2>1, <2>2 DEF At, Executing
<1>5. ASSUME NEW w \in Workers, ReapJobs(w) PROVE ReasonInv'
  <2>1. UNCHANGED <<faults, step, cur>>
    BY <1>5 DEF ReapJobs, Reap
  <2>2. \A v \in Workers : pc'[v] = pc[v] \/ pc'[v] = "polling"
    BY <1>0, <1>5 DEF Held, ReapJobs, Reap, Goto
  <2>3. ASSUME NEW t \in Tasks, task'[t] = "FAILED", task[t] # "FAILED" PROVE Blamed(t)'
    <3>1. t \in AbandonedTasks
      BY <1>5, <2>3 DEF ReapJobs, Reap
    <3>2. PICK j \in Dead : t = TaskOf[j]
      BY <3>1 DEF AbandonedTasks
    <3>3. /\ j \in Jobs /\ attempts' = attempts /\ status'[j] = "FAILED"
          /\ attempts[j] >= MaxAttempts
      BY <1>5, <3>2 DEF ReapJobs, Reap, Dead, Expired
    <3>4. attempts[j] = MaxAttempts
      BY <1>0, <3>3, ConstantsOK
    <3> QED
      BY <3>2, <3>3, <3>4 DEF GivenUp, Blamed
  <2> QED
    BY <1>1, <2>1, <2>2, <2>3 DEF At
<1>6. ASSUME NEW w \in Workers, BeginHandler(w) PROVE ReasonInv'
  <2>1. UNCHANGED <<faults, cur>>
    BY <1>6 DEF BeginHandler, Begin
  <2>2. /\ \A v \in Workers \ {w} : step'[v] = step[v] /\ pc'[v] = pc[v]
        /\ step'[w] # "error" /\ pc'[w] = "working"
    BY <1>0, <1>6 DEF Held, BeginHandler, GoOn, Begin, Goto, StageInv, StoreTypes
  <2>3. \A t \in Tasks : task'[t] = "FAILED" => task[t] = "FAILED"
    BY <1>0, <1>6 DEF Held, BeginHandler, Begin
  <2> QED
    BY <1>1, <2>1, <2>2, <2>3 DEF At
<1>7. ASSUME NEW w \in Workers, StartAgent(w) PROVE ReasonInv'
  <2>1. UNCHANGED <<faults, step, pc, cur, task>>
    BY <1>7 DEF StartAgent, StartRun, workerVars
  <2> QED
    BY <1>1, <2>1 DEF At
<1>8. ASSUME NEW w \in Workers, CompleteAgent(w) PROVE ReasonInv'
  <2>1. UNCHANGED <<faults, pc, cur, task>>
    BY <1>8 DEF CompleteAgent, EndRun, workerVars
  <2>2. /\ \A v \in Workers \ {w} : step'[v] = step[v]
        /\ step'[w] # "error"
    BY <1>8 DEF CompleteAgent, GoOn, StageInv, StoreTypes
  <2>3. \A v \in Workers : At(v, "error")' => At(v, "error")
    BY <2>1, <2>2 DEF At
  <2> QED
    BY <1>1, <2>1, <2>3
<1>9. ASSUME NEW w \in Workers,
             \/ StartUnheard(w) \/ FailAgent(w) \/ CompleteUnheard(w) \/ LoseWrite(w)
             \/ StoreFails(w)
      PROVE  ReasonInv'
  BY <1>2, <1>9 DEF StartUnheard, FailAgent, CompleteUnheard, LoseWrite, StoreFails
<1>10. ASSUME NEW w \in Workers, StoreAnalysis(w) \/ StoreBundle(w) PROVE ReasonInv'
  <2>1. UNCHANGED <<faults, pc, cur, task>>
    BY <1>10 DEF StoreAnalysis, StoreBundle, vars, workerVars
  <2>2. /\ \A v \in Workers \ {w} : step'[v] = step[v]
        /\ step'[w] # "error"
    BY <1>10 DEF StoreAnalysis, StoreBundle, GoOn, StageInv, StoreTypes
  <2>3. \A v \in Workers : At(v, "error")' => At(v, "error")
    BY <2>1, <2>2 DEF At
  <2> QED
    BY <1>1, <2>1, <2>3
\* The bundle is there, or the handler would raise and fail the task.
<1>11. ASSUME NEW w \in Workers, EnterWorkflow(w) PROVE ReasonInv'
  <2>1. At(w, "enter") /\ bundle[Task(w)] # 0
    BY <1>0, <1>11 DEF EnterWorkflow, StageOf
  <2>2. /\ step' = [step EXCEPT ![w] = "graph"]
        /\ task' = [task EXCEPT ![Task(w)] = "ANALYZING"]
        /\ UNCHANGED <<pc, cur, faults>>
    BY <1>11, <2>1 DEF EnterWorkflow, GoOn, workerVars
  <2>3. \A v \in Workers : At(v, "error")' => At(v, "error")
    BY <2>2 DEF At, StageInv, StoreTypes
  <2>4. \A t \in Tasks : task'[t] = "FAILED" => task[t] = "FAILED"
    BY <1>0, <2>2 DEF Held
  <2> QED
    BY <1>1, <2>2, <2>3, <2>4
<1>12. ASSUME NEW w \in Workers, ApplyResult(w) PROVE ReasonInv'
  <2>1. UNCHANGED <<faults, step, cur>>
    BY <1>12 DEF ApplyResult, Settle
  <2>2. \A v \in Workers : pc'[v] = pc[v] \/ pc'[v] = "settled"
    BY <1>0, <1>12 DEF Held, ApplyResult, Settle, Goto
  <2>3. \A t \in Tasks : task'[t] = "FAILED" => task[t] = "FAILED"
    BY <1>0, <1>12 DEF Held, ApplyResult, Settle, Outcomes
  <2> QED
    BY <1>1, <2>1, <2>2, <2>3 DEF At
\* The findings are there before a second attempt only.
<1>16. ASSUME NEW w \in Workers, RejectFindings(w) PROVE ReasonInv'
  <2>1. /\ pc[w] = "working" /\ ~Resumes(w) /\ found[Task(w)] = "SOME"
        /\ step' = [step EXCEPT ![w] = "error"] /\ UNCHANGED <<vars, found, faults>>
    BY <1>16 DEF RejectFindings, At, GoOn, taskVars
  <2>2. UNCHANGED <<pc, cur, task, attempts, crashes, status>>
    BY <2>1 DEF vars, workerVars, rowVars, boundVars
  <2>3. cur[w] \in Jobs /\ attempts[cur[w]] \in Nat /\ attempts[cur[w]] > 0 /\ Analyses(cur[w])
    BY <1>0, <2>1, IssueConstantsOK
       DEF Held, Executing, StageInv, FirstAttemptIsBlank, BlankRows, Analyses, Resumes
  <2>4. attempts[cur[w]] # 1
    BY <2>1, <2>3 DEF FoundInv
  <2>5. attempts[cur[w]] > 1
    BY <2>3, <2>4
  <2>6. crashes # 0 /\ crashes \in Nat
    BY <2>3, <2>5, ConstantsOK DEF Uninterrupted, QueueHeld, QueueInv, OwnerInv, RowInv, TypeOK
  <2>7. StoredTwice(Task(w))
    BY <2>1, <2>3, <2>5, <2>6 DEF StoredTwice, Analyses, Task
  <2>8. ASSUME NEW v \in Workers, At(v, "error")' \/ pc'[v] = "raised"
        PROVE  faults' # 0 \/ StoredTwice(Task(v))'
    <3>1. CASE v = w
      BY <2>1, <2>2, <2>7, <3>1 DEF StoredTwice, Task
    <3>2. CASE v # w
      <4>1. At(v, "error") \/ pc[v] = "raised"
        BY <2>1, <2>2, <2>8, <3>2 DEF At, StageInv, StoreTypes
      <4> QED
        BY <2>1, <2>2, <4>1 DEF ReasonInv, StoredTwice, Task
    <3> QED
      BY <3>1, <3>2
  <2>9. \A t \in Tasks : task'[t] = "FAILED" /\ faults' = 0 => Blamed(t)'
    BY <1>r, <1>g, <2>1, <2>2
  <2> QED
    BY <2>1, <2>8, <2>9 DEF ReasonInv, FailsForAReason, Blamed
\* An exception of a handler: its reason is known already.
<1>13. ASSUME NEW w \in Workers,
              HandlerRaises(w) \/ (LeaveHandler(w) /\ pc[w] = "raised")
       PROVE  ReasonInv'
  <2>1. /\ UNCHANGED <<faults, cur>> /\ (At(w, "error") \/ pc[w] = "raised")
        /\ task' = task \/ task' = [task EXCEPT ![Task(w)] = "FAILED"]
    BY <1>13 DEF HandlerRaises, LeaveHandler, issueVars, Raise, Return, MarkTaskFailed
  <2>2. faults # 0 \/ StoredTwice(Task(w))
    BY <2>1 DEF ReasonInv
  <2>3. ASSUME NEW v \in Workers, At(v, "error")' \/ pc'[v] = "raised"
        PROVE  At(v, "error") \/ pc[v] = "raised"
    <3>1. CASE v = w
      BY <2>1, <3>1
    <3>2. CASE v # w
      <4>1. pc'[v] = pc[v] /\ step'[v] = step[v]
        BY <1>0, <1>13, <3>2 DEF HandlerRaises, LeaveHandler, issueVars, Raise, Return,
              MarkTaskFailed, Goto, Forget, GoOn, Held, StageInv, StoreTypes
      <4> QED
        BY <2>3, <4>1 DEF At
    <3> QED
      BY <3>1, <3>2
  <2>4. Task(w) \in Tasks
    BY <1>t, <2>1 DEF At, Executing
  <2>5. faults = 0 => \A t \in Tasks : t = Task(w) => Blamed(t)'
    BY <1>g, <2>2, <2>4 DEF Blamed
  <2>6. \A t \in Tasks : task'[t] = "FAILED" /\ faults = 0 => task[t] = "FAILED" \/ Blamed(t)'
    BY <1>0, <2>1, <2>4, <2>5 DEF Held
  <2> QED
    BY <1>1, <2>1, <2>3, <2>6
<1>14. ASSUME NEW w \in Workers, (LeaveHandler(w) /\ pc[w] # "raised") \/ CrashWorker(w)
       PROVE  ReasonInv'
  <2>1. UNCHANGED <<faults, task>>
    BY <1>14 DEF LeaveHandler, CrashWorker, Return, MarkTaskFailed, Crash
  <2>2. /\ \A v \in Workers \ {w} : step'[v] = step[v] /\ pc'[v] = pc[v] /\ cur'[v] = cur[v]
        /\ pc'[w] \in {"idle", "finishing"}
    BY <1>0, <1>14 DEF Held, LeaveHandler, CrashWorker, Return, MarkTaskFailed, Crash, Goto, Forget,
                       GoOn, StageInv, StoreTypes
  <2> QED
    BY <1>1, <2>1, <2>2 DEF At
<1>15. CASE UNCHANGED allVars
  <2>1. UNCHANGED <<faults, step, pc, cur, task>>
    BY <1>15 DEF allVars, issueVars, vars, workerVars
  <2> QED
    BY <1>1, <2>1 DEF At
<1> QED
  BY <1>3, <1>4, <1>5, <1>6, <1>7, <1>8, <1>9, <1>10, <1>11, <1>12, <1>13, <1>14, <1>15, <1>16
     DEF IssueNext, WorkerStep

\* Where nothing raises, a task fails because a job had no attempt left or
\* because a recovery stored the findings again; no crash makes a recovery find
\* a row it cannot go on from (github_issues.py:228-268, tasks.py:232-240,
\* jobs.py:190-206).
THEOREM TasksFailForAReason == IssueSpec => []FailsForAReason
<1> DEFINE Whole == TrailInv /\ StageInv /\ Uninterrupted /\ FoundInv /\ ReasonInv
<1>1. Whole => FailsForAReason
  BY DEF ReasonInv
<1>2. IssueInit => Whole
  BY ReasonInvInit, FirstRunInit, StageInvInit, TrailInvInit
<1>3. QueueHeld /\ Whole /\ [IssueNext]_allVars => Whole'
  BY ReasonInvNext, UninterruptedNext, FoundInvNext, StageInvNext, TrailInvNext
<1> HIDE DEF Whole
<1> QED
  BY <1>1, <1>2, <1>3, QueueIsHeld, PTL DEF IssueSpec
=============================================================================
