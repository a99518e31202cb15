--------------------------- MODULE JobQueueProofs ---------------------------
(***************************************************************************)
(* Theorems about JobQueue, for any number of jobs, tasks and workers and  *)
(* any bound on attempts, crashes and stalls.                              *)
(*                                                                         *)
(* RowInv holds whatever the leases do; OwnerInv and WaitingIsOwed say what *)
(* holds until a lease lapses under a live worker (stalls = 0).            *)
(***************************************************************************)
EXTENDS JobQueue, FiniteSetTheorems, TLAPS

\* A row that is not inserted yet was never attempted.
AbsentIsFresh == \A j \in Jobs : status[j] = "ABSENT" => attempts[j] = 0

\* What holds of the lease column whatever the leases do.
LeaseColumn ==
    \A j \in Jobs :
        /\ status[j] = "RUNNING" => lease[j] # "NONE"
        /\ lease[j] # "NONE" => status[j] \in {"RUNNING", "FAILED"}

\* A row that was finished when it was read is finished still.
ReadFinal ==
    \A w \in Workers : loaded[w].status \in {"SUCCEEDED", "FAILED"} =>
                          status[cur[w]] \in {"SUCCEEDED", "FAILED"}

RowInv ==
    /\ TypeOK
    /\ LeaseColumn
    /\ ReadFinal
    /\ AttemptLeft
    /\ ClaimsDisjoint
    /\ AbsentIsFresh

\* The rank given to a new row is a number.
LEMMA RankIsNat ==
    \A j \in Jobs : Cardinality({k \in Jobs : status[k] # "ABSENT"}) + 1 \in Nat
<1>1. IsFiniteSet({k \in Jobs : status[k] # "ABSENT"})
  BY ConstantsOK, FS_Subset
<1>2. Cardinality({k \in Jobs : status[k] # "ABSENT"}) \in Nat
  BY <1>1, FS_CardinalityType
<1> QED
  BY <1>2

\* Initially no row exists and no worker holds one.
LEMMA RowInvInit == Init => RowInv
<1> SUFFICES ASSUME Init PROVE RowInv
  OBVIOUS
<1>1. TypeOK
  BY ConstantsOK DEF Init, TypeOK, Places, RowStatuses, Leases, NotLoaded, Executing, Waiting
<1>2. LeaseColumn /\ ReadFinal /\ AttemptLeft /\ ClaimsDisjoint /\ AbsentIsFresh
  BY DEF Init, LeaseColumn, ReadFinal, NotLoaded, AttemptLeft, ClaimsDisjoint, AbsentIsFresh
<1> QED
  BY <1>1, <1>2 DEF RowInv

\* Every action of the API, of a worker and of time preserves RowInv.
LEMMA RowInvNext == RowInv /\ [Next]_vars => RowInv'
<1> SUFFICES ASSUME RowInv, [Next]_vars PROVE RowInv'
  OBVIOUS
<1> USE ConstantsOK DEF RowInv, TypeOK, LeaseColumn, ReadFinal, NotLoaded, AttemptLeft,
                        ClaimsDisjoint, AbsentIsFresh, Places, RowStatuses, Leases,
                        Executing, Waiting
<1>1. ASSUME NEW j \in Jobs, Accept(j) PROVE RowInv'
  <2>1. createdAt' \in [Jobs -> Nat]
    BY <1>1, RankIsNat DEF Accept, NewJob
  <2>2. TypeOK'
    BY <1>1, <2>1 DEF Accept, NewJob, runVars, workerVars, boundVars
  <2>3. LeaseColumn' /\ ReadFinal' /\ AttemptLeft' /\ ClaimsDisjoint' /\ AbsentIsFresh'
    BY <1>1 DEF Accept, NewJob, runVars, workerVars, boundVars
  <2> QED
    BY <2>2, <2>3
<1>2. ASSUME NEW j \in Jobs, ClaimReview(j) PROVE RowInv'
  <2>1. createdAt' \in [Jobs -> Nat]
    BY <1>2, RankIsNat DEF ClaimReview, NewJob
  <2>2. TypeOK'
    BY <1>2, <2>1 DEF ClaimReview, NewJob, runVars, workerVars, boundVars
  <2>3. LeaseColumn' /\ ReadFinal' /\ AttemptLeft' /\ ClaimsDisjoint' /\ AbsentIsFresh'
    BY <1>2 DEF ClaimReview, NewJob, runVars, workerVars, boundVars
  <2> QED
    BY <2>2, <2>3
<1>3. ASSUME NEW j \in Jobs, LeaseLapses(j) PROVE RowInv'
  BY <1>3 DEF LeaseLapses, runVars, workerVars
<1>4. ASSUME NEW w \in Workers, Reap(w) PROVE RowInv'
  <2>1. TypeOK'
    BY <1>4 DEF Reap, Goto, AbandonRuns, Expired, Dead, Requeued, AbandonedTasks, ReapedTasks, boundVars
  <2>2. LeaseColumn' /\ ReadFinal' /\ AttemptLeft' /\ ClaimsDisjoint' /\ AbsentIsFresh'
    BY <1>4 DEF Reap, Goto, AbandonRuns, Expired, Dead, Requeued, AbandonedTasks, ReapedTasks, boundVars
  <2> QED
    BY <2>1, <2>2
<1>5. ASSUME NEW w \in Workers, ClaimLock(w) PROVE RowInv'
  BY <1>5 DEF ClaimLock, Claimable, Locked, Goto, rowVars, runVars, boundVars
<1>6. ASSUME NEW w \in Workers, ClaimNothing(w) PROVE RowInv'
  BY <1>6 DEF ClaimNothing, Goto, rowVars, runVars, boundVars
<1>7. ASSUME NEW w \in Workers, ClaimCommit(w) PROVE RowInv'
  <2>1. cur[w] \in Jobs /\ status[cur[w]] = "QUEUED" /\ attempts[cur[w]] < MaxAttempts
    BY <1>7 DEF ClaimCommit
  <2>2. TypeOK'
    BY <1>7, <2>1 DEF ClaimCommit, Goto, runVars, boundVars
  <2>3. LeaseColumn' /\ ReadFinal' /\ AttemptLeft' /\ ClaimsDisjoint' /\ AbsentIsFresh'
    BY <1>7, <2>1 DEF ClaimCommit, Goto, runVars, boundVars
  <2> QED
    BY <2>2, <2>3
<1>8. ASSUME NEW w \in Workers, Begin(w) PROVE RowInv'
  BY <1>8 DEF Begin, Task, Goto, rowVars, runVars, boundVars
<1>9. ASSUME NEW w \in Workers, StartRun(w) \/ EndRun(w) PROVE RowInv'
  BY <1>9 DEF StartRun, EndRun, rowVars, workerVars, boundVars
<1>10. ASSUME NEW w \in Workers, Settle(w) PROVE RowInv'
  BY <1>10 DEF Settle, Outcomes, Task, Goto, rowVars, runVars, boundVars
<1>11. ASSUME NEW w \in Workers, Raise(w) \/ Return(w) \/ MarkTaskFailed(w) PROVE RowInv'
  <2>1. TypeOK'
    <3>1. CASE Raise(w)
      BY <3>1 DEF Raise, Task, Goto, rowVars, runVars, boundVars
    <3>2. CASE Return(w)
      BY <3>2 DEF Return, Goto, rowVars, runVars, boundVars
    <3>3. CASE MarkTaskFailed(w)
      <4>1. /\ loaded' \in [Workers -> [status : RowStatuses, lease : Leases] \cup {NotLoaded}]
            /\ \A v \in Workers : loaded'[v] # NotLoaded => loaded[v] # NotLoaded
        BY <3>3 DEF MarkTaskFailed
      <4> QED
        BY <3>3, <4>1 DEF MarkTaskFailed, Task, Goto, rowVars, runVars, boundVars
    <3> QED
      BY <1>11, <3>1, <3>2, <3>3
  <2>2. LeaseColumn' /\ ReadFinal' /\ AttemptLeft' /\ ClaimsDisjoint' /\ AbsentIsFresh'
    BY <1>11 DEF Raise, Return, MarkTaskFailed, Goto, rowVars
  <2> QED
    BY <2>1, <2>2
<1>12. ASSUME NEW w \in Workers, FinishJob(w) PROVE RowInv'
  <2>1. TypeOK'
    BY <1>12 DEF FinishJob, Flushed, Goto, runVars, boundVars
  <2>2. cur[w] \in Jobs /\ status'[cur[w]] \in {"SUCCEEDED", "FAILED"}
    BY <1>12 DEF FinishJob, Flushed
  <2>3. lease'[cur[w]] # "NONE" => status'[cur[w]] = "FAILED"
    BY <1>12 DEF FinishJob, Flushed
  <2>4. LeaseColumn' /\ ReadFinal' /\ AttemptLeft' /\ ClaimsDisjoint' /\ AbsentIsFresh'
    BY <1>12, <2>2, <2>3 DEF FinishJob, Locked, Goto, runVars, boundVars
  <2> QED
    BY <2>1, <2>4
<1>13. ASSUME NEW w \in Workers, Renew(w) PROVE RowInv'
  BY <1>13 DEF Renew, OwnsLease, Renewing, runVars, workerVars, boundVars
<1>14. ASSUME NEW w \in Workers, Crash(w) PROVE RowInv'
  <2>1. run[w] = "STARTED" => cur[w] \in Jobs
    OBVIOUS
  <2> QED
    BY <1>14 DEF Crash, Task, Goto, rowVars
<1>15. ASSUME NEW w \in Workers, LoadJob(w) PROVE RowInv'
  BY <1>15 DEF LoadJob, rowVars, runVars, boundVars
<1>16. CASE UNCHANGED vars
  BY <1>16 DEF vars, rowVars, runVars, workerVars, boundVars
<1> QED
  BY <1>1, <1>2, <1>3, <1>4, <1>5, <1>6, <1>7, <1>8, <1>9, <1>10, <1>11,
     <1>12, <1>13, <1>14, <1>15, <1>16 DEF Next, Iterate

-----------------------------------------------------------------------------
(* What holds until a lease lapses under a live worker.                    *)

\* A live worker's lease is in the future: the reaper leaves its job alone.
LiveLease ==
    stalls = 0 => \A w \in Workers, j \in Jobs : Executes(w, j) => lease[j] = "LIVE"

\* NoStuckTask is not inductive: the job it names may have settled already.
\* The one named here has not, so its handler will write the task again.
OwingJob(t) == \E j \in Jobs :
    /\ TaskOf[j] = t /\ status[j] \in {"QUEUED", "RUNNING"}
    /\ \A w \in Workers : cur[w] = j => pc[w] \notin {"settled", "finishing", "failing"}

WaitingIsOwed ==
    stalls = 0 => \A t \in Tasks : task[t] \in Waiting => OwingJob(t)

\* What a failing worker read of its job is what the row says still.
ReadHeld ==
    stalls = 0 => \A w \in Workers : loaded[w] # NotLoaded =>
                      loaded[w] = [status |-> "RUNNING", lease |-> "LIVE"]

OwnerInv == RowInv /\ OneExecutor /\ LiveLease /\ ReadHeld /\ LeaseTracksRunning

\* No step takes a stall back.
LEMMA StallsOnlyGrow == RowInv /\ [Next]_vars /\ stalls' = 0 => stalls = 0
<1> SUFFICES ASSUME RowInv, [Next]_vars, stalls # 0 PROVE stalls' # 0
  OBVIOUS
<1>1. stalls \in Nat
  BY ConstantsOK DEF RowInv, TypeOK
<1>2. ASSUME NEW j \in Jobs, LeaseLapses(j) PROVE stalls' # 0
  BY <1>1, <1>2 DEF LeaseLapses
<1>3. ASSUME NEW j \in Jobs, Accept(j) \/ ClaimReview(j) PROVE stalls' # 0
  BY <1>3 DEF Accept, ClaimReview, NewJob, boundVars
<1>4. ASSUME NEW w \in Workers,
             \/ Reap(w) \/ ClaimLock(w) \/ ClaimNothing(w) \/ ClaimCommit(w)
             \/ FinishJob(w) \/ Renew(w) \/ Crash(w)
      PROVE  stalls' # 0
  BY <1>4 DEF Reap, ClaimLock, ClaimNothing, ClaimCommit, FinishJob, Renew, Crash,
              boundVars
<1>5. ASSUME NEW w \in Workers,
             \/ Begin(w) \/ StartRun(w) \/ EndRun(w) \/ Settle(w)
             \/ Raise(w) \/ Return(w) \/ LoadJob(w) \/ MarkTaskFailed(w)
      PROVE  stalls' # 0
  BY <1>5 DEF Begin, StartRun, EndRun, Settle, Raise, Return, LoadJob, MarkTaskFailed,
              boundVars
<1>6. CASE UNCHANGED vars
  BY <1>6 DEF vars, boundVars
<1> QED
  BY <1>2, <1>3, <1>4, <1>5, <1>6 DEF Next, Iterate

\* Initially nobody executes anything.
LEMMA OwnerInvInit == Init => OwnerInv /\ WaitingIsOwed
  BY RowInvInit DEF Init, OwnerInv, OneExecutor, LiveLease, Executes, Executing,
                    ReadHeld, LeaseTracksRunning, WaitingIsOwed, Waiting

\* Without stalls a failing worker leaves no column out of its last write.
LEMMA FinishWrites ==
    ASSUME OwnerInv, stalls = 0, NEW w \in Workers, FinishJob(w)
    PROVE  /\ status' = [status EXCEPT ![cur[w]] =
                            IF pc[w] = "finishing" THEN "SUCCEEDED" ELSE "FAILED"]
           /\ lease' = [lease EXCEPT ![cur[w]] = "NONE"]
<1>1. loaded[w] = NotLoaded \/ loaded[w] = [status |-> "RUNNING", lease |-> "LIVE"]
  BY DEF OwnerInv, ReadHeld
<1>2. /\ loaded[w].status \notin {"SUCCEEDED", "FAILED"}
      /\ loaded[w].lease # "NONE"
  BY <1>1 DEF NotLoaded
<1>3. /\ status' = [status EXCEPT ![cur[w]] = Flushed(loaded[w].status,
                       IF pc[w] = "finishing" THEN "SUCCEEDED" ELSE "FAILED", @)]
      /\ lease' = [lease EXCEPT ![cur[w]] = Flushed(loaded[w].lease, "NONE", @)]
  BY DEF FinishJob
<1> QED
  BY <1>2, <1>3 DEF Flushed

LEMMA ReadHeldNext == OwnerInv /\ [Next]_vars => (ReadHeld /\ LeaseTracksRunning)'
<1> SUFFICES ASSUME OwnerInv, [Next]_vars PROVE (ReadHeld /\ LeaseTracksRunning)'
  OBVIOUS
<1>0. /\ RowInv /\ RowInv' /\ (stalls' = 0 => stalls = 0)
      /\ stalls \in Nat /\ stalls' \in Nat
  BY RowInvNext, StallsOnlyGrow, ConstantsOK DEF OwnerInv, RowInv, TypeOK
<1>1. ASSUME NEW w \in Workers, LoadJob(w) PROVE (ReadHeld /\ LeaseTracksRunning)'
  <2>1. stalls = 0 => status[cur[w]] = "RUNNING" /\ lease[cur[w]] = "LIVE"
    BY <1>0, <1>1 DEF LoadJob, OwnerInv, OneExecutor, LiveLease, Executes, Executing, RowInv,
                      TypeOK
  <2> QED
    BY <1>0, <1>1, <2>1 DEF LoadJob, ReadHeld, LeaseTracksRunning, OwnerInv, RowInv, TypeOK,
                            rowVars, boundVars
<1>2. ASSUME NEW w \in Workers, FinishJob(w) PROVE (ReadHeld /\ LeaseTracksRunning)'
  <2>1. ReadHeld'
    BY <1>0, <1>2 DEF FinishJob, ReadHeld, OwnerInv, RowInv, TypeOK, boundVars
  <2>2. CASE stalls = 0
    <3>1. /\ status' = [status EXCEPT ![cur[w]] =
                           IF pc[w] = "finishing" THEN "SUCCEEDED" ELSE "FAILED"]
          /\ lease' = [lease EXCEPT ![cur[w]] = "NONE"]
      BY <1>2, <2>2, FinishWrites
    <3> QED
      BY <1>0, <1>2, <2>1, <2>2, <3>1 DEF FinishJob, LeaseTracksRunning, OwnerInv, RowInv,
                                          TypeOK, boundVars
  <2>3. CASE stalls # 0
    <3>1. stalls' > 0
      BY <1>0, <1>2, <2>3 DEF FinishJob, boundVars
    <3>2. LeaseColumn'
      BY <1>0 DEF RowInv
    <3>3. LeaseTracksRunning'
      BY <3>1, <3>2 DEF LeaseTracksRunning, LeaseColumn
    <3> QED
      BY <2>1, <3>3
  <2> QED
    BY <2>2, <2>3
<1>3. ASSUME UNCHANGED loaded \/ \E w \in Workers : loaded' = [loaded EXCEPT ![w] = NotLoaded]
      PROVE  ReadHeld'
  BY <1>0, <1>3 DEF ReadHeld, OwnerInv, RowInv, TypeOK
<1> USE <1>0, ConstantsOK DEF RowInv, TypeOK, RowStatuses, Leases, LeaseTracksRunning
<1>4. ASSUME NEW j \in Jobs, Accept(j) \/ ClaimReview(j) \/ LeaseLapses(j)
      PROVE  (ReadHeld /\ LeaseTracksRunning)'
  BY <1>3, <1>4 DEF Accept, ClaimReview, NewJob, LeaseLapses, workerVars, boundVars, OwnerInv
<1>5. ASSUME NEW w \in Workers, Reap(w) \/ ClaimCommit(w) \/ Renew(w)
      PROVE  (ReadHeld /\ LeaseTracksRunning)'
  BY <1>3, <1>5 DEF Reap, Expired, Dead, Requeued, ClaimCommit, Renew, OwnsLease, workerVars,
                    boundVars, OwnerInv, ClaimsDisjoint, AbandonedTasks, ReapedTasks
<1>6. ASSUME NEW w \in Workers,
             \/ ClaimLock(w) \/ ClaimNothing(w) \/ Begin(w) \/ StartRun(w) \/ EndRun(w)
             \/ Settle(w) \/ Raise(w) \/ Return(w) \/ MarkTaskFailed(w) \/ Crash(w)
      PROVE  (ReadHeld /\ LeaseTracksRunning)'
  <2>1. UNCHANGED <<status, lease, stalls>>
    BY <1>6 DEF ClaimLock, ClaimNothing, Begin, StartRun, EndRun, Settle, Raise, Return,
                MarkTaskFailed, Crash, rowVars, boundVars
  <2>2. UNCHANGED loaded \/ loaded' = [loaded EXCEPT ![w] = NotLoaded]
    BY <1>6 DEF ClaimLock, ClaimNothing, Begin, StartRun, EndRun, Settle, Raise, Return,
                MarkTaskFailed, Crash, workerVars
  <2> QED
    BY <1>3, <2>1, <2>2 DEF OwnerInv
<1>7. CASE UNCHANGED vars
  BY <1>3, <1>7 DEF vars, rowVars, workerVars, boundVars, OwnerInv
<1> QED
  BY <1>1, <1>2, <1>4, <1>5, <1>6, <1>7 DEF Next, Iterate

\* Without stalls, claims, finishes and reaps keep each job with its worker.
LEMMA OwnerInvNext == OwnerInv /\ [Next]_vars => OwnerInv'
<1> SUFFICES ASSUME OwnerInv, [Next]_vars PROVE OwnerInv'
  OBVIOUS
<1>0. RowInv' /\ RowInv /\ (stalls' = 0 => stalls = 0)
  BY RowInvNext, StallsOnlyGrow DEF OwnerInv
<1> USE ConstantsOK DEF OwnerInv, OneExecutor, LiveLease, Executes, Executing, boundVars
<1> SUFFICES (OneExecutor /\ LiveLease)'
  BY <1>0, ReadHeldNext
<1>1. ASSUME NEW j \in Jobs, Accept(j) \/ ClaimReview(j)
      PROVE  (OneExecutor /\ LiveLease)'
  BY <1>0, <1>1 DEF Accept, ClaimReview, NewJob, runVars, workerVars, boundVars,
                    RowInv, TypeOK
<1>2. ASSUME NEW j \in Jobs, LeaseLapses(j) PROVE (OneExecutor /\ LiveLease)'
  <2>1. stalls' = 0 => ~ \E w \in Workers : Executes(w, j)
    BY <1>0, <1>2 DEF LeaseLapses, RowInv, TypeOK
  <2> QED
    BY <1>0, <1>2, <2>1 DEF LeaseLapses, runVars, workerVars, RowInv, TypeOK
<1>3. ASSUME NEW w \in Workers, Reap(w) PROVE (OneExecutor /\ LiveLease)'
  BY <1>0, <1>3 DEF Reap, Goto, Expired, Dead, Requeued, AbandonedTasks,
                   ReapedTasks, RowInv, TypeOK
<1>4. ASSUME NEW w \in Workers, ClaimLock(w) \/ ClaimNothing(w)
      PROVE  (OneExecutor /\ LiveLease)'
  BY <1>0, <1>4 DEF ClaimLock, ClaimNothing, Goto, rowVars, RowInv, TypeOK
<1>5. ASSUME NEW w \in Workers, ClaimCommit(w) PROVE (OneExecutor /\ LiveLease)'
  <2>1. cur[w] \in Jobs /\ status[cur[w]] = "QUEUED"
    BY <1>0, <1>5 DEF ClaimCommit, RowInv, TypeOK, ClaimsDisjoint
  <2>2. stalls = 0 => \A v \in Workers : ~Executes(v, cur[w])
    BY <2>1
  <2> QED
    BY <1>0, <1>5, <2>1, <2>2 DEF ClaimCommit, Goto, RowInv, TypeOK
<1>6. ASSUME NEW w \in Workers,
             \/ Begin(w) \/ StartRun(w) \/ EndRun(w) \/ Settle(w)
             \/ Raise(w) \/ Return(w) \/ LoadJob(w) \/ MarkTaskFailed(w)
      PROVE  (OneExecutor /\ LiveLease)'
  BY <1>0, <1>6 DEF Begin, StartRun, EndRun, Settle, Raise, Return,
                    LoadJob, MarkTaskFailed, Goto, rowVars, workerVars, RowInv, TypeOK
<1>7. ASSUME NEW w \in Workers, FinishJob(w) PROVE (OneExecutor /\ LiveLease)'
  <2>1. stalls = 0 => \A v \in Workers : Executes(v, cur[w]) => v = w
    BY <1>0, <1>7 DEF FinishJob, RowInv, TypeOK
  <2> QED
    BY <1>0, <1>7, <2>1 DEF FinishJob, Goto, RowInv, TypeOK
<1>8. ASSUME NEW w \in Workers, Renew(w) PROVE (OneExecutor /\ LiveLease)'
  BY <1>0, <1>8 DEF Renew, OwnsLease, workerVars, RowInv, TypeOK
<1>9. ASSUME NEW w \in Workers, Crash(w) PROVE (OneExecutor /\ LiveLease)'
  BY <1>0, <1>9 DEF Crash, Goto, rowVars, RowInv, TypeOK
<1>10. CASE UNCHANGED vars
  BY <1>10 DEF vars, rowVars, workerVars
<1> QED
  BY <1>1, <1>2, <1>3, <1>4, <1>5, <1>6, <1>7, <1>8, <1>9, <1>10 DEF Next, Iterate

\* A task in a waiting status is owed an outcome by a job that survives the
\* step, or the step itself queues or starts that job.
LEMMA WaitingIsOwedNext ==
    OwnerInv /\ WaitingIsOwed /\ [Next]_vars => WaitingIsOwed'
<1> SUFFICES ASSUME OwnerInv, WaitingIsOwed, [Next]_vars, stalls' = 0,
                    NEW t \in Tasks, task'[t] \in Waiting
             PROVE  OwingJob(t)'
  BY DEF WaitingIsOwed
<1>0. TypeOK /\ OneExecutor /\ ClaimsDisjoint /\ stalls = 0
  BY StallsOnlyGrow DEF OwnerInv, RowInv
<1> USE <1>0, ConstantsOK DEF TypeOK, OwingJob
<1>1. ASSUME NEW j \in Jobs, Accept(j) \/ ClaimReview(j) PROVE OwingJob(t)'
  <2>1. status[j] = "ABSENT" /\ \A w \in Workers : ~Executes(w, j)
    BY <1>1 DEF Accept, ClaimReview, NewJob, OneExecutor
  <2>2. CASE TaskOf[j] = t
    BY <1>1, <2>1, <2>2 DEF Accept, ClaimReview, NewJob, workerVars, Executes, Executing
  <2>3. CASE TaskOf[j] # t
    <3>1. task[t] \in Waiting
      BY <1>1, <2>3 DEF Accept, ClaimReview
    <3> QED
      BY <1>1, <2>1, <3>1 DEF Accept, ClaimReview, NewJob, workerVars, WaitingIsOwed
  <2> QED
    BY <2>2, <2>3
<1>2. ASSUME NEW j \in Jobs, LeaseLapses(j) PROVE OwingJob(t)'
  BY <1>2 DEF LeaseLapses, workerVars, WaitingIsOwed
<1>3. ASSUME NEW w \in Workers, Reap(w) PROVE OwingJob(t)'
  <2>1. task[t] \in Waiting /\ ~ \E j \in Dead : TaskOf[j] = t
    BY <1>3 DEF Reap, AbandonedTasks, Waiting
  <2>2. PICK k \in Jobs : /\ TaskOf[k] = t /\ status[k] \in {"QUEUED", "RUNNING"}
                          /\ \A v \in Workers : cur[v] = k =>
                                pc[v] \notin {"settled", "finishing", "failing"}
    BY <2>1 DEF WaitingIsOwed
  <2>3. status'[k] \in {"QUEUED", "RUNNING"}
    BY <1>3, <2>1, <2>2 DEF Reap, Requeued
  <2> QED
    BY <1>3, <2>2, <2>3 DEF Reap, Goto
<1>4. ASSUME NEW w \in Workers, ClaimLock(w) \/ ClaimNothing(w) PROVE OwingJob(t)'
  BY <1>4 DEF ClaimLock, ClaimNothing, Goto, rowVars, WaitingIsOwed
<1>5. ASSUME NEW w \in Workers, ClaimCommit(w) PROVE OwingJob(t)'
  BY <1>5 DEF ClaimCommit, Goto, WaitingIsOwed
<1>6. ASSUME NEW w \in Workers, Begin(w) PROVE OwingJob(t)'
  <2>1. cur[w] \in Jobs /\ status[cur[w]] = "RUNNING"
        /\ \A v \in Workers : Executes(v, cur[w]) => v = w
    BY <1>6 DEF Begin, OneExecutor, Executes, Executing
  <2>2. CASE TaskOf[cur[w]] = t
    BY <1>6, <2>1, <2>2 DEF Begin, Goto, rowVars, Executes, Executing
  <2>3. CASE TaskOf[cur[w]] # t
    <3>1. task[t] \in Waiting
      BY <1>6, <2>3 DEF Begin, Task
    <3> QED
      BY <1>6, <3>1 DEF Begin, Goto, rowVars, WaitingIsOwed
  <2> QED
    BY <2>2, <2>3
<1>7. ASSUME NEW w \in Workers, StartRun(w) \/ EndRun(w) PROVE OwingJob(t)'
  BY <1>7 DEF StartRun, EndRun, rowVars, workerVars, WaitingIsOwed
<1>8. ASSUME NEW w \in Workers, Settle(w) \/ MarkTaskFailed(w) PROVE OwingJob(t)'
  <2>1. TaskOf[cur[w]] # t /\ task[t] \in Waiting
    BY <1>8 DEF Settle, MarkTaskFailed, Task, Outcomes, Waiting
  <2> QED
    BY <1>8, <2>1 DEF Settle, MarkTaskFailed, Goto, rowVars, WaitingIsOwed
<1>9. ASSUME NEW w \in Workers, Raise(w) PROVE OwingJob(t)'
  <2>1. task[t] \in Waiting
    BY <1>9 DEF Raise, Task, Waiting
  <2> QED
    BY <1>9, <2>1 DEF Raise, Goto, rowVars, WaitingIsOwed
<1>10. ASSUME NEW w \in Workers, Return(w) PROVE OwingJob(t)'
  BY <1>10 DEF Return, Goto, rowVars, WaitingIsOwed
<1>11. ASSUME NEW w \in Workers, FinishJob(w) PROVE OwingJob(t)'
  BY <1>11 DEF FinishJob, Goto, WaitingIsOwed
<1>12. ASSUME NEW w \in Workers, Renew(w) PROVE OwingJob(t)'
  BY <1>12 DEF Renew, OwnsLease, workerVars, WaitingIsOwed
<1>13. ASSUME NEW w \in Workers, Crash(w) PROVE OwingJob(t)'
  BY <1>13 DEF Crash, Goto, rowVars, WaitingIsOwed
<1>14. ASSUME NEW w \in Workers, LoadJob(w) PROVE OwingJob(t)'
  BY <1>14 DEF LoadJob, rowVars, WaitingIsOwed
<1>15. CASE UNCHANGED vars
  BY <1>15 DEF vars, rowVars, workerVars, WaitingIsOwed
<1> QED
  BY <1>1, <1>2, <1>3, <1>4, <1>5, <1>6, <1>7, <1>8, <1>9, <1>10, <1>11,
     <1>12, <1>13, <1>14, <1>15 DEF Next, Iterate

-----------------------------------------------------------------------------
(* The queue as a handler may rely on it, while leases lapse under dead    *)
(* workers only.                                                           *)

QueueInv == OwnerInv /\ stalls = 0

\* What the handlers rely on: a job is claimed and executed by one worker.
Held ==
    /\ status \in [Jobs -> {"ABSENT", "QUEUED", "RUNNING", "SUCCEEDED", "FAILED"}]
    /\ task \in [Tasks -> Waiting \cup {"NONE", "HUMAN_REVIEW", "SETTLED", "FAILED"}]
    /\ pc \in [Workers -> Places] /\ cur \in [Workers -> Jobs \cup {NoJob}]
    /\ \A w \in Workers : pc[w] \in {"claiming"} \cup Executing => cur[w] \in Jobs
    /\ \A w \in Workers : pc[w] = "claiming" => status[cur[w]] = "QUEUED"
    /\ \A w \in Workers : pc[w] \in Executing => status[cur[w]] = "RUNNING"
    /\ \A v, w \in Workers : pc[v] \in Executing /\ pc[w] \in Executing /\ cur[v] = cur[w]
                               => v = w

LEMMA JobsAreHeld == QueueInv => Held
  BY DEF QueueInv, OwnerInv, RowInv, TypeOK, RowStatuses, ClaimsDisjoint, OneExecutor, Executes,
         Held, Places, Executing

LEMMA JobsFinish ==
    QueueInv => \A w \in Workers : FinishJob(w) =>
        /\ status' = [status EXCEPT ![cur[w]] =
                        IF pc[w] = "finishing" THEN "SUCCEEDED" ELSE "FAILED"]
        /\ lease' = [lease EXCEPT ![cur[w]] = "NONE"]
<1> SUFFICES ASSUME QueueInv, NEW w \in Workers, FinishJob(w)
             PROVE  /\ status' = [status EXCEPT ![cur[w]] =
                                    IF pc[w] = "finishing" THEN "SUCCEEDED" ELSE "FAILED"]
                    /\ lease' = [lease EXCEPT ![cur[w]] = "NONE"]
  OBVIOUS
<1> QED
  BY FinishWrites DEF QueueInv

\* A task is accepted with one job, and is there once it has any.
AcceptedOnce ==
    /\ \A j \in Jobs : task[TaskOf[j]] = "NONE" => status[j] = "ABSENT"
    /\ \A i, j \in Jobs : /\ Kind[i] # "RESUME_HUMAN_REVIEW" /\ status[i] # "ABSENT"
                          /\ Kind[j] # "RESUME_HUMAN_REVIEW" /\ status[j] # "ABSENT"
                          /\ TaskOf[i] = TaskOf[j]
                          => i = j

LEMMA AcceptedOnceFirst == Init => AcceptedOnce
  BY DEF Init, AcceptedOnce

\* What a step does to a row that is there, or to a task that is not.
LEMMA RowsStay ==
    QueueInv /\ [Next]_vars =>
        /\ \A t \in Tasks : task'[t] = "NONE" => task[t] = "NONE"
        /\ \A j \in Jobs : status[j] # "ABSENT" => status'[j] # "ABSENT"
        /\ \A j \in Jobs : status[j] = "ABSENT" /\ status'[j] # "ABSENT" =>
             /\ task'[TaskOf[j]] # "NONE"
             /\ \A k \in Jobs \ {j} : status'[k] = status[k]
             /\ \/ Kind[j] # "RESUME_HUMAN_REVIEW" /\ task[TaskOf[j]] = "NONE"
                \/ /\ Kind[j] = "RESUME_HUMAN_REVIEW" /\ task[TaskOf[j]] = "HUMAN_REVIEW"
                   /\ task' = [task EXCEPT ![TaskOf[j]] = "RESUMING"]
<1> DEFINE Goal ==
        /\ \A t \in Tasks : task'[t] = "NONE" => task[t] = "NONE"
        /\ \A j \in Jobs : status[j] # "ABSENT" => status'[j] # "ABSENT"
        /\ \A j \in Jobs : status[j] = "ABSENT" /\ status'[j] # "ABSENT" =>
             /\ task'[TaskOf[j]] # "NONE"
             /\ \A k \in Jobs \ {j} : status'[k] = status[k]
             /\ \/ Kind[j] # "RESUME_HUMAN_REVIEW" /\ task[TaskOf[j]] = "NONE"
                \/ /\ Kind[j] = "RESUME_HUMAN_REVIEW" /\ task[TaskOf[j]] = "HUMAN_REVIEW"
                   /\ task' = [task EXCEPT ![TaskOf[j]] = "RESUMING"]
<1> SUFFICES ASSUME QueueInv, [Next]_vars PROVE Goal
  OBVIOUS
<1>0. Held /\ TaskOf \in [Jobs -> Tasks]
  BY JobsAreHeld, ConstantsOK
<1> USE <1>0 DEF Held
<1>2. ASSUME NEW j \in Jobs, Accept(j) \/ ClaimReview(j) PROVE Goal
  BY <1>2 DEF Accept, ClaimReview, ReviewOpen, NewJob
<1>3. ASSUME NEW w \in Workers, Reap(w) PROVE Goal
  BY <1>3 DEF Reap, Expired, Dead, Requeued, AbandonedTasks
<1>4. ASSUME NEW w \in Workers, ClaimCommit(w) \/ FinishJob(w) PROVE Goal
  BY <1>4, FinishWrites DEF ClaimCommit, FinishJob, Executing, QueueInv
<1>5. ASSUME NEW w \in Workers, Begin(w) \/ Settle(w) \/ Raise(w) \/ MarkTaskFailed(w)
      PROVE  Goal
  BY <1>5 DEF Begin, Settle, Raise, MarkTaskFailed, Outcomes, rowVars, Task
<1>6. ASSUME UNCHANGED <<status, task>> PROVE Goal
  BY <1>6
<1>7. ASSUME NEW w \in Workers,
             \/ ClaimLock(w) \/ ClaimNothing(w) \/ StartRun(w) \/ EndRun(w) \/ Return(w)
             \/ LoadJob(w) \/ Renew(w) \/ Crash(w)
      PROVE  UNCHANGED <<status, task>>
  BY <1>7 DEF LoadJob, ClaimLock, ClaimNothing, StartRun, EndRun, Return, Renew, Crash, rowVars
<1>8. ASSUME NEW j \in Jobs, LeaseLapses(j) PROVE UNCHANGED <<status, task>>
  BY <1>8 DEF LeaseLapses
<1>9. CASE UNCHANGED vars
  BY <1>6, <1>9 DEF vars, rowVars
<1> HIDE DEF Goal
<1> QED
  BY <1>2, <1>3, <1>4, <1>5, <1>6, <1>7, <1>8, <1>9 DEF Next, Iterate

LEMMA AcceptedOnceKept == QueueInv /\ AcceptedOnce /\ [Next]_vars => AcceptedOnce'
<1> SUFFICES ASSUME QueueInv, AcceptedOnce, [Next]_vars PROVE AcceptedOnce'
  OBVIOUS
<1>1. TaskOf \in [Jobs -> Tasks]
  BY ConstantsOK
<1> QED
  BY <1>1, RowsStay DEF AcceptedOnce

\* The runs a dead worker left are those of a running job nobody executes.
LEMMA OrphansKept ==
    OwnerInv /\ OrphansWillBeReaped /\ [Next]_vars => OrphansWillBeReaped'
<1> SUFFICES ASSUME OwnerInv, OrphansWillBeReaped, [Next]_vars, stalls' = 0,
                    NEW t \in orphans'
             PROVE  \E j \in Jobs : /\ TaskOf[j] = t /\ status'[j] = "RUNNING"
                                    /\ \A w \in Workers : ~Executes(w, j)'
  BY DEF OrphansWillBeReaped
<1>0. Held /\ QueueInv
  BY StallsOnlyGrow, JobsAreHeld DEF OwnerInv, QueueInv
<1> DEFINE Lost(j) == /\ TaskOf[j] = t /\ status[j] = "RUNNING"
                      /\ \A w \in Workers : ~Executes(w, j)
<1> USE <1>0 DEF Held, Executes, Executing
<1>1. t \in orphans => \E j \in Jobs : Lost(j)
  BY DEF OrphansWillBeReaped, QueueInv
<1>2. ASSUME NEW j \in Jobs, Accept(j) \/ ClaimReview(j) \/ LeaseLapses(j)
      PROVE  orphans' = orphans /\ \A k \in Jobs : Lost(k) => Lost(k)'
  BY <1>2 DEF Accept, ClaimReview, NewJob, LeaseLapses, runVars, workerVars
<1>3. ASSUME NEW w \in Workers, Reap(w)
      PROVE  t \in orphans /\ \A k \in Jobs : Lost(k) => Lost(k)'
  <2>1. t \in orphans /\ t \notin ReapedTasks
    BY <1>3 DEF Reap, AbandonRuns
  <2>2. \A k \in Jobs : TaskOf[k] = t => k \notin Expired
    BY <2>1 DEF ReapedTasks
  <2> QED
    BY <1>3, <2>1, <2>2 DEF Reap, Goto, Dead, Requeued
<1>4. ASSUME NEW w \in Workers,
             \/ ClaimLock(w) \/ ClaimNothing(w) \/ ClaimCommit(w) \/ FinishJob(w)
      PROVE  orphans' = orphans /\ \A k \in Jobs : Lost(k) => Lost(k)'
  BY <1>4 DEF ClaimLock, ClaimNothing, ClaimCommit, FinishJob, Goto, rowVars, runVars
<1>5. ASSUME NEW w \in Workers,
             \/ Begin(w) \/ StartRun(w) \/ EndRun(w) \/ Settle(w) \/ Raise(w)
             \/ Return(w) \/ LoadJob(w) \/ MarkTaskFailed(w) \/ Renew(w)
      PROVE  orphans' = orphans /\ \A k \in Jobs : Lost(k) => Lost(k)'
  BY <1>5 DEF Begin, StartRun, EndRun, Settle, Raise, Return, LoadJob, MarkTaskFailed, Renew, Goto,
              rowVars, runVars, workerVars
<1>6. ASSUME NEW w \in Workers, Crash(w) PROVE \E j \in Jobs : Lost(j)'
  <2>1. \A k \in Jobs : Lost(k) => Lost(k)'
    BY <1>6 DEF Crash, Goto, rowVars
  <2>2. CASE t \in orphans
    BY <1>1, <2>1, <2>2
  <2>3. CASE t \notin orphans
    <3>1. run[w] = "STARTED" /\ t = Task(w)
      BY <1>6, <2>3 DEF Crash
    <3>2. pc[w] = "working"
      BY <3>1 DEF QueueInv, OwnerInv, RowInv, TypeOK
    <3> QED
      BY <1>6, <3>1, <3>2 DEF Crash, Goto, rowVars, Task
  <2> QED
    BY <2>2, <2>3
<1>7. CASE UNCHANGED vars
  BY <1>1, <1>7 DEF vars, rowVars, runVars, workerVars
<1> QED
  BY <1>1, <1>2, <1>3, <1>4, <1>5, <1>6, <1>7 DEF Next, Iterate

-----------------------------------------------------------------------------
(* Theorems.                                                               *)

\* RowInv is an invariant whatever the bounds.
THEOREM RowInvariant == Spec => []RowInv
  BY RowInvInit, RowInvNext, PTL DEF Spec

\* Type correctness of the rows, the tasks and the workers.
THEOREM TypeCorrect == Spec => []TypeOK
<1>1. RowInv => TypeOK
  BY DEF RowInv
<1> QED
  BY <1>1, RowInvariant, PTL

\* Every running job has a lease for the reaper to find it by, and only a
\* stall can leave one on a row that does not run (jobs.py:173-206).
THEOREM LeaseAgrees == Spec => []LeaseTracksRunning
<1>1. OwnerInv => LeaseTracksRunning
  BY DEF OwnerInv
<1> QED
  BY <1>1, OwnerInvInit, OwnerInvNext, PTL DEF Spec

\* No job starts more than WORKER_MAX_ATTEMPTS times (ADR-017:70-71).
THEOREM AttemptsBounded == Spec => []AttemptLeft
<1>1. RowInv => AttemptLeft
  BY DEF RowInv
<1> QED
  BY <1>1, RowInvariant, PTL

\* SKIP LOCKED keeps claims apart (ADR-016:60-61).
THEOREM ClaimsAreDisjoint == Spec => []ClaimsDisjoint
<1>1. RowInv => ClaimsDisjoint
  BY DEF RowInv
<1> QED
  BY <1>1, RowInvariant, PTL

\* A finished job is final, late finishes and renewals included.
THEOREM FinishedJobsAreFinal == Spec => FinishedIsFinal
<1> DEFINE Final == \A j \in Jobs : status[j] \in {"SUCCEEDED", "FAILED"} =>
                                       status'[j] \in {"SUCCEEDED", "FAILED"}
<1>1. RowInv /\ [Next]_vars => [Final]_vars
  <2> SUFFICES ASSUME RowInv, Next, NEW j \in Jobs,
                      status[j] \in {"SUCCEEDED", "FAILED"}
               PROVE  status'[j] \in {"SUCCEEDED", "FAILED"}
    OBVIOUS
  <2> USE DEF RowInv, TypeOK, ReadFinal, ClaimsDisjoint
  <2>1. ASSUME NEW k \in Jobs, Accept(k) \/ ClaimReview(k) \/ LeaseLapses(k)
        PROVE  status'[j] \in {"SUCCEEDED", "FAILED"}
    BY <2>1 DEF Accept, ClaimReview, NewJob, LeaseLapses
  <2>2. ASSUME NEW w \in Workers,
               Reap(w) \/ ClaimCommit(w) \/ FinishJob(w) \/ Crash(w) \/ Renew(w)
        PROVE  status'[j] \in {"SUCCEEDED", "FAILED"}
    BY <2>2 DEF Reap, Expired, Dead, Requeued, AbandonedTasks, ReapedTasks, ClaimCommit, FinishJob, Flushed, Crash,
                Renew, rowVars
  <2>3. ASSUME NEW w \in Workers,
               \/ ClaimLock(w) \/ ClaimNothing(w) \/ Begin(w) \/ StartRun(w)
               \/ EndRun(w) \/ Settle(w) \/ Return(w) \/ LoadJob(w) \/ MarkTaskFailed(w)
               \/ Raise(w)
        PROVE  status'[j] \in {"SUCCEEDED", "FAILED"}
    BY <2>3 DEF ClaimLock, ClaimNothing, Begin, StartRun, EndRun, Settle, Return,
                LoadJob, MarkTaskFailed, Raise, rowVars
  <2> QED
    BY <2>1, <2>2, <2>3 DEF Next, Iterate
<1> QED
  BY <1>1, RowInvariant, PTL DEF Spec, FinishedIsFinal

\* Until a lease lapses under a live worker, a job has one executor and its
\* row says which, so the unconditional UPDATE of finish_job is harmless.
THEOREM SingleExecutor == Spec => []OneExecutor
<1>1. OwnerInv => OneExecutor
  BY DEF OwnerInv
<1> QED
  BY <1>1, OwnerInvInit, OwnerInvNext, PTL DEF Spec

\* ... and no accepted task is silently stuck (ADR-016:93-94).
THEOREM NoTaskIsStuck == Spec => []TasksKeepAJob
<1>1. WaitingIsOwed => TasksKeepAJob
  BY DEF WaitingIsOwed, OwingJob, TasksKeepAJob, NoStuckTask
<1> QED
  BY <1>1, OwnerInvInit, OwnerInvNext, WaitingIsOwedNext, PTL DEF Spec

\* ... and the reaper will find every run that a dead worker left STARTED
\* (ADR-017:37-38).
THEOREM OrphansAreFound == Spec => []OrphansWillBeReaped
<1>1. Init => OrphansWillBeReaped
  BY DEF Init, OrphansWillBeReaped
<1> QED
  BY <1>1, OrphansKept, OwnerInvInit, OwnerInvNext, PTL DEF Spec
=============================================================================
