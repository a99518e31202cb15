---------------------------- MODULE IssueAnalysis ----------------------------
(***************************************************************************)
(* ANALYZE_GITHUB_ISSUE of app/services/github_issues.py (ADR-013): an     *)
(* agent analyses the stored issue, its analysis becomes the request and   *)
(* the context of the task, and the engineering workflow runs on them.     *)
(* Each result is a commit of its own, and a recovery decides from the     *)
(* row which of them it still has to do (ADR-017:49).                      *)
(*                                                                         *)
(* The rows of agent_runs (lifecycle.py, audit.py) are modelled one by     *)
(* one: what the reaper, a resumed review and a recovered analysis of one  *)
(* task write to them.  Every action is one of JobQueue with what it does  *)
(* to the task row, the workflow thread and those rows conjoined; leases   *)
(* lapse only under dead workers here.                                     *)
(***************************************************************************)
EXTENDS JobQueue, Sequences

CONSTANTS MaxFaults     \* bound: agents, commits or audit writes that raise

ASSUME IssueConstantsOK ==
    /\ \A j \in Jobs : Kind[j] \in {"ANALYZE_GITHUB_ISSUE", "RESUME_HUMAN_REVIEW"}
    /\ MaxFaults \in Nat
    /\ MaxStalls = 0

VARIABLES
    runs,       \* agent_runs: the status of a row, and (history) what became
                \* of its agent: at work, done, raised or lost with its worker,
                \* or unwritten, done but its completion could not be stored
    mine,       \* the row a worker's lifecycle holds, 0 for none
    step,       \* where a worker is in its handler
    draft,      \* the analysis a handler has in memory, as the row of its run
    analysis,   \* tasks.issue_analysis and tasks.request, committed together
    bundle,     \* tasks.context_bundle, as the analysis it was built from
    thread,     \* the request and bundle a task's thread was started with
    found,      \* what security_findings holds of the review of a thread
    faults

taskVars  == <<analysis, bundle, thread, found>>
issueVars == <<runs, mine, step, draft, taskVars, faults>>
allVars   == <<vars, issueVars>>

IssueInit ==
    /\ Init
    /\ runs     = <<>>
    /\ mine     = [w \in Workers |-> 0]
    /\ step     = [w \in Workers |-> "none"]
    /\ draft    = [w \in Workers |-> 0]
    /\ analysis = [t \in Tasks |-> 0]
    /\ bundle   = [t \in Tasks |-> 0]
    /\ thread   = [t \in Tasks |-> 0]
    /\ found    = [t \in Tasks |-> "UNKNOWN"]
    /\ faults   = 0

Resumes(w)  == Kind[cur[w]] = "RESUME_HUMAN_REVIEW"
At(w, place) == pc[w] = "working" /\ step[w] = place
GoOn(w, place) == step' = [step EXCEPT ![w] = place]

-----------------------------------------------------------------------------
(* The API.                                                                *)

\* accept_github_issue: a sanitized snapshot, committed with its job; a
\* repository that is not allowed or an upstream error creates nothing.
AcceptIssue(j) == Accept(j) /\ UNCHANGED issueVars

\* claim_human_review, as JobQueue has it
DecideReview(j) == ClaimReview(j) /\ UNCHANGED issueVars

-----------------------------------------------------------------------------
(* run_github_issue_analysis.                                              *)

\* Mutant: a stored analysis is enough.
AnalysedOnly(w) == attempts[cur[w]] > 1 /\ analysis[Task(w)] # 0
\* Mutant: a recovery starts over.
AnalysedNever(w) == FALSE
\* A recovery finds the analysis and the bundle in the row.
Analysed(w) == /\ attempts[cur[w]] > 1
               /\ analysis[Task(w)] # 0 /\ bundle[Task(w)] # 0

\* The status of the start, ANALYZING_ISSUE or the workflow's; a resumed
\* review goes on with its thread.
BeginHandler(w) ==
    /\ Begin(w)
    /\ GoOn(w, IF Resumes(w) THEN "graph" ELSE IF Analysed(w) THEN "enter" ELSE "analyse")
    /\ UNCHANGED <<runs, mine, draft, taskVars, faults>>

\* start_agent_run: for the analysis, and for an agent of the workflow
StartAgent(w) ==
    /\ At(w, "analyse") \/ At(w, "graph")
    /\ StartRun(w)
    /\ runs' = Append(runs, [task |-> Task(w), status |-> "STARTED", agent |-> "working"])
    /\ mine' = [mine EXCEPT ![w] = Len(runs')]
    /\ UNCHANGED <<step, draft, taskVars, faults>>

\* The row is inserted and its event cannot be written: lifecycle.py:40-45
\* is outside the try statement, so nobody closes the row.
StartUnheard(w) ==
    /\ At(w, "analyse") \/ At(w, "graph")
    /\ run[w] = "NONE" /\ faults < MaxFaults
    /\ faults' = faults + 1
    /\ runs' = Append(runs, [task |-> Task(w), status |-> "STARTED", agent |-> "raised"])
    /\ GoOn(w, "error")
    /\ UNCHANGED <<vars, mine, draft, taskVars>>

\* Mutant: a row that the reaper has closed is left alone.
SucceedsIfStarted(old) == IF old = "STARTED" THEN "SUCCEEDED" ELSE old
\* complete_agent_run writes its status whatever the row says.
Succeeded(old) == "SUCCEEDED"

CompleteAgent(w) ==
    /\ mine[w] # 0
    /\ EndRun(w)
    /\ runs' = [runs EXCEPT ![mine[w]].status = Succeeded(@), ![mine[w]].agent = "done"]
    /\ mine' = [mine EXCEPT ![w] = 0]
    /\ IF step[w] = "analyse"
       THEN GoOn(w, "analysed") /\ draft' = [draft EXCEPT ![w] = mine[w]]
       ELSE GoOn(w, "stopped") /\ UNCHANGED draft
    /\ UNCHANGED <<taskVars, faults>>

\* The agent raises: fail_agent_run, and the exception goes on to the handler.
FailAgent(w) ==
    /\ mine[w] # 0 /\ faults < MaxFaults
    /\ EndRun(w)
    /\ faults' = faults + 1
    /\ runs' = [runs EXCEPT ![mine[w]].status = "FAILED", ![mine[w]].agent = "raised"]
    /\ mine' = [mine EXCEPT ![w] = 0]
    /\ GoOn(w, "error")
    /\ UNCHANGED <<draft, taskVars>>

\* The row is closed and its event cannot be written: the session has to be
\* rolled back, so fail_agent_run raises in its turn and the row stays.
CompleteUnheard(w) ==
    /\ mine[w] # 0 /\ faults < MaxFaults
    /\ EndRun(w)
    /\ faults' = faults + 1
    /\ runs' = [runs EXCEPT ![mine[w]].status = Succeeded(@), ![mine[w]].agent = "done"]
    /\ mine' = [mine EXCEPT ![w] = 0]
    /\ GoOn(w, "error")
    /\ UNCHANGED <<draft, taskVars>>

\* The agent returned, or raised, and the commit that says so raises: the
\* session has to be rolled back, so fail_agent_run raises in its turn and
\* the row stays as it was.
LoseWrite(w) ==
    /\ mine[w] # 0 /\ faults < MaxFaults
    /\ EndRun(w)
    /\ faults' = faults + 1
    /\ \E end \in {"unwritten", "raised"} : runs' = [runs EXCEPT ![mine[w]].agent = end]
    /\ mine' = [mine EXCEPT ![w] = 0]
    /\ GoOn(w, "error")
    /\ UNCHANGED <<draft, taskVars>>

\* issue_analysis and _task_request, in one commit
StoreAnalysis(w) ==
    /\ At(w, "analysed")
    /\ analysis' = [analysis EXCEPT ![Task(w)] = draft[w]]
    /\ GoOn(w, "bundle")
    /\ UNCHANGED <<vars, runs, mine, draft, bundle, thread, found, faults>>

\* persist_context_bundle: _context_sources takes the analysis in memory
StoreBundle(w) ==
    /\ At(w, "bundle")
    /\ bundle' = [bundle EXCEPT ![Task(w)] = draft[w]]
    /\ GoOn(w, "enter")
    /\ UNCHANGED <<vars, runs, mine, draft, analysis, thread, found, faults>>

\* A commit, the event between the two or build_context_bundle raises.
StoreFails(w) ==
    /\ At(w, "analysed") \/ At(w, "bundle")
    /\ faults < MaxFaults
    /\ faults' = faults + 1
    /\ GoOn(w, "error")
    /\ UNCHANGED <<vars, runs, mine, draft, taskVars>>

\* invoke_workflow: a first attempt, or a thread without a checkpoint
StartsThread(w) == attempts[cur[w]] = 1 \/ thread[Task(w)] = 0

\* run_task_workflow up to the first checkpoint of the thread
EnterWorkflow(w) ==
    /\ At(w, "enter")
    /\ IF bundle[Task(w)] = 0
       THEN GoOn(w, "error") /\ UNCHANGED <<task, thread>>
       ELSE /\ GoOn(w, "graph")
            /\ task' = [task EXCEPT ![Task(w)] = "ANALYZING"]
            /\ thread' = IF StartsThread(w)
                         THEN [thread EXCEPT ![Task(w)] = bundle[Task(w)]] ELSE thread
    /\ UNCHANGED <<rowVars, runVars, workerVars, boundVars, runs, mine, draft,
                   analysis, bundle, found, faults>>

\* _apply_workflow_result, once the graph has returned, in one commit with
\* the findings of its security review.  The review is in the checkpoint: what
\* one application of the thread finds, every other finds.
ApplyResult(w) ==
    /\ At(w, "graph") \/ At(w, "stopped")
    /\ Settle(w)
    /\ IF Resumes(w) THEN UNCHANGED found
       ELSE \E f \in {"NONE", "SOME"} :
              /\ found[Task(w)] \in {"UNKNOWN", "NONE"} /\ found[Task(w)] \in {"UNKNOWN", f}
              /\ found' = [found EXCEPT ![Task(w)] = f]
    /\ UNCHANGED <<runs, mine, step, draft, analysis, bundle, thread, faults>>

\* persist_security_findings inserts the findings of the thread under the
\* identifiers in them; a second time that is an IntegrityError.
RejectFindings(w) ==
    /\ At(w, "graph") \/ At(w, "stopped")
    /\ run[w] = "NONE"
    /\ ~Resumes(w) /\ found[Task(w)] = "SOME"
    /\ GoOn(w, "error")
    /\ UNCHANGED <<vars, runs, mine, draft, taskVars, faults>>

\* A recovery that found everything in the row runs the workflow outside the
\* try statement of run_github_issue_analysis (github_issues.py:228-230).
Recovers(w) == ~Resumes(w) /\ Analysed(w) /\ draft[w] = 0

\* Within it, _fail_task: rollback, FAILED, and the exception goes on.  A
\* resumed review writes FAILED too, unless its session is the one a write
\* failed in (tasks.py:418-438).
HandlerRaises(w) ==
    /\ At(w, "error")
    /\ Raise(w)
    /\ Recovers(w) => task' = task
    /\ ~Recovers(w) /\ ~Resumes(w) => task'[Task(w)] = "FAILED"
    /\ UNCHANGED issueVars

-----------------------------------------------------------------------------
(* The queue around the handlers, and failures.                            *)

\* What a worker forgets when its handler ends, in either way.
Forget(w) ==
    /\ mine'  = [mine EXCEPT ![w] = 0]
    /\ GoOn(w, "none")
    /\ draft' = [draft EXCEPT ![w] = 0]

LeaveHandler(w) ==
    /\ Return(w) \/ MarkTaskFailed(w)
    /\ Forget(w)
    /\ UNCHANGED <<runs, taskVars, faults>>

PollQueue(w) ==
    /\ ClaimLock(w) \/ ClaimNothing(w) \/ ClaimCommit(w) \/ LoadJob(w) \/ FinishJob(w)
    /\ UNCHANGED issueVars

\* Mutant: the runs of the task are closed whatever they say.
AbandonsAny(r) == TRUE
\* The condition of the UPDATE of _abandon_agent_runs.
Abandons(r) == r.status = "STARTED"

ReapJobs(w) ==
    /\ Reap(w)
    /\ runs' = [i \in 1..Len(runs) |->
                  IF runs[i].task \in ReapedTasks /\ Abandons(runs[i])
                  THEN [runs[i] EXCEPT !.status = "ABANDONED"] ELSE runs[i]]
    /\ UNCHANGED <<mine, step, draft, taskVars, faults>>

LapseOfLease(j) == LeaseLapses(j) /\ UNCHANGED issueVars

CrashWorker(w) ==
    /\ Crash(w)
    /\ runs' = IF mine[w] = 0 THEN runs ELSE [runs EXCEPT ![mine[w]].agent = "lost"]
    /\ Forget(w)
    /\ UNCHANGED <<taskVars, faults>>

WorkerStep(w) ==
    \/ PollQueue(w) \/ ReapJobs(w) \/ BeginHandler(w)
    \/ StartAgent(w) \/ CompleteAgent(w)
    \/ StoreAnalysis(w) \/ StoreBundle(w) \/ EnterWorkflow(w)
    \/ ApplyResult(w) \/ RejectFindings(w) \/ HandlerRaises(w) \/ LeaveHandler(w)

IssueNext ==
    \/ \E j \in Jobs : AcceptIssue(j) \/ DecideReview(j) \/ LapseOfLease(j)
    \/ \E w \in Workers : \/ WorkerStep(w) \/ CrashWorker(w)
                          \/ StartUnheard(w) \/ FailAgent(w)
                          \/ CompleteUnheard(w) \/ LoseWrite(w) \/ StoreFails(w)

IssueSpec == IssueInit /\ [][IssueNext]_allVars

\* Workers keep going and time passes; nothing is assumed of clients.
FairIssueSpec ==
    /\ IssueSpec
    /\ \A w \in Workers : WF_allVars(WorkerStep(w))
    /\ \A j \in Jobs : WF_allVars(LapseOfLease(j))

-----------------------------------------------------------------------------
(* Properties.                                                             *)

\* The workflow works on what the task shows: its thread was started with the
\* request and the bundle of the row, and both come from one analysis, through
\* crashes between any two of the commits (github_issues.py:228-268).
ThreadMatchesRow ==
    \A t \in Tasks : thread[t] # 0 =>
        thread[t] = bundle[t] /\ bundle[t] = analysis[t]

\* The status of a row against what became of its agent.
Told(r) ==
    CASE r.status = "SUCCEEDED" -> r.agent = "done"
      [] r.status = "FAILED"    -> r.agent = "raised"
      [] r.status = "ABANDONED" -> r.agent # "done"
      [] r.status = "STARTED"   -> r.agent # "done"

\* No row tells a wrong end, whatever the reaper and the lifecycles write at
\* the same time: SUCCEEDED is said of agents that returned, FAILED of agents
\* that raised, and of an agent that returned nothing else is said unless its
\* completion could not be written.  An ABANDONED agent may be at work still
\* (jobs.py:154-164, audit.py:69-114).
TrailIsTruthful == \A i \in 1..Len(runs) : Told(runs[i])

\* A job of the task that had no attempt left.
GivenUp(t) == \E j \in Jobs : TaskOf[j] = t /\ status[j] = "FAILED" /\ attempts[j] = MaxAttempts

\* The findings of the task's thread were stored before a crash, and a
\* recovery of its analysis has stored them again.
StoredTwice(t) ==
    /\ found[t] = "SOME" /\ crashes > 0
    /\ \E j \in Jobs : TaskOf[j] = t /\ Kind[j] = "ANALYZE_GITHUB_ISSUE" /\ attempts[j] > 1

\* Where nothing raises, a task fails for one of two reasons: a job had no
\* attempt left, or a recovery came after the commit of the outcome and the
\* findings in it.  A crash between the earlier commits makes no recovery find
\* a row it cannot go on from (github_issues.py:228-268, tasks.py:232-240).
FailsForAReason ==
    \A t \in Tasks : task[t] = "FAILED" /\ faults = 0 => GivenUp(t) \/ StoredTwice(t)

\* The rows that are shown as STARTED, those excepted whose own start or end was
\* a write that raised.
OpenRuns == {i \in DOMAIN runs : runs[i].status = "STARTED"
                                  /\ runs[i].agent \in {"working", "lost"}}

\* No run is shown as STARTED for ever (ADR-017:37-38), through crashes of its
\* worker at any place and writes of other rows that raise.
EveryRunEnds == []<>(OpenRuns = {})

\* "agent runs left in STARTED by the dead worker are marked ABANDONED"
\* (ADR-017:37): a run that is marked has no live worker.
LiveRunsStayOpen == \A w \in Workers : run[w] # "ABANDONED"
=============================================================================
