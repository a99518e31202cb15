------------------------- MODULE ExternalValidation -------------------------
(***************************************************************************)
(* POST /tasks/{id}/external-validation (api/routes/tasks.py:395-481): the *)
(* request loads the task row, runs the scanners for minutes, and writes   *)
(* its decision over the row.  Nothing stops two requests, or a request    *)
(* and a recovered workflow job (services/tasks.py), from overlapping.     *)
(*                                                                         *)
(* The session writes back only the columns whose new value differs from   *)
(* the value it loaded, so an overlapping write is lost column by column.  *)
(***************************************************************************)
EXTENDS Naturals, FiniteSets

CONSTANTS
    Requests,       \* the calls of the endpoint
    Workflow,       \* the writer of the workflow's own result
    NoRow, NoScan,
    MaxRework,      \* rework.max_attempts of policies/execution.yaml
    MaxRecoveries   \* bound: recovered executions of the finished workflow

ASSUME ExternalConstantsOK ==
    /\ IsFiniteSet(Requests)
    /\ Workflow \notin Requests
    /\ NoScan \notin [by : Requests, reports : SUBSET {"FAILED", "HIGH", "LOW"}]
    /\ MaxRework \in Nat \ {0}
    /\ MaxRecoveries \in Nat

VARIABLES
    row,        \* status, rework_count, rework_decision, external_scan
    thread,     \* the result of the finished workflow thread
    pc,         \* where a request is
    loaded,     \* the row as a request's session loaded it
    evidence,   \* what the scanners of a request reported
    recovering, \* a recovered EXECUTE_TASK job: none, started, or past its read
    reread,     \* the row as that job's session loaded it
    recoveries

vars == <<row, thread, pc, loaded, evidence, recovering, reread, recoveries>>

\* A scanner's evidence: its execution failed, or it has findings.
Reports   == {"FAILED", "HIGH", "LOW"}
Reasons(ev) == ev \cap {"FAILED", "HIGH"}

\* ReworkController.decide
Decision(by, attempt, ev) ==
    [by |-> by, attempt |-> attempt, required |-> Reasons(ev) # {},
     exhausted |-> Reasons(ev) # {} /\ attempt >= MaxRework]

\* Mutant: a required rework is looked at before an exhausted one.
StatusRequiredFirst(d) ==
    CASE d.required -> "REWORK_REQUIRED" [] OTHER -> "COMPLETED"
\* The status the endpoint writes for a decision.
StatusOf(d) ==
    CASE d.exhausted -> "REWORK_EXHAUSTED"
      [] d.required /\ ~d.exhausted -> "REWORK_REQUIRED"
      [] OTHER -> "COMPLETED"

\* What validation_gate left: n failed validations, the last one exhausting
\* the limit or followed by one that passed.
Results ==
    {[status |-> StatusOf(d), count |-> d.attempt, decision |-> d, scan |-> NoScan] :
        d \in {Decision(Workflow, n, {}) : n \in 0..MaxRework - 1}
              \cup {Decision(Workflow, MaxRework, {"HIGH"})}}

Init ==
    /\ thread \in Results
    /\ row        = thread
    /\ pc         = [r \in Requests |-> "new"]
    /\ loaded     = [r \in Requests |-> NoRow]
    /\ evidence   = [r \in Requests |-> {}]
    /\ recovering = "NO"
    /\ reread     = NoRow
    /\ recoveries = 0

Goto(r, place) == pc' = [pc EXCEPT ![r] = place]

\* db.get: the row has an implementation, so the call goes on.
Load(r) ==
    /\ pc[r] = "new"
    /\ Goto(r, "scanning")
    /\ loaded' = [loaded EXCEPT ![r] = row]
    /\ UNCHANGED <<row, thread, evidence, recovering, reread, recoveries>>

\* ExternalValidationService.run: each scanner reports, times out or fails
Scan(r) ==
    /\ pc[r] = "scanning"
    /\ Goto(r, "deciding")
    /\ \E ev \in SUBSET Reports : evidence' = [evidence EXCEPT ![r] = ev]
    /\ UNCHANGED <<row, thread, loaded, recovering, reread, recoveries>>

\* The service raises: 503, nothing is written.
Unavailable(r) ==
    /\ pc[r] = "scanning"
    /\ Goto(r, "done")
    /\ UNCHANGED <<row, thread, loaded, evidence, recovering, reread, recoveries>>

\* Mutant: the scan counts as an attempt of its own.
AttemptTwice(r) == loaded[r].count + 2
\* Mutant: as in validation_gate, only a failure counts.
AttemptOnFailure(r) == IF Reasons(evidence[r]) # {} THEN loaded[r].count + 1
                       ELSE loaded[r].count
\* The attempt a request passes to the controller.
NextAttempt(r) == loaded[r].count + 1

\* Mutant: the evidence of an earlier call is kept.
KeepScan(r) == IF loaded[r].scan = NoScan THEN [by |-> r, reports |-> evidence[r]]
               ELSE loaded[r].scan
\* The evidence a request stores; durations make it differ from any other.
NewScan(r) == [by |-> r, reports |-> evidence[r]]

\* The columns as the request sets them on its record.
Wanted(r) ==
    LET d == Decision(r, NextAttempt(r), evidence[r])
    IN  [status |-> StatusOf(d), count |-> d.attempt, decision |-> d, scan |-> NewScan(r)]

\* The UPDATE of the flush: only what differs from what was loaded.
Flushed(old, new) ==
    [c \in DOMAIN row |-> IF new[c] = old[c] THEN row[c] ELSE new[c]]

Commit(r) ==
    /\ pc[r] = "deciding"
    /\ Goto(r, "done")
    /\ row' = Flushed(loaded[r], Wanted(r))
    /\ UNCHANGED <<thread, loaded, evidence, recovering, reread, recoveries>>

\* run_task_workflow of a worker that recovers the finished thread (ADR-017):
\* the commit of TASK_RECOVERED, which expires the record
Recover ==
    /\ recovering = "NO" /\ recoveries < MaxRecoveries
    /\ recovering' = "STARTED"
    /\ recoveries' = recoveries + 1
    /\ row' = [row EXCEPT !.status = "ANALYZING"]
    /\ UNCHANGED <<thread, pc, loaded, evidence, reread>>

\* record.request, an argument of invoke_workflow, loads the whole row again;
\* no node of a finished thread runs, so nothing expires it once more.
Reread ==
    /\ recovering = "STARTED"
    /\ recovering' = "LOADED"
    /\ reread' = row
    /\ UNCHANGED <<row, thread, pc, loaded, evidence, recoveries>>

\* What _apply_workflow_result writes; external_scan is not one of its columns.
Reapplied(old, new) == [Flushed(old, new) EXCEPT !.scan = row.scan]

Reapply ==
    /\ recovering = "LOADED"
    /\ recovering' = "NO" /\ reread' = NoRow
    /\ row' = Reapplied(reread, thread)
    /\ UNCHANGED <<thread, pc, loaded, evidence, recoveries>>

\* The recovered job fails on its findings or before: _mark_task_failed
FailRecovery ==
    /\ recovering # "NO"
    /\ recovering' = "NO" /\ reread' = NoRow
    /\ row' = [row EXCEPT !.status = "FAILED"]
    /\ UNCHANGED <<thread, pc, loaded, evidence, recoveries>>

Next ==
    \/ \E r \in Requests : Load(r) \/ Scan(r) \/ Unavailable(r) \/ Commit(r)
    \/ Recover \/ Reread \/ Reapply \/ FailRecovery

Spec == Init /\ [][Next]_vars

-----------------------------------------------------------------------------
Counts    == 0..MaxRework + Cardinality(Requests)
Decided   == [by : Requests \cup {Workflow}, attempt : Counts,
              required : BOOLEAN, exhausted : BOOLEAN]
Scans     == [by : Requests, reports : SUBSET Reports] \cup {NoScan}
Rows      == [status : {"COMPLETED", "REWORK_REQUIRED", "REWORK_EXHAUSTED",
                        "ANALYZING", "FAILED"},
              count : Counts, decision : Decided, scan : Scans]

\* Type invariant; the count grows by at most one per call.
TypeOK ==
    /\ row \in Rows /\ thread \in Rows
    /\ pc \in [Requests -> {"new", "scanning", "deciding", "done"}]
    /\ loaded \in [Requests -> Rows \cup {NoRow}]
    /\ evidence \in [Requests -> SUBSET Reports]
    /\ recovering \in {"NO", "STARTED", "LOADED"}
    /\ reread \in Rows \cup {NoRow} /\ (reread # NoRow => recovering = "LOADED")
    /\ recoveries \in 0..MaxRecoveries

\* The count and the decision of a row always belong to the same write, in
\* any overlap of calls and recoveries, though every UPDATE is partial: both
\* differ from what a call loaded, and a recovered workflow finds both as its
\* thread has them or both written by a call, whose count is above the thread's
\* (routes/tasks.py:444-451, services/tasks.py:224-232).
DecisionMatchesCount == row.decision.attempt = row.count

\* The evidence a row shows is the evidence its decision was made from,
\* unless a recovered workflow has decided since.
EvidenceIsWhole ==
    row.decision.by # Workflow =>
        /\ row.scan # NoScan
        /\ row.scan.by = row.decision.by
        /\ row.decision.required <=> Reasons(row.scan.reports) # {}

\* A call that nobody overlapped leaves the row agreeing with its evidence:
\* the columns its flush leaves out already had the right value.
UndisturbedCallAgrees ==
    [][\A r \in Requests :
          pc[r] = "deciding" /\ pc'[r] = "done" /\ loaded[r] = row =>
              /\ row'.scan.by = r
              /\ row'.status = "COMPLETED" <=> Reasons(row'.scan.reports) = {}
              /\ row'.status = "REWORK_EXHAUSTED" <=>
                     Reasons(row'.scan.reports) # {} /\ row'.count >= MaxRework]_vars

\* External scanner failures and findings fail closed (ADR-007:28-30): no task
\* is COMPLETED over the evidence of a failed scan.
FailClosed ==
    row.scan # NoScan /\ row.status = "COMPLETED" => Reasons(row.scan.reports) = {}
=============================================================================
