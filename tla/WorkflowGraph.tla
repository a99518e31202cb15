--------------------------- MODULE WorkflowGraph ---------------------------
(***************************************************************************)
(* The LangGraph workflow of app/orchestration/graph.py as operators on a  *)
(* thread state: Steps(s) is the set of states that executing the node     *)
(* s.next may checkpoint, with the conditional edge behind it taken.       *)
(*                                                                         *)
(* An artifact is abstracted to the set of actions of the policies of      *)
(* policies/quality-gates.yaml it fails: {} passes every gate, {"ABSENT"}  *)
(* was not produced.  It is named after the node that produces it.         *)
(***************************************************************************)
EXTENDS Naturals

CONSTANTS
    MaxRework,      \* rework.max_attempts of policies/execution.yaml
    Automatic,      \* rework.automatic of policies/execution.yaml
    Outputs         \* what the artifact of an agent node may fail

AgentNodes == {"requirements", "specification", "architecture", "security",
               "test_planning", "implementation", "validation"}
GateNodes  == {"requirements_gate", "specification_gate", "architecture_gate",
               "security_gate", "test_plan_gate", "implementation_gate",
               "validation_gate"}
Nodes == AgentNodes \cup GateNodes \cup
         {"context", "prepare_human_review", "human_review", "judge", "blocked"}

Actions   == {"BLOCK", "HUMAN_REVIEW", "REWORK", "ABSENT"}
Decisions == {"APPROVED", "REJECTED", "EXPIRED"}
Reviews   == Decisions \cup {"NONE", "PENDING"}

ASSUME GraphConstantsOK ==
    /\ MaxRework \in Nat \ {0}      \* rework.py:22-23 raises below 1
    /\ Automatic \in BOOLEAN
    /\ Outputs \in [AgentNodes -> SUBSET (SUBSET (Actions \ {"ABSENT"}))]
    /\ Outputs["security"] \subseteq SUBSET {"BLOCK", "HUMAN_REVIEW"}  \* SEC-001..004

\* The gate behind an agent node, and the status the agent node writes.
GateOf == [requirements   |-> "requirements_gate",
           specification  |-> "specification_gate",
           architecture   |-> "architecture_gate",
           security       |-> "security_gate",
           test_planning  |-> "test_plan_gate",
           implementation |-> "implementation_gate",
           validation     |-> "validation_gate"]

AgentStatus == [requirements   |-> "ANALYZING",
                specification  |-> "SPECIFYING",
                architecture   |-> "ARCHITECTING",
                security       |-> "SECURITY_REVIEW",
                test_planning  |-> "TEST_PLANNING",
                implementation |-> "IMPLEMENTING",
                validation     |-> "VALIDATING"]

Statuses == {AgentStatus[a] : a \in AgentNodes} \cup
            {"CONTEXTUALIZING", "READY_FOR_IMPLEMENTATION", "HUMAN_REVIEW",
             "BLOCKED", "REWORK_REQUIRED", "REWORK_EXHAUSTED", "COMPLETED"}

\* The states of a thread at one of `places`, and of one the graph moves.
ThreadsAt(places) ==
    [next : places, status : Statuses, blocked : BOOLEAN,
     art : [AgentNodes -> SUBSET Actions], policies : Nat,
     review : Reviews, reviewAt : Nat, rework : Nat, decisions : Nat,
     judged : BOOLEAN, builds : Nat, checked : Nat]
Threads == ThreadsAt(Nodes \cup {"END"})

\* The input of run_task_workflow's first invocation.
Start == [next      |-> "context",
          status    |-> "ANALYZING",
          blocked   |-> FALSE,
          art       |-> [a \in AgentNodes |-> {"ABSENT"}],
          policies  |-> 0,          \* len(policy_results)
          review    |-> "NONE",     \* human_review.status
          reviewAt  |-> 0,          \* human_review.policy_result_count
          rework    |-> 0,          \* rework_count
          decisions |-> 0,          \* len(rework_history)
          judged    |-> FALSE,      \* judge_evaluation is present
          builds    |-> 0,          \* history: implementations produced
          checked   |-> 0]          \* history: the build validated last

-----------------------------------------------------------------------------
(* Nodes.  Each takes the thread state to the set of its successors.       *)

Contextualize(s) ==
    {[s EXCEPT !.status = "CONTEXTUALIZING", !.next = "requirements"]}

\* requirements, specification, ..., validation
RunAgent(s) ==
    LET a == s.next IN
    {[s EXCEPT !.art[a]  = fails,
               !.status  = AgentStatus[a],
               !.builds  = IF a = "implementation" THEN @ + 1 ELSE @,
               !.checked = IF a = "validation" THEN s.builds ELSE @,
               !.next    = GateOf[a]] : fails \in Outputs[a]}

\* A gate whose failure leads to the node "blocked".
BlockingGate(s, fails, policies, next) ==
    {[s EXCEPT !.policies = policies,
               !.blocked  = fails,
               !.next     = IF fails THEN "blocked" ELSE next]}

\* Only a failed policy whose action is BLOCK blocks; starts policy_results.
RequirementsGate(s) ==
    BlockingGate(s, s.art["requirements"] \cap {"BLOCK", "ABSENT"} # {}, 2, "specification")

SpecificationGate(s) ==
    BlockingGate(s, s.art["specification"] # {}, s.policies + 4, "architecture")

ArchitectureGate(s) ==
    BlockingGate(s, s.art["architecture"] # {}, s.policies + 1, "security")

\* Mutant: the gate starts a new list of policy results.
TestPlanGateOverwrites(s) ==
    BlockingGate(s, s.art["test_planning"] # {}, 3, "implementation")
TestPlanGate(s) ==
    BlockingGate(s, s.art["test_planning"] # {}, s.policies + 3, "implementation")

\* The only gate that also sets the status of a thread it lets through.
ImplementationGate(s) ==
    LET fails == s.art["implementation"] # {} IN
    {[t EXCEPT !.status = IF fails THEN "BLOCKED" ELSE "IMPLEMENTING"] :
        t \in BlockingGate(s, fails, s.policies + 1, "validation")}

\* Mutant: a thread that needs a review ends.
RouteReviewToEnd(status) ==
    IF status = "READY_FOR_IMPLEMENTATION" THEN "test_planning" ELSE "END"
RouteAfterSecurity(status) ==
    CASE status = "READY_FOR_IMPLEMENTATION" -> "test_planning"
      [] status = "HUMAN_REVIEW"             -> "prepare_human_review"
      [] OTHER                               -> "END"

\* A hard block wins over a review.
SecurityGate(s) ==
    LET hard   == s.art["security"] \cap {"BLOCK", "ABSENT"} # {}
        human  == "HUMAN_REVIEW" \in s.art["security"]
        status == IF hard THEN "BLOCKED"
                  ELSE IF human THEN "HUMAN_REVIEW" ELSE "READY_FOR_IMPLEMENTATION"
    IN  {[s EXCEPT !.policies = @ + 4, !.blocked = hard, !.status = status,
                   !.next = RouteAfterSecurity(status)]}

PrepareHumanReview(s) ==
    {[s EXCEPT !.review = "PENDING", !.reviewAt = s.policies,
               !.status = "HUMAN_REVIEW", !.next = "human_review"]}

\* Mutant: the artifact's status is written as the thread's.
ResumeRaw(s, decision) ==
    [s EXCEPT !.review = decision, !.status = decision,
              !.blocked = decision # "APPROVED",
              !.next = IF decision = "APPROVED" THEN "test_planning" ELSE "blocked"]
\* Mutant: only a rejection blocks, an expired review goes through.
ResumeUnlessRejected(s, decision) ==
    LET approved == decision # "REJECTED" IN
    [s EXCEPT !.review  = decision,
              !.status  = IF approved THEN "READY_FOR_IMPLEMENTATION" ELSE "BLOCKED",
              !.blocked = ~approved,
              !.next    = IF approved THEN "test_planning" ELSE "blocked"]
\* Mutant: the flag of the security gate is not updated by the decision.
ResumeUnflagged(s, decision) ==
    [s EXCEPT !.review = decision,
              !.status = IF decision = "APPROVED" THEN "READY_FOR_IMPLEMENTATION"
                         ELSE "BLOCKED",
              !.next   = IF decision = "APPROVED" THEN "test_planning" ELSE "blocked"]
\* human_review once its interrupt is resumed with a decision
Resume(s, decision) ==
    LET approved == decision = "APPROVED" IN
    [s EXCEPT !.review  = decision,
              !.status  = IF approved THEN "READY_FOR_IMPLEMENTATION" ELSE "BLOCKED",
              !.blocked = ~approved,
              !.next    = IF approved THEN "test_planning" ELSE "blocked"]

\* Mutant: a validation that passes is counted as a rework too.
AttemptAlways(s, required) == s.rework + 1
\* The attempt validation_gate passes to the controller.
Attempt(s, required) == IF required THEN s.rework + 1 ELSE s.rework

\* Mutant: one rework too many is granted.
ExhaustedLate(attempt) == attempt > MaxRework
\* ReworkController.decide's limit.
Exhausted(attempt) == attempt >= MaxRework

\* validation_gate, ReworkController.decide and route_after_validation
ValidationGate(s) ==
    LET required  == s.art["validation"] # {}
        attempt   == Attempt(s, required)
        exhausted == required /\ Exhausted(attempt)
    IN  {[s EXCEPT !.policies  = @ + 2,
                   !.rework    = attempt,
                   !.decisions = @ + 1,
                   !.status    = IF ~required THEN "COMPLETED"
                                 ELSE IF exhausted THEN "REWORK_EXHAUSTED"
                                 ELSE IF Automatic THEN "REWORK_REQUIRED"
                                 ELSE "HUMAN_REVIEW",
                   !.next      = IF ~required THEN "judge"
                                 ELSE IF ~exhausted /\ Automatic THEN "implementation"
                                 ELSE "END"]}

\* Mutant: an exception of the judge leaves the node.
JudgeUncaught(s) == {}
\* Skipped, unavailable or evaluated, the judge leaves the status alone.
Judge(s) == {[s EXCEPT !.judged = TRUE, !.next = "END"]}

Blocked(s) == {[s EXCEPT !.status = "BLOCKED", !.next = "END"]}

\* The node a thread is at, executed.  At human_review the thread waits for
\* Resume; at END it is finished.
Steps(s) ==
    CASE s.next \in AgentNodes            -> RunAgent(s)
      [] s.next = "context"               -> Contextualize(s)
      [] s.next = "requirements_gate"     -> RequirementsGate(s)
      [] s.next = "specification_gate"    -> SpecificationGate(s)
      [] s.next = "architecture_gate"     -> ArchitectureGate(s)
      [] s.next = "security_gate"         -> SecurityGate(s)
      [] s.next = "prepare_human_review"  -> PrepareHumanReview(s)
      [] s.next = "test_plan_gate"        -> TestPlanGate(s)
      [] s.next = "implementation_gate"   -> ImplementationGate(s)
      [] s.next = "validation_gate"       -> ValidationGate(s)
      [] s.next = "judge"                 -> Judge(s)
      [] s.next = "blocked"               -> Blocked(s)
      [] OTHER                            -> {}
=============================================================================
