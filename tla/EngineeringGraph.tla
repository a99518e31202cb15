-------------------------- MODULE EngineeringGraph --------------------------
(***************************************************************************)
(* One thread of the engineering workflow, from its start to END, with its *)
(* human review decided once while the thread is interrupted.  No failures *)
(* here: TaskExecution adds crashes, recovery and concurrent workers.      *)
(***************************************************************************)
EXTENDS WorkflowGraph

VARIABLE g      \* the thread state

Init == g = Start

Step   == g' \in Steps(g)
Decide == g.next = "human_review" /\ \E d \in Decisions : g' = Resume(g, d)
Next   == Step \/ Decide

Spec == Init /\ [][Next]_g

-----------------------------------------------------------------------------
\* Type invariant of the thread state.
TypeOK == g \in Threads

\* Nothing is implemented, reworked or validated unless the specification and
\* the test plan passed their gates and the security review was clear of
\* blocking findings, and of high ones unless a reviewer approved
\* (graph.py:178-190, 267-378, 396-408; ADR-011:27-29).
GuardedImplementation ==
    g.builds > 0 \/ g.next = "implementation" =>
        /\ g.art["specification"] = {} /\ g.art["test_planning"] = {}
        /\ g.art["security"] \subseteq {"HUMAN_REVIEW"}
        /\ g.art["security"] # {} => g.review = "APPROVED"

\* At most MaxRework implementations, the first included, are produced, and
\* one fewer rework than that is scheduled (ADR-010:21-23, rework.py:16-35).
ReworkBounded ==
    /\ g.builds <= MaxRework
    /\ g.status = "REWORK_REQUIRED" => g.builds = g.rework /\ g.rework < MaxRework
    /\ g.status = "REWORK_EXHAUSTED" => g.builds = MaxRework /\ g.rework = MaxRework

\* A completed workflow's last validation passed and was of its last build,
\* never of the one before a rework (graph.py:465-556).
CompletedIsValidated ==
    g.status = "COMPLETED" =>
        /\ g.art["validation"] = {} /\ g.checked = g.builds /\ g.builds > 0
        /\ g.decisions = g.rework + 1

\* A finished thread has one of the outcomes the service knows, and says
\* BLOCKED exactly when a gate or a reviewer stopped it (tasks.py:273-279).
OutcomeIsDefinite ==
    g.next = "END" =>
        /\ g.status \in {"BLOCKED", "COMPLETED", "REWORK_EXHAUSTED"}
        /\ g.blocked <=> g.status = "BLOCKED"
        /\ g.judged <=> g.status = "COMPLETED"

\* Where a thread stops with HUMAN_REVIEW a review is pending, so a reviewer
\* can decide it: claim_human_review refuses any other (tasks.py:342-344).
ReviewIsDecidable ==
    g.status = "HUMAN_REVIEW" /\ g.next \in {"human_review", "END"} =>
        g.review = "PENDING" /\ g.next = "human_review"

\* Wherever a thread stops, the service knows what to make of it: a definite
\* outcome, or a review that somebody can decide.
StopsDefinitely == OutcomeIsDefinite /\ ReviewIsDecidable

\* The index the resume handler slices policy_results at separates what was
\* decided before the interrupt from what is decided after it: the list only
\* grows from there on, and a decided review never moves it (tasks.py:441-442).
PolicyIndexHolds ==
    [][g.review # "NONE" => /\ g'.reviewAt = g.reviewAt
                            /\ g'.policies >= g.policies
                            /\ g.policies >= g.reviewAt]_g
=============================================================================
