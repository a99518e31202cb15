---------------------------- MODULE TaskContract ----------------------------
(***************************************************************************)
(* What the API promises of a task, whatever runs it: the client polls a   *)
(* status that moves towards one outcome (ADR-016:87-93), with at most one *)
(* human decision on the way, which the outcome respects (ADR-011:20-29).  *)
(***************************************************************************)
CONSTANTS Tasks

VARIABLES phase, verdict

vars == <<phase, verdict>>

Verdicts == {"APPROVED", "REJECTED", "EXPIRED"}
Outcome  == {"COMPLETED", "BLOCKED", "REWORK_EXHAUSTED"}

Init ==
    /\ phase   = [t \in Tasks |-> "NONE"]
    /\ verdict = [t \in Tasks |-> "NONE"]

Accept(t) ==
    /\ phase[t] = "NONE"
    /\ phase' = [phase EXCEPT ![t] = "ACCEPTED"]
    /\ UNCHANGED verdict

RequestReview(t) ==
    /\ phase[t] = "ACCEPTED"
    /\ phase' = [phase EXCEPT ![t] = "REVIEW"]
    /\ UNCHANGED verdict

Decide(t) ==
    /\ phase[t] = "REVIEW" /\ verdict[t] = "NONE"
    /\ phase' = [phase EXCEPT ![t] = "DECIDED"]
    /\ \E v \in Verdicts : verdict' = [verdict EXCEPT ![t] = v]

\* A rejected or expired review blocks the task.
Finish(t) ==
    /\ phase[t] \in {"ACCEPTED", "DECIDED"}
    /\ \E o \in Outcome :
         /\ verdict[t] \in {"REJECTED", "EXPIRED"} => o = "BLOCKED"
         /\ phase' = [phase EXCEPT ![t] = o]
    /\ UNCHANGED verdict

Fail(t) ==
    /\ phase[t] \in {"ACCEPTED", "DECIDED"}
    /\ phase' = [phase EXCEPT ![t] = "FAILED"]
    /\ UNCHANGED verdict

Next == \E t \in Tasks :
    Accept(t) \/ RequestReview(t) \/ Decide(t) \/ Finish(t) \/ Fail(t)

Spec == Init /\ [][Next]_vars
=============================================================================
