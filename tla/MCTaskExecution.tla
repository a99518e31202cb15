-------------------------- MODULE MCTaskExecution --------------------------
(* Model values and bounds for TaskExecution.                               *)
EXTENDS TaskExecution, TLC

CONSTANTS e1, e2, r1, r2, t1, t2

\* One task, two reviewers who race for its review.
ReviewedJobs   == {e1, r1, r2}
ReviewedTaskOf == [j \in ReviewedJobs |-> t1]
ReviewedKind   == (e1 :> "EXECUTE_TASK") @@ (r1 :> "RESUME_HUMAN_REVIEW")
                  @@ (r2 :> "RESUME_HUMAN_REVIEW")

\* One task with one review.
OverlapJobs   == {e1, r1}
OverlapTaskOf == [j \in OverlapJobs |-> t1]
OverlapKind   == (e1 :> "EXECUTE_TASK") @@ (r1 :> "RESUME_HUMAN_REVIEW")

\* Two tasks nobody has to review.
PlainJobs   == {e1, e2}
PlainTaskOf == (e1 :> t1) @@ (e2 :> t2)
PlainKind   == [j \in PlainJobs |-> "EXECUTE_TASK"]

OneJobs   == {e1}
OneTaskOf == [j \in OneJobs |-> t1]
OneKind   == [j \in OneJobs |-> "EXECUTE_TASK"]

OneTask  == {t1}
TwoTasks == {t1, t2}

\* What the agents may produce: any security verdict, one that needs a
\* review, or a clear one; validation passes or asks for rework.
Artifacts(security) ==
    [a \in AgentNodes |-> CASE a = "security"   -> security
                            [] a = "validation" -> {{}, {"REWORK"}}
                            [] OTHER            -> {{}}]

AnyVerdict   == Artifacts({{}, {"BLOCK"}, {"HUMAN_REVIEW"}})
HighVerdict  == Artifacts({{"HUMAN_REVIEW"}})
ClearVerdict == Artifacts({{}})

\* High and critical verdicts come from findings; clear ones may have some.
Severe   == {{"HUMAN_REVIEW"}, {"BLOCK"}}
Always   == Severe \cup {{}}
Nothing  == {}

WorkerSymmetry == Permutations(Workers)
=============================================================================
