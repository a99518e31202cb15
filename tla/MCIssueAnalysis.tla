--------------------------- MODULE MCIssueAnalysis ---------------------------
(* Model values for IssueAnalysis: one issue and the review its workflow may  *)
(* ask for.                                                                   *)
EXTENDS IssueAnalysis, TLC

CONSTANTS a1, r1, t1

IssueJobs   == {a1, r1}
IssueTasks  == {t1}
IssueTaskOf == [j \in IssueJobs |-> t1]
IssueKind   == (a1 :> "ANALYZE_GITHUB_ISSUE") @@ (r1 :> "RESUME_HUMAN_REVIEW")

=============================================================================
