----------------------------- MODULE MCJobQueue -----------------------------
(* Model values and bounds for JobQueue: one engineering task with its      *)
(* execution and review-resume jobs, and one pull-request review.           *)
EXTENDS JobQueue, TLC

CONSTANTS e1, r1, p2, t1, t2

MCJobs   == {e1, r1, p2}
MCTasks  == {t1, t2}
MCTaskOf == (e1 :> t1) @@ (r1 :> t1) @@ (p2 :> t2)
MCKind   == (e1 :> "EXECUTE_TASK") @@ (r1 :> "RESUME_HUMAN_REVIEW")
            @@ (p2 :> "REVIEW_PULL_REQUEST")

\* The review of one engineering task only.
OneTaskJobs   == {e1, r1}
OneTask       == {t1}
OneTaskOf     == (e1 :> t1) @@ (r1 :> t1)
OneTaskKind   == (e1 :> "EXECUTE_TASK") @@ (r1 :> "RESUME_HUMAN_REVIEW")

WorkerSymmetry == Permutations(Workers)
=============================================================================
