------------------------------ MODULE Delivery ------------------------------
(***************************************************************************)
(* What a workflow thread delivers: EngineeringGraph with the artifacts    *)
(* its gates look at (QualityGates) and the files its agents write and     *)
(* validate (agents/implementation.py, agents/test_engineer.py,            *)
(* tools/gateway.py, tools/validator.py).                                  *)
(*                                                                         *)
(* The workspace of a task is a directory of the host its worker runs on;  *)
(* a recovered job may run on another host (ADR-017:59-63).  An            *)
(* implementation writes file by file, so a crash or a refused path leaves *)
(* some of them behind, and nothing is ever deleted.                       *)
(***************************************************************************)
EXTENDS EngineeringGraph, QualityGates

CONSTANTS
    Hosts,          \* hosts that do not share the volume of the workspaces
    Files,          \* paths the gateway accepts
    Unsafe,         \* a path it refuses
    Specifications, SecurityReviews, TestPlans,     \* what the agents produce
    Plans,          \* sequences of changes: a path, and whether its content
                    \* fails a syntax test or a scan
    MaxFiles,       \* limits.max_files_per_task of policies/capabilities.yaml
    MaxRecoveries   \* WORKER_MAX_ATTEMPTS - 1: recoveries of each job

Change == [path : Files \cup {Unsafe}, bad : BOOLEAN]

ASSUME DeliveryConstantsOK ==
    /\ Hosts # {} /\ Unsafe \notin Files
    /\ \A s \in Specifications : s.requirements \in Seq(RequirementIds(s))
    /\ Plans \subseteq Seq(Change)
    /\ MaxFiles \in Nat /\ MaxRecoveries \in Nat

VARIABLES
    spec, review, testPlan,     \* the artifacts in the thread state
    declared,   \* the implementation artifact: its files, with their content
    disk,       \* the files of the task on each host
    host,       \* the host of the worker that has the job
    writing,    \* an implementation at work: its plan and what it has written
    executions, \* history: implementations started, which numbers contents
    checkedOn,  \* history: the host of the last validation
    recoveries, \* of all jobs of the task
    raised      \* an agent raised: the job and the task have failed

artifacts == <<spec, review, testPlan>>
workspace == <<declared, disk, host, writing, executions, checkedOn, recoveries, raised>>
allVars   == <<g, artifacts, workspace>>

\* The artifacts of a thread that has none yet.
NoSpecification == [requirements |-> <<>>, scenarios |-> {}]
NoReview        == [findings |-> {}, requirements |-> {}]

NoFiles == [f \in {} |-> 0]
Idle    == [plan |-> <<>>, made |-> NoFiles, busy |-> FALSE]

DeliveryInit ==
    /\ Init
    /\ spec = NoSpecification /\ review = NoReview /\ testPlan = {}
    /\ declared   = NoFiles
    /\ disk       = [h \in Hosts |-> NoFiles]
    /\ host       \in Hosts
    /\ writing    = Idle
    /\ executions = 0
    /\ checkedOn  = host
    /\ recoveries = 0
    /\ raised     = FALSE

\* The node a is executed, and its artifact fails the gate behind it so.
Produce(a, fails) ==
    /\ g.next = a /\ ~raised
    /\ Step
    /\ g'.art[a] = fails

-----------------------------------------------------------------------------
(* The agents whose artifacts the gates compare.                           *)

Specify ==
    /\ spec' \in Specifications
    /\ Produce("specification", SpecificationFails(spec'))
    /\ UNCHANGED <<review, testPlan, workspace>>

ReviewSecurity ==
    /\ review' \in SecurityReviews
    /\ Produce("security", SecurityFails(review'))
    /\ UNCHANGED <<spec, testPlan, workspace>>

PlanTests ==
    /\ testPlan' \in TestPlans
    /\ Produce("test_planning", TestPlanFails(testPlan', spec))
    /\ UNCHANGED <<spec, review, workspace>>

\* Every other node: the data does not change.
OtherStep ==
    /\ g.next \notin {"specification", "security", "test_planning",
                      "implementation", "validation"}
    /\ ~raised /\ Step
    /\ UNCHANGED <<artifacts, workspace>>

\* A reviewer's decision is executed by a job of its own, on any host.
DecideReview ==
    /\ Decide
    /\ host' \in Hosts
    /\ UNCHANGED <<artifacts, declared, disk, writing, executions, checkedOn,
                   recoveries, raised>>

-----------------------------------------------------------------------------
(* The implementation agent and the gateway.                               *)

Building == g.next = "implementation" /\ ~raised

\* ImplementationAgent.plan; a plan over the limit raises before any write
StartWriting ==
    /\ Building /\ ~writing.busy
    /\ \E p \in Plans :
         IF Len(p) > MaxFiles
         THEN raised' = TRUE /\ UNCHANGED <<writing, executions>>
         ELSE /\ writing' = [plan |-> p, made |-> NoFiles, busy |-> TRUE]
              /\ executions' = executions + 1
              /\ UNCHANGED raised
    /\ UNCHANGED <<g, artifacts, declared, disk, host, checkedOn, recoveries>>

With(files, f, content) == [k \in DOMAIN files \cup {f} |-> IF k = f THEN content ELSE files[k]]

\* ToolGateway.write_file: created or modified, declared in either case
WriteFile ==
    /\ Building /\ writing.busy /\ writing.plan # <<>>
    /\ LET change  == Head(writing.plan)
           content == [execution |-> executions, bad |-> change.bad]
       IN  /\ change.path \in Files
           /\ disk' = [disk EXCEPT ![host] = With(@, change.path, content)]
           /\ writing' = [writing EXCEPT !.plan = Tail(@),
                                         !.made = With(@, change.path, content)]
    /\ UNCHANGED <<g, artifacts, declared, host, executions, checkedOn, recoveries, raised>>

\* CapabilityViolation: the files before it stay, the artifact is lost
RefusePath ==
    /\ Building /\ writing.busy /\ writing.plan # <<>>
    /\ Head(writing.plan).path = Unsafe
    /\ raised' = TRUE
    /\ writing' = Idle
    /\ UNCHANGED <<g, artifacts, declared, disk, host, executions, checkedOn, recoveries>>

\* Mutant: the declaration of an earlier build is added to.
DeclaresAll(made) == [f \in DOMAIN declared \cup DOMAIN made |->
                        IF f \in DOMAIN declared THEN declared[f] ELSE made[f]]
\* ImplementationResult: files_created and files_modified of this execution
Declares(made) == made

FinishWriting ==
    /\ writing.busy /\ writing.plan = <<>>
    /\ Produce("implementation", {})
    /\ declared' = Declares(writing.made)
    /\ writing' = Idle
    /\ UNCHANGED <<artifacts, disk, host, executions, checkedOn, recoveries, raised>>

-----------------------------------------------------------------------------
(* The test agent.                                                         *)

\* Mutant: an implementation that declares nothing is complete.
IntactIfPresent(files) == DOMAIN declared \subseteq DOMAIN files
\* workspace_integrity
Intact(files) == DOMAIN declared # {} /\ DOMAIN declared \subseteq DOMAIN files

\* Mutant: only the declared files are tested and scanned.
CleanIfDeclared(files) == \A f \in DOMAIN files \cap DOMAIN declared : ~files[f].bad
\* syntax_tests, secret_scan and sast_scan look at every file there is.
Clean(files) == \A f \in DOMAIN files : ~files[f].bad

Validate ==
    /\ Produce("validation", ValidationFails(Intact(disk[host]) /\ Clean(disk[host])))
    /\ checkedOn' = host
    /\ UNCHANGED <<artifacts, declared, disk, host, writing, executions, recoveries, raised>>

-----------------------------------------------------------------------------
\* The jobs that invoke the thread: the execution, and once a review is decided
\* its resumption.  The execution's worker may have died after the review was
\* shown, so that it is recovered beside the resumption.
Jobs == IF g.review \in Decisions THEN 2 ELSE 1

\* The worker dies; the thread is recovered from its checkpoint, on any host.
\* Attempts are counted for each job (jobs.py:191).
Recover ==
    /\ g.next \notin {"human_review", "END"} /\ ~raised
    /\ recoveries < Jobs * MaxRecoveries
    /\ recoveries' = recoveries + 1
    /\ host' \in Hosts
    /\ writing' = Idle
    /\ UNCHANGED <<g, artifacts, declared, disk, executions, checkedOn, raised>>

Work ==
    \/ Specify \/ ReviewSecurity \/ PlanTests \/ OtherStep
    \/ StartWriting \/ WriteFile \/ RefusePath \/ FinishWriting \/ Validate

DeliveryNext == Work \/ DecideReview \/ Recover

DeliverySpec     == DeliveryInit /\ [][DeliveryNext]_allVars
FairDeliverySpec == DeliverySpec /\ WF_allVars(Work)

-----------------------------------------------------------------------------
(* Properties.                                                             *)

\* Nothing is written unless every requirement has an identifier of its own, a
\* scenario and a test, there is a negative security test, and no critical
\* finding is open, nor a high one that a reviewer has not approved: the gates
\* compare artifacts of different agents, and a rework or a recovery goes back
\* behind them (engine.py:29-101, graph.py:178-190, 289-302, 396-408).
TracedBeforeImplementation ==
    executions > 0 =>
        /\ \A i, k \in DOMAIN spec.requirements :
               i # k => spec.requirements[i] # spec.requirements[k]
        /\ \A i \in DOMAIN spec.requirements :
               /\ \E s \in spec.scenarios : spec.requirements[i] \in s
               /\ \E c \in testPlan : spec.requirements[i] \in c.covers
        /\ \E c \in testPlan : c.negative /\ c.type = "SECURITY"
        /\ \A f \in review.findings : f.status = "OPEN" =>
               /\ f.severity # "CRITICAL"
               /\ f.severity = "HIGH" => g.review = "APPROVED"

\* A completed task has files, all of them where they were validated, and
\* nothing bad is in that workspace: neither in what it declares nor in what
\* an earlier build, an interrupted one or another plan left there.
CompletedIsClean ==
    g.status = "COMPLETED" =>
        LET files == disk[checkedOn] IN
        /\ DOMAIN declared # {} /\ DOMAIN declared \subseteq DOMAIN files
        /\ \A f \in DOMAIN files : ~files[f].bad

\* The declared files have the contents of the implementation that declares
\* them.
Delivered == \A f \in DOMAIN declared : disk[checkedOn][f] = declared[f]

\* What was validated is what the task delivers, if its thread is recovered once
\* at most, at any point and on any host: with WORKER_MAX_ATTEMPTS = 2 that is
\* every task nobody reviewed.
DeliversLastBuild == g.status = "COMPLETED" /\ recoveries <= 1 => Delivered

\* "workspace_integrity then fails validation, and bounded rework regenerates
\* the files" (ADR-017:62-63): on another host the files are not there, so what
\* is completed was generated again.
LostFilesAreRegenerated == g.status = "COMPLETED" => Delivered

\* It runs to its end, to the interrupt of its review or to an agent that
\* raises, and from a decided review to its end.
DeliveryStops ==
    /\ <>(g.next \in {"END", "human_review"} \/ raised)
    /\ g.review \in Decisions ~> (g.next = "END" \/ raised)
=============================================================================
