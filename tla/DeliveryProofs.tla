--------------------------- MODULE DeliveryProofs ---------------------------
(***************************************************************************)
(* Theorems about one thread of the engineering workflow (EngineeringGraph *)
(* with Spec) and about what it delivers (Delivery with DeliverySpec), for *)
(* any limit on reworks, any artifacts, any plans of changes and any hosts. *)
(***************************************************************************)
EXTENDS Delivery, WorkflowGraphProofs, FiniteSetTheorems, TLAPS

-----------------------------------------------------------------------------
\* ThreadInv is an invariant of the workflow graph.
THEOREM GraphInvariant == Spec => []ThreadInv(g)
<1>1. Init => ThreadInv(g)
  BY StartIsSound DEF Init
<1>2. ThreadInv(g) /\ [Next]_g => ThreadInv(g)'
  BY ThreadInvKept DEF Next, Step, Decide, Moves
<1> QED
  BY <1>1, <1>2, PTL DEF Spec

\* Every thread state is well formed, for any artifacts of its agents.
THEOREM ThreadsAreTyped == Spec => []TypeOK
<1>1. ThreadInv(g) => TypeOK
  BY DEF ThreadInv, Threads, ThreadsAt, TypeOK
<1> QED
  BY <1>1, GraphInvariant, PTL

\* Nothing is implemented past a failed specification, a failed test plan, a
\* blocking finding or an undecided review (graph.py:178-190, 267-408).
THEOREM ImplementationIsGuarded == Spec => []GuardedImplementation
<1>1. ThreadInv(g) => GuardedImplementation
  <2> SUFFICES ASSUME ThreadInv(g) PROVE GuardedImplementation
    OBVIOUS
  <2> QED
    BY DEF ThreadInv, GuardedImplementation, PassedGates, BuiltIsGuarded, Developing
<1> QED
  BY <1>1, GraphInvariant, PTL

\* At most MaxRework builds, for any limit (graph.py:510-556, rework.py:16-35).
THEOREM ReworkIsBounded == Spec => []ReworkBounded
<1>1. ThreadInv(g) => ReworkBounded
  BY DEF ThreadInv, ReworkBounded, Counted
<1> QED
  BY <1>1, GraphInvariant, PTL

\* A completed thread validated its last build (graph.py:465-556).
THEOREM CompletionIsValidated == Spec => []CompletedIsValidated
<1>1. ThreadInv(g) => CompletedIsValidated
  BY DEF ThreadInv, CompletedIsValidated, Counted
<1> QED
  BY <1>1, GraphInvariant, PTL

\* A finished thread has a definite outcome if reworks are automatic, as
\* policies/execution.yaml says (tasks.py:273-279).
THEOREM OutcomesAreDefinite == Automatic => (Spec => []OutcomeIsDefinite)
<1> SUFFICES ASSUME Automatic PROVE Spec => []OutcomeIsDefinite
  OBVIOUS
<1>1. ThreadInv(g) => OutcomeIsDefinite
  BY DEF ThreadInv, OutcomeIsDefinite, Flagged, Reviewing
<1> QED
  BY <1>1, GraphInvariant, PTL

\* ... and a thread that waits for a review can be decided (tasks.py:342-344).
THEOREM ReviewsAreDecidable == Automatic => (Spec => []ReviewIsDecidable)
<1> SUFFICES ASSUME Automatic PROVE Spec => []ReviewIsDecidable
  OBVIOUS
<1>1. ThreadInv(g) => ReviewIsDecidable
  BY DEF ThreadInv, ReviewIsDecidable, Flagged, ReviewPlaced, Reviewing
<1> QED
  BY <1>1, GraphInvariant, PTL

\* ... so every stop of a thread is one the service can act on.
THEOREM ThreadsStopDefinitely == Automatic => (Spec => []StopsDefinitely)
<1> SUFFICES ASSUME Automatic PROVE Spec => []StopsDefinitely
  OBVIOUS
<1>1. OutcomeIsDefinite /\ ReviewIsDecidable => StopsDefinitely
  BY DEF StopsDefinitely
<1> QED
  BY <1>1, OutcomesAreDefinite, ReviewsAreDecidable, PTL

\* The policies a review was prepared on stay a prefix of those decided
\* (tasks.py:441-442).
THEOREM PolicyIndexStays == Spec => PolicyIndexHolds
<1> DEFINE Stays == g.review # "NONE" => /\ g'.reviewAt = g.reviewAt
                                         /\ g'.policies >= g.policies
                                         /\ g.policies >= g.reviewAt
<1>1. ThreadInv(g) /\ [Next]_g => [Stays]_g
  <2> SUFFICES ASSUME ThreadInv(g), Next, g.review # "NONE" PROVE Stays
    OBVIOUS
  <2>1. Moves(g, g')
    BY DEF Next, Step, Decide, Moves
  <2>2. g'.reviewAt = g.reviewAt /\ g'.policies >= g.policies
    BY <2>1, PoliciesKept
  <2>3. g.policies >= g.reviewAt
    BY DEF ThreadInv, ReviewPlaced
  <2> QED
    BY <2>2, <2>3
<1> QED
  BY <1>1, GraphInvariant, PTL DEF Spec, PolicyIndexHolds
-----------------------------------------------------------------------------
(* Delivery.                                                               *)

\* Whatever is written and whoever dies, the thread takes the steps of the graph.
LEMMA DeliveryStepsGraph == DeliveryNext => [Next]_g
<1> SUFFICES ASSUME DeliveryNext PROVE [Next]_g
  OBVIOUS
<1>1. CASE Specify \/ ReviewSecurity \/ PlanTests \/ OtherStep \/ FinishWriting \/ Validate
  BY <1>1 DEF Specify, ReviewSecurity, PlanTests, OtherStep, FinishWriting, Validate,
              Produce, Next
<1>2. CASE DecideReview
  BY <1>2 DEF DecideReview, Next
<1>3. CASE StartWriting \/ WriteFile \/ RefusePath \/ Recover
  BY <1>3 DEF StartWriting, WriteFile, RefusePath, Recover
<1> QED
  BY <1>1, <1>2, <1>3 DEF DeliveryNext, Work

\* Delivery implements EngineeringGraph: every theorem about a thread holds of
\* one whose artifacts and files are looked at.
THEOREM DeliveryRefinesGraph == DeliverySpec => Spec
<1>1. DeliveryInit => Init
  BY DEF DeliveryInit
<1>2. [DeliveryNext]_allVars => [Next]_g
  BY DeliveryStepsGraph DEF allVars
<1> QED
  BY <1>1, <1>2, PTL DEF DeliverySpec, Spec

\* A move of the thread inside a step of the delivery.
LEMMA DeliveryMoves == DeliveryNext /\ g' # g => Moves(g, g')
BY DeliveryStepsGraph DEF Next, Step, Decide, Moves

\* What an artifact in the thread state fails is what its gate computes of it.
ArtifactsJudged ==
    /\ spec \in Specifications \cup {NoSpecification}
    /\ g.art["specification"] \in {{"ABSENT"}, SpecificationFails(spec)}
    /\ g.art["security"] \in {{"ABSENT"}, SecurityFails(review)}
    /\ g.art["test_planning"] \in {{"ABSENT"}, TestPlanFails(testPlan, spec)}
    /\ g.next \in Early => g.art["test_planning"] = {"ABSENT"}

\* An implementation that was started is the thread's node or behind it.
StartedIsBuilt == executions \in Nat /\ (executions > 0 => g.builds > 0 \/ g.next = "implementation")

TraceInv == ThreadInv(g) /\ ArtifactsJudged /\ StartedIsBuilt

LEMMA TraceInvInit == DeliveryInit => TraceInv
<1> SUFFICES ASSUME DeliveryInit PROVE TraceInv
  OBVIOUS
<1>1. g = Start /\ ThreadInv(g)
  BY StartIsSound DEF DeliveryInit, Init
<1>2. \A a \in AgentNodes : g.art[a] = {"ABSENT"}
  BY <1>1 DEF Start
<1> QED
  BY <1>1, <1>2 DEF DeliveryInit, TraceInv, ArtifactsJudged, StartedIsBuilt, AgentNodes

LEMMA TraceInvNext == TraceInv /\ [DeliveryNext]_allVars => TraceInv'
<1> SUFFICES ASSUME TraceInv, [DeliveryNext]_allVars PROVE TraceInv'
  OBVIOUS
<1>1. CASE UNCHANGED allVars
  BY <1>1 DEF allVars, artifacts, workspace, TraceInv, ArtifactsJudged, StartedIsBuilt
<1>2. CASE DeliveryNext
  <2>1. g' = g \/ Moves(g, g')
    BY <1>2, DeliveryMoves
  <2>2. ThreadInv(g)'
    BY <2>1, ThreadInvKept DEF TraceInv
  <2>3. g' = g \/ Traced(g, g')
    BY <2>1, MovesAreTraced DEF TraceInv
  <2>4. g.builds \in Nat
    BY DEF TraceInv, ThreadInv, Threads, ThreadsAt
  <2>5. ArtifactsJudged'
    <3> USE <2>3 DEF TraceInv, ArtifactsJudged, Traced, Early, AgentNodes
    <3>1. CASE Specify
      BY <3>1 DEF Specify, Produce
    <3>2. CASE ReviewSecurity
      BY <3>2 DEF ReviewSecurity, Produce
    <3>3. CASE PlanTests
      BY <3>3 DEF PlanTests, Produce
    <3>4. CASE OtherStep \/ FinishWriting \/ Validate
      BY <3>4 DEF OtherStep, FinishWriting, Validate, Produce, artifacts
    <3>5. CASE DecideReview
      BY <3>5 DEF DecideReview, Decide, artifacts
    <3>6. CASE StartWriting \/ WriteFile \/ RefusePath \/ Recover
      BY <3>6 DEF StartWriting, WriteFile, RefusePath, Recover, artifacts
    <3> QED
      BY <1>2, <3>1, <3>2, <3>3, <3>4, <3>5, <3>6 DEF DeliveryNext, Work
  <2>6. StartedIsBuilt'
    <3> USE <2>3, <2>4 DEF TraceInv, StartedIsBuilt, Traced
    <3>1. CASE StartWriting
      BY <3>1 DEF StartWriting, Building
    <3>2. CASE executions' = executions
      BY <3>2
    <3>3. CASE ~StartWriting
      <4>1. executions' = executions
        BY <1>2, <3>3 DEF DeliveryNext, Work, Specify, ReviewSecurity, PlanTests, OtherStep,
             FinishWriting, Validate, DecideReview, WriteFile, RefusePath, Recover, workspace
      <4> QED
        BY <3>2, <4>1
    <3> QED
      BY <3>1, <3>3
  <2> QED
    BY <2>2, <2>5, <2>6 DEF TraceInv
<1> QED
  BY <1>1, <1>2

\* Requirements that are as many as their identifiers have one each.
LEMMA IdentifiersDiffer ==
    ASSUME NEW s \in Specifications, Identified(s)
    PROVE  \A i, k \in DOMAIN s.requirements :
             i # k => s.requirements[i] # s.requirements[k]
<1> DEFINE R == s.requirements
           n == Len(R)
<1>1. R \in Seq(RequirementIds(s)) /\ n \in Nat /\ DOMAIN R = 1..n
  BY DeliveryConstantsOK
<1>2. IsFiniteSet(1..n) /\ Cardinality(1..n) = n
  BY <1>1, FS_Interval
<1>3. R \in Surjection(1..n, RequirementIds(s))
  BY <1>1 DEF Surjection, RequirementIds
<1>4. R \in Injection(1..n, RequirementIds(s))
  BY <1>2, <1>3, FS_Surjection DEF Identified
<1> QED
  BY <1>1, <1>4 DEF Injection, IsInjective

\* Nothing is written for requirements that are not traced to a scenario and a
\* test, nor past an open critical finding or an unapproved high one, whatever
\* the agents produce and however often the job is recovered.
THEOREM WritesAreTraced == DeliverySpec => []TracedBeforeImplementation
<1>1. TraceInv => TracedBeforeImplementation
  <2> SUFFICES ASSUME TraceInv, executions > 0 PROVE TracedBeforeImplementation
    BY DEF TracedBeforeImplementation
  <2>1. g.builds > 0 \/ g.next = "implementation"
    BY DEF TraceInv, StartedIsBuilt
  <2>2. /\ g.art["specification"] = {} /\ g.art["test_planning"] = {}
        /\ g.art["security"] \subseteq {"HUMAN_REVIEW"}
        /\ g.art["security"] # {} => g.review = "APPROVED"
    BY <2>1 DEF TraceInv, ThreadInv, PassedGates, BuiltIsGuarded, Developing
  <2>3. /\ SpecificationFails(spec) = {} /\ TestPlanFails(testPlan, spec) = {}
        /\ g.art["security"] = SecurityFails(review)
    BY <2>2 DEF TraceInv, ArtifactsJudged
  <2>4. Identified(spec) /\ Traceable(spec)
    BY <2>3 DEF SpecificationFails, FailsWith
  <2>5. spec \in Specifications
    BY <2>4 DEF TraceInv, ArtifactsJudged, NoSpecification, Identified, RequirementIds
  <2>6. \A i, k \in DOMAIN spec.requirements :
          i # k => spec.requirements[i] # spec.requirements[k]
    BY <2>4, <2>5, IdentifiersDiffer
  <2>7. \A i \in DOMAIN spec.requirements : spec.requirements[i] \in RequirementIds(spec)
    BY DEF RequirementIds
  <2>8. \A i \in DOMAIN spec.requirements : \E s \in spec.scenarios : spec.requirements[i] \in s
    BY <2>4, <2>7 DEF Traceable
  <2>9. Covers(testPlan, spec) /\ NegativeSecurity(testPlan)
    BY <2>3 DEF TestPlanFails, FailsWith
  <2>10. \A i \in DOMAIN spec.requirements : \E c \in testPlan : spec.requirements[i] \in c.covers
    BY <2>7, <2>9 DEF Covers
  <2>11. /\ OpenFindings(review, "CRITICAL") = {}
         /\ OpenFindings(review, "HIGH") # {} => g.review = "APPROVED"
    BY <2>2, <2>3 DEF SecurityFails, FailsWith
  <2> QED
    BY <2>6, <2>8, <2>9, <2>10, <2>11
    DEF TracedBeforeImplementation, NegativeSecurity, OpenFindings
<1> QED
  BY <1>1, TraceInvInit, TraceInvNext, PTL DEF DeliverySpec
-----------------------------------------------------------------------------
(* What was validated.                                                     *)

\* The verdict of the last validation is still that of the files it saw: until
\* the thread builds again, nothing writes and nothing else is declared.
VerdictStands ==
    g.next = "validation_gate" \/ g.status = "COMPLETED" =>
        g.art["validation"] = ValidationFails(Intact(disk[checkedOn]) /\ Clean(disk[checkedOn]))

VerdictInv == ThreadInv(g) /\ VerdictStands

LEMMA VerdictInvInit == DeliveryInit => VerdictInv
BY StartIsSound DEF DeliveryInit, Init, VerdictInv, VerdictStands, Start

LEMMA VerdictInvNext == VerdictInv /\ [DeliveryNext]_allVars => VerdictInv'
<1> SUFFICES ASSUME VerdictInv, [DeliveryNext]_allVars PROVE VerdictInv'
  OBVIOUS
<1>1. CASE UNCHANGED allVars
  BY <1>1 DEF allVars, artifacts, workspace, VerdictInv, VerdictStands, Intact, Clean
<1>2. CASE DeliveryNext
  <2>1. g' = g \/ Moves(g, g')
    BY <1>2, DeliveryMoves
  <2>2. ThreadInv(g)' /\ (g' = g \/ Traced(g, g'))
    BY <2>1, ThreadInvKept, MovesAreTraced DEF VerdictInv
  <2>3. /\ g.status = "COMPLETED" => g.next \in {"judge", "END"}
        /\ g.next = "judge" => g.status = "COMPLETED"
    BY DEF VerdictInv, ThreadInv, Counted
  <2>4. VerdictStands'
    <3>1. CASE Validate
      <4>1. /\ g'.art["validation"] = ValidationFails(Intact(disk[host]) /\ Clean(disk[host]))
            /\ checkedOn' = host /\ disk' = disk /\ declared' = declared
        BY <3>1 DEF Validate, Produce
      <4> QED
        BY <4>1 DEF VerdictStands, Intact, Clean
    <3>2. CASE StartWriting \/ WriteFile \/ RefusePath \/ FinishWriting
      <4>1. g.next = "implementation"
        BY <3>2 DEF StartWriting, WriteFile, RefusePath, FinishWriting, Building, Produce
      <4>2. ~(g'.next = "validation_gate" \/ g'.status = "COMPLETED")
        BY <2>2, <2>3, <4>1 DEF Traced
      <4> QED
        BY <4>2 DEF VerdictStands
    <3>3. CASE Specify \/ ReviewSecurity \/ PlanTests \/ OtherStep \/ DecideReview \/ Recover
      <4>1. declared' = declared /\ disk' = disk /\ checkedOn' = checkedOn
        BY <3>3 DEF Specify, ReviewSecurity, PlanTests, OtherStep, DecideReview, Recover,
                    workspace
      <4>2. g.next # "validation" \/ g' = g
        BY <3>3 DEF Specify, ReviewSecurity, PlanTests, OtherStep, DecideReview, Recover,
                    Produce, Decide
      <4>3. g'.next = "validation_gate" \/ g'.status = "COMPLETED" =>
              /\ g.next = "validation_gate" \/ g.status = "COMPLETED"
              /\ g'.art["validation"] = g.art["validation"]
        BY <2>2, <2>3, <4>2 DEF Traced, AgentNodes
      <4> QED
        BY <4>1, <4>3 DEF VerdictInv, VerdictStands, Intact, Clean
    <3> QED
      BY <1>2, <3>1, <3>2, <3>3 DEF DeliveryNext, Work
  <2> QED
    BY <2>2, <2>4 DEF VerdictInv
<1> QED
  BY <1>1, <1>2

\* A completed task's files are where they were validated, and nothing in that
\* workspace fails a check (validator.py:16-92).
THEOREM CompletionIsClean == DeliverySpec => []CompletedIsClean
<1>1. VerdictInv => CompletedIsClean
  <2> SUFFICES ASSUME VerdictInv, g.status = "COMPLETED" PROVE CompletedIsClean
    BY DEF CompletedIsClean
  <2>1. g.art["validation"] = {}
    BY DEF VerdictInv, ThreadInv, Counted
  <2>2. Intact(disk[checkedOn]) /\ Clean(disk[checkedOn])
    BY <2>1 DEF VerdictInv, VerdictStands, ValidationFails, FailsWith
  <2> QED
    BY <2>2 DEF CompletedIsClean, Intact, Clean
<1> QED
  BY <1>1, VerdictInvInit, VerdictInvNext, PTL DEF DeliverySpec

-----------------------------------------------------------------------------
(* What is delivered, when the thread is recovered at most once.           *)

\* The declared files that a host has are those of the declaration.
Agrees(h) == \A f \in DOMAIN declared \cap DOMAIN disk[h] : disk[h][f] = declared[f]

\* What the running implementation has made is on its host.
MadeIsWritten ==
    /\ writing = [plan |-> writing.plan, made |-> writing.made, busy |-> writing.busy]
    /\ writing.busy => executions > 0
    /\ \A f \in DOMAIN writing.made : /\ f \in DOMAIN disk[host]
                                      /\ disk[host][f] = writing.made[f]

\* Only a recovery brings the task to a host that another one's files are not on.
OtherHostsEmpty ==
    /\ recoveries \in Nat
    /\ recoveries = 0 => \A h \in Hosts \ {host} : DOMAIN disk[h] = {}
    /\ executions = 0 => \A h \in Hosts : DOMAIN disk[h] = {}

WorkspaceInv ==
    /\ ThreadInv(g) /\ StartedIsBuilt
    /\ host \in Hosts /\ checkedOn \in Hosts
    /\ disk = [h \in Hosts |-> disk[h]]
    /\ MadeIsWritten /\ OtherHostsEmpty
    /\ recoveries <= 1 =>
         /\ g.next \in {"implementation_gate", "validation"} => Agrees(host)
         /\ g.next = "validation_gate" \/ g.status = "COMPLETED" => Agrees(checkedOn)

LEMMA WorkspaceInvInit == DeliveryInit => WorkspaceInv
<1> SUFFICES ASSUME DeliveryInit PROVE WorkspaceInv
  OBVIOUS
<1>1. ThreadInv(g) /\ g.next = "context" /\ g.status = "ANALYZING"
  BY StartIsSound DEF DeliveryInit, Init, Start
<1>2. MadeIsWritten /\ OtherHostsEmpty /\ StartedIsBuilt
  BY DEF DeliveryInit, MadeIsWritten, OtherHostsEmpty, StartedIsBuilt, Idle, NoFiles
<1> QED
  BY <1>1, <1>2 DEF DeliveryInit, WorkspaceInv

LEMMA WorkspaceInvNext == WorkspaceInv /\ [DeliveryNext]_allVars => WorkspaceInv'
<1> SUFFICES ASSUME WorkspaceInv, [DeliveryNext]_allVars PROVE WorkspaceInv'
  OBVIOUS
<1>1. CASE UNCHANGED allVars
  BY <1>1 DEF allVars, artifacts, workspace, WorkspaceInv, StartedIsBuilt, MadeIsWritten,
              OtherHostsEmpty, Agrees
<1>2. CASE DeliveryNext
  <2>1. g' = g \/ Moves(g, g')
    BY <1>2, DeliveryMoves
  <2>2. ThreadInv(g)' /\ (g' = g \/ Traced(g, g'))
    BY <2>1, ThreadInvKept, MovesAreTraced DEF WorkspaceInv
  <2>3. /\ g.status = "COMPLETED" => g.next \in {"judge", "END"}
        /\ g.next = "judge" => g.status = "COMPLETED"
        /\ g.next = "human_review" => ~(g.builds > 0)
        /\ g.builds \in Nat
    BY DEF WorkspaceInv, ThreadInv, Threads, ThreadsAt, Counted, BuiltIsGuarded, Developing, Checking, Halted
  <2> USE DEF WorkspaceInv, StartedIsBuilt, OtherHostsEmpty, MadeIsWritten
  <2> DEFINE Kept == /\ g'.next \in {"implementation_gate", "validation"} =>
                          g.next \in {"implementation_gate", "validation"}
                     /\ g'.next = "validation_gate" \/ g'.status = "COMPLETED" =>
                          g.next = "validation_gate" \/ g.status = "COMPLETED"
                     /\ executions' > 0 => g'.builds > 0 \/ g'.next = "implementation"
  <2>4. CASE Specify \/ ReviewSecurity \/ PlanTests \/ OtherStep
    <3>1. UNCHANGED <<declared, disk, host, writing, executions, checkedOn, recoveries>>
      BY <2>4 DEF Specify, ReviewSecurity, PlanTests, OtherStep, workspace
    <3>2. g.next \notin {"implementation", "validation"}
      BY <2>4 DEF Specify, ReviewSecurity, PlanTests, OtherStep, Produce
    <3>3. Kept
      BY <2>2, <2>3, <3>1, <3>2 DEF Traced
    <3>4. /\ host' \in Hosts /\ checkedOn' \in Hosts /\ disk' = [h \in Hosts |-> disk'[h]]
          /\ MadeIsWritten' /\ OtherHostsEmpty'
      BY <3>1
    <3>5. (Agrees(host)' <=> Agrees(host)) /\ (Agrees(checkedOn)' <=> Agrees(checkedOn))
      BY <3>1 DEF Agrees
    <3>6. StartedIsBuilt'
      BY <3>1, <3>3
    <3> QED
      BY <2>2, <3>1, <3>3, <3>4, <3>5, <3>6
  <2>5. CASE DecideReview
    <3>1. /\ UNCHANGED <<declared, disk, writing, executions, checkedOn, recoveries>>
          /\ host' \in Hosts /\ g.next = "human_review"
      BY <2>5 DEF DecideReview, Decide
    <3>2. executions = 0 /\ \A h \in Hosts : DOMAIN disk[h] = {}
      BY <2>3, <3>1
    <3>3. MadeIsWritten' /\ OtherHostsEmpty'
      BY <3>1, <3>2
    <3>4. \A h \in Hosts : Agrees(h)'
      BY <3>1, <3>2 DEF Agrees
    <3> QED
      BY <2>2, <3>1, <3>2, <3>3, <3>4
  <2>6. CASE StartWriting
    <3>1. UNCHANGED <<g, declared, disk, host, checkedOn, recoveries>>
      BY <2>6 DEF StartWriting
    <3>2. g.next = "implementation"
      BY <2>6 DEF StartWriting, Building
    <3>3. \/ writing' = writing /\ executions' = executions
          \/ /\ \E p \in Plans : writing' = [plan |-> p, made |-> NoFiles, busy |-> TRUE]
             /\ executions' = executions + 1
      BY <2>6 DEF StartWriting
    <3>4. MadeIsWritten'
      BY <3>1, <3>3 DEF NoFiles
    <3>5. OtherHostsEmpty' /\ executions' \in Nat
      BY <3>1, <3>3
    <3> QED
      BY <2>2, <2>3, <3>1, <3>2, <3>4, <3>5 DEF Agrees
  <2>7. CASE WriteFile
    <3> DEFINE change  == Head(writing.plan)
               content == [execution |-> executions, bad |-> change.bad]
    <3>1. /\ disk' = [disk EXCEPT ![host] = With(@, change.path, content)]
          /\ writing' = [writing EXCEPT !.plan = Tail(@), !.made = With(@, change.path, content)]
          /\ UNCHANGED <<g, declared, host, executions, checkedOn, recoveries>>
          /\ g.next = "implementation" /\ writing.busy
      BY <2>7 DEF WriteFile, Building
    <3> HIDE DEF change, content
    <3>2. /\ disk'[host] = With(disk[host], change.path, content)
          /\ \A h \in Hosts \ {host} : disk'[h] = disk[h]
          /\ disk' = [h \in Hosts |-> disk'[h]]
      BY <3>1
    <3>3. writing' = [plan |-> Tail(writing.plan),
                      made |-> With(writing.made, change.path, content),
                      busy |-> TRUE]
      BY <3>1
    <3>4. \A f \in DOMAIN writing'.made : /\ f \in DOMAIN disk'[host]
                                          /\ disk'[host][f] = writing'.made[f]
      BY <3>2, <3>3 DEF With
    <3>5. MadeIsWritten'
      <4>1. host' = host /\ executions' > 0
        BY <3>1
      <4>2. writing' = [plan |-> writing'.plan, made |-> writing'.made, busy |-> writing'.busy]
        BY ONLY <3>3
      <4> QED
        BY <3>4, <4>1, <4>2
    <3>6. OtherHostsEmpty'
      <4>1. host' = host /\ executions' > 0 /\ recoveries' = recoveries
        BY <3>1
      <4>2. recoveries = 0 => \A h \in Hosts \ {host} : DOMAIN disk'[h] = {}
        BY <3>2
      <4> QED
        BY <4>1, <4>2
    <3> QED
      BY <2>2, <2>3, <3>1, <3>2, <3>5, <3>6
  <2>8. CASE RefusePath
    <3>1. /\ UNCHANGED <<g, declared, disk, host, executions, checkedOn, recoveries>>
          /\ writing' = Idle /\ g.next = "implementation"
      BY <2>8 DEF RefusePath, Building
    <3>2. MadeIsWritten' /\ OtherHostsEmpty'
      BY <3>1 DEF Idle, NoFiles
    <3> QED
      BY <2>2, <3>1, <3>2 DEF Agrees
  <2>9. CASE FinishWriting
    <3>1. /\ UNCHANGED <<disk, host, executions, checkedOn, recoveries>>
          /\ writing' = Idle /\ g.next = "implementation" /\ declared' = writing.made
      BY <2>9 DEF FinishWriting, Produce, Declares
    <3>2. MadeIsWritten' /\ OtherHostsEmpty'
      BY <3>1 DEF Idle, NoFiles
    <3>3. Agrees(host)'
      BY <3>1 DEF Agrees
    <3>4. ~(g'.next = "validation_gate" \/ g'.status = "COMPLETED")
      BY <2>2, <2>3, <3>1 DEF Traced
    <3>5. StartedIsBuilt'
      BY <2>2, <2>3, <3>1, <2>9 DEF Traced, FinishWriting, Produce
    <3> QED
      BY <2>2, <3>1, <3>2, <3>3, <3>4, <3>5
  <2>10. CASE Validate
    <3>1. /\ UNCHANGED <<declared, disk, host, writing, executions, recoveries>>
          /\ checkedOn' = host /\ g.next = "validation"
      BY <2>10 DEF Validate, Produce
    <3>2. /\ MadeIsWritten' /\ OtherHostsEmpty'
          /\ recoveries <= 1 => Agrees(host)' /\ Agrees(checkedOn)'
      BY <3>1 DEF Agrees
    <3>3. StartedIsBuilt'
      BY <2>2, <2>3, <3>1 DEF Traced
    <3> QED
      BY <2>2, <3>1, <3>2, <3>3
  <2>11. CASE Recover
    <3>1. /\ UNCHANGED <<g, declared, disk, executions, checkedOn>>
          /\ writing' = Idle /\ host' \in Hosts
          /\ recoveries' = recoveries + 1
      BY <2>11 DEF Recover
    <3>2. recoveries' > 0 /\ recoveries' \in Nat /\ (recoveries' <= 1 => recoveries = 0)
      BY <3>1
    <3>3. MadeIsWritten' /\ OtherHostsEmpty'
      BY <3>1, <3>2 DEF Idle, NoFiles
    <3>4. recoveries' <= 1 /\ g.next \in {"implementation_gate", "validation"} => Agrees(host)'
      <4>1. CASE host' = host
        BY <3>1, <4>1 DEF Agrees
      <4>2. CASE host' # host
        BY <3>1, <3>2, <4>2 DEF Agrees
      <4> QED
        BY <4>1, <4>2
    <3>5. Agrees(checkedOn)' <=> Agrees(checkedOn)
      BY <3>1 DEF Agrees
    <3> QED
      BY <2>2, <3>1, <3>3, <3>4, <3>5
  <2> QED
    BY <1>2, <2>4, <2>5, <2>6, <2>7, <2>8, <2>9, <2>10, <2>11 DEF DeliveryNext, Work
<1> QED
  BY <1>1, <1>2

\* A completed task delivers the files of its last implementation, as it
\* declares them, if its thread is recovered once at most, whatever the limit;
\* with a second recovery an older file on a host the thread comes back to is
\* taken for the new one.
THEOREM LastBuildIsDelivered == DeliverySpec => []DeliversLastBuild
<1>1. WorkspaceInv /\ CompletedIsClean => DeliversLastBuild
  BY DEF WorkspaceInv, Agrees, CompletedIsClean, DeliversLastBuild, Delivered
<1> QED
  BY <1>1, WorkspaceInvInit, WorkspaceInvNext, CompletionIsClean, PTL DEF DeliverySpec
=============================================================================
