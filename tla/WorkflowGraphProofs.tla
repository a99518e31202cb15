------------------------- MODULE WorkflowGraphProofs -------------------------
(***************************************************************************)
(* What every move of a workflow thread preserves, for any limit on        *)
(* reworks and any artifacts its agents may produce: lemmas about the      *)
(* operators of WorkflowGraph, for whatever holds a thread state.          *)
(***************************************************************************)
EXTENDS WorkflowGraph, TLAPS

(* Where a thread is, from the security gate on.                           *)
Reviewing == {"prepare_human_review", "human_review"}
Planning  == {"test_planning", "test_plan_gate"}
Checking  == {"implementation_gate", "validation", "validation_gate"}
Developing  == {"implementation"} \cup Checking
Halted   == {"blocked", "END"}

\* What has passed its gate once the thread is that far.
PassedGates(s) ==
    /\ s.next \in {"architecture", "architecture_gate", "security", "security_gate",
                   "judge"} \cup Reviewing \cup Planning \cup Developing
         => s.art["specification"] = {}
    /\ s.next = "security_gate" => s.art["security"] \subseteq {"BLOCK", "HUMAN_REVIEW"}
    /\ s.next \in Reviewing => s.art["security"] = {"HUMAN_REVIEW"}
    /\ s.next \in {"judge"} \cup Planning \cup Developing =>
         /\ s.art["security"] \subseteq {"HUMAN_REVIEW"}
         /\ s.art["security"] # {} => s.review = "APPROVED"
    /\ s.next \in {"judge"} \cup Developing => s.art["test_planning"] = {}

\* A thread that has built something only builds, checks or stops.
BuiltIsGuarded(s) ==
    s.builds > 0 => /\ s.next \in {"judge"} \cup Developing \cup Halted
                    /\ s.art["specification"] = {} /\ s.art["test_planning"] = {}
                    /\ s.art["security"] \subseteq {"HUMAN_REVIEW"}
                    /\ s.art["security"] # {} => s.review = "APPROVED"

\* The counters, by the place of the thread.
Counted(s) ==
    /\ s.builds = 0 => s.rework = 0 /\ s.decisions = 0
    /\ s.builds <= MaxRework
    /\ s.next = "implementation" =>
         s.builds = s.rework /\ s.decisions = s.rework /\ s.rework < MaxRework
    /\ s.next \in Checking =>
         s.builds = s.rework + 1 /\ s.decisions = s.rework /\ s.rework < MaxRework
    /\ s.next = "validation_gate" => s.checked = s.builds
    /\ s.next = "judge" => s.status = "COMPLETED"
    /\ s.status = "COMPLETED" =>
         /\ s.art["validation"] = {} /\ s.checked = s.builds /\ s.builds > 0
         /\ s.decisions = s.rework + 1 /\ s.next \in {"judge", "END"}
    /\ s.status = "REWORK_REQUIRED" =>
         s.next = "implementation" /\ s.builds = s.rework /\ s.rework < MaxRework
    /\ s.status = "REWORK_EXHAUSTED" =>
         /\ s.next = "END" /\ s.builds = MaxRework
         /\ s.rework = MaxRework /\ s.decisions = MaxRework

\* A review is prepared once, and the policies decided before it stay.
ReviewPlaced(s) ==
    /\ s.review # "NONE" => /\ s.next \in {"human_review", "judge"} \cup Planning
                                          \cup Developing \cup Halted
                            /\ s.policies >= s.reviewAt
    /\ s.next = "human_review" => s.review = "PENDING" /\ s.status = "HUMAN_REVIEW"
    /\ s.review \in {"REJECTED", "EXPIRED"} => s.next \in Halted /\ s.blocked

\* What a thread's status and flags say of the way it went.
Flagged(s) ==
    /\ s.next \notin Halted => ~s.blocked
    /\ s.next = "blocked" => s.blocked
    /\ s.judged => s.next = "END" /\ s.status = "COMPLETED"
    /\ s.next = "END" =>
         /\ s.blocked <=> s.status = "BLOCKED"
         /\ s.judged <=> s.status = "COMPLETED"
         /\ s.status \in {"BLOCKED", "COMPLETED", "REWORK_EXHAUSTED", "HUMAN_REVIEW"}
    /\ s.status = "HUMAN_REVIEW" =>
         s.next \in Reviewing \/ (s.next = "END" /\ ~Automatic)

ThreadInv(s) ==
    /\ s \in Threads
    /\ PassedGates(s) /\ BuiltIsGuarded(s) /\ Counted(s)
    /\ ReviewPlaced(s) /\ Flagged(s)

-----------------------------------------------------------------------------
\* Initially nothing was produced.
LEMMA StartIsSound == ThreadInv(Start)
<1> USE GraphConstantsOK DEF Start
<1>1. Start \in Threads
  BY DEF Threads, ThreadsAt, Nodes, AgentNodes, Statuses, AgentStatus, Reviews, Actions
<1>2. PassedGates(Start) /\ BuiltIsGuarded(Start) /\ Counted(Start) /\ ReviewPlaced(Start) /\ Flagged(Start)
  BY DEF PassedGates, BuiltIsGuarded, Counted, ReviewPlaced, Flagged,
         Reviewing, Planning, Checking, Developing, Halted
<1> QED
  BY <1>1, <1>2 DEF ThreadInv

\* The definition of Steps, as the disjunction of its cases.
LEMMA StepCases ==
    ASSUME NEW s, NEW t, t \in Steps(s)
    PROVE  \/ s.next \in AgentNodes /\ t \in RunAgent(s)
           \/ s.next = "context" /\ t \in Contextualize(s)
           \/ s.next = "requirements_gate" /\ t \in RequirementsGate(s)
           \/ s.next = "specification_gate" /\ t \in SpecificationGate(s)
           \/ s.next = "architecture_gate" /\ t \in ArchitectureGate(s)
           \/ s.next = "security_gate" /\ t \in SecurityGate(s)
           \/ s.next = "prepare_human_review" /\ t \in PrepareHumanReview(s)
           \/ s.next = "test_plan_gate" /\ t \in TestPlanGate(s)
           \/ s.next = "implementation_gate" /\ t \in ImplementationGate(s)
           \/ s.next = "validation_gate" /\ t \in ValidationGate(s)
           \/ s.next = "judge" /\ t \in Judge(s)
           \/ s.next = "blocked" /\ t \in Blocked(s)
BY DEF Steps

\* An agent may produce anything its schema allows.
LEMMA AgentKeeps ==
    ASSUME NEW s, NEW t, ThreadInv(s), s.next \in AgentNodes, t \in RunAgent(s)
    PROVE  ThreadInv(t)
<1> DEFINE a == s.next
<1>1. PICK fails \in Outputs[a] :
        t = [s EXCEPT !.art[a]  = fails,
                       !.status  = AgentStatus[a],
                       !.builds  = IF a = "implementation" THEN @ + 1 ELSE @,
                       !.checked = IF a = "validation" THEN s.builds ELSE @,
                       !.next    = GateOf[a]]
  BY DEF RunAgent
<1>2. fails \subseteq Actions /\ (a = "security" => fails \subseteq {"BLOCK", "HUMAN_REVIEW"})
  BY GraphConstantsOK DEF ThreadInv
<1>3. /\ t.next = GateOf[a] /\ t.status = AgentStatus[a]
      /\ t.art = [s.art EXCEPT ![a] = fails]
      /\ t.builds = (IF a = "implementation" THEN s.builds + 1 ELSE s.builds)
      /\ t.checked = (IF a = "validation" THEN s.builds ELSE s.checked)
      /\ t.blocked = s.blocked /\ t.policies = s.policies
      /\ t.review = s.review /\ t.reviewAt = s.reviewAt
      /\ t.rework = s.rework /\ t.decisions = s.decisions
      /\ t.judged = s.judged
  BY <1>1 DEF ThreadInv, Threads, ThreadsAt
<1>4. GateOf[a] \in GateNodes /\ AgentStatus[a] \in Statuses
  BY DEF GateOf, AgentNodes, GateNodes, Statuses
<1>5. /\ [s.art EXCEPT ![a] = fails] \in [AgentNodes -> SUBSET Actions]
      /\ t.builds \in Nat /\ t.checked \in Nat
  BY <1>2, <1>3 DEF ThreadInv, Threads, ThreadsAt
<1>6. t = [s EXCEPT !.art = t.art, !.status = t.status, !.builds = t.builds,
                     !.checked = t.checked, !.next = t.next]
  BY <1>1, <1>3 DEF ThreadInv, Threads, ThreadsAt
<1>7. t \in Threads
  BY <1>3, <1>4, <1>5, <1>6 DEF ThreadInv, Threads, ThreadsAt, Nodes
<1> USE <1>2, <1>3 DEF ThreadInv, Threads, ThreadsAt, Reviewing, Planning, Checking, Developing,
                       Halted, AgentNodes, GateOf
<1>8. PassedGates(t)
  BY DEF PassedGates
<1>9. BuiltIsGuarded(t)
  BY DEF PassedGates, BuiltIsGuarded
<1>10. Counted(t)
  BY GraphConstantsOK DEF BuiltIsGuarded, Counted, AgentStatus
<1>11. ReviewPlaced(t)
  BY DEF ReviewPlaced
<1>12. Flagged(t)
  BY DEF Flagged, AgentStatus
<1> QED
  BY <1>7, <1>8, <1>9, <1>10, <1>11, <1>12

\* A thread moves: what its agents produced, its review and its counters stay.
Moved(s, t) ==
    /\ t \in Threads
    /\ t.art = s.art /\ t.builds = s.builds /\ t.checked = s.checked
    /\ t.review = s.review /\ t.reviewAt = s.reviewAt
    /\ t.rework = s.rework /\ t.decisions = s.decisions
    /\ t.judged = s.judged

\* Where the gates move a thread to, and what they have seen.
GateMoves(s, t) ==
    \/ /\ s.next = "context" /\ t.next = "requirements"
       /\ ~t.blocked /\ t.status = "CONTEXTUALIZING"
    \/ /\ s.next = "requirements_gate" /\ t.next = "specification"
       /\ ~t.blocked /\ t.status = s.status
    \/ /\ s.next = "specification_gate" /\ t.next = "architecture"
       /\ s.art["specification"] = {} /\ ~t.blocked /\ t.status = s.status
    \/ /\ s.next = "architecture_gate" /\ t.next = "security"
       /\ ~t.blocked /\ t.status = s.status
    \/ /\ s.next = "security_gate" /\ t.next = "test_planning"
       /\ s.art["security"] = {} /\ ~t.blocked
       /\ t.status = "READY_FOR_IMPLEMENTATION"
    \/ /\ s.next = "security_gate" /\ t.next = "prepare_human_review"
       /\ s.art["security"] = {"HUMAN_REVIEW"} /\ ~t.blocked
       /\ t.status = "HUMAN_REVIEW"
    \/ /\ s.next = "security_gate" /\ t.next = "END"
       /\ t.blocked /\ t.status = "BLOCKED"
    \/ /\ s.next = "test_plan_gate" /\ t.next = "implementation"
       /\ s.art["test_planning"] = {} /\ ~t.blocked /\ t.status = s.status
       /\ t.policies >= s.policies
    \/ /\ s.next = "implementation_gate" /\ t.next = "validation"
       /\ ~t.blocked /\ t.status = "IMPLEMENTING" /\ t.policies >= s.policies
    \/ /\ s.next \in GateNodes \ {"security_gate", "validation_gate"}
       /\ t.next = "blocked" /\ t.blocked /\ t.status \in {s.status, "BLOCKED"}
       /\ s.next \in {"test_plan_gate", "implementation_gate"} => t.policies >= s.policies
    \/ /\ s.next = "blocked" /\ t.next = "END"
       /\ t.blocked /\ t.status = "BLOCKED" /\ t.policies = s.policies

\* Such a move preserves the invariant.
LEMMA GateMoveKeeps ==
    ASSUME NEW s, NEW t, ThreadInv(s), Moved(s, t), GateMoves(s, t)
    PROVE  ThreadInv(t)
<1> USE DEF ThreadInv, Moved, GateMoves, Reviewing, Planning, Checking, Developing,
            Halted, GateNodes
<1>1. PassedGates(t)
  BY DEF PassedGates
<1>2. BuiltIsGuarded(t)
  BY DEF PassedGates, BuiltIsGuarded
<1>3. Counted(t)
  <2>1. s.builds \in Nat /\ s.rework \in Nat
    BY DEF Threads, ThreadsAt
  <2> QED
    BY <2>1, GraphConstantsOK DEF BuiltIsGuarded, Counted
<1>4. ReviewPlaced(t)
  <2>1. s.policies \in Nat /\ s.reviewAt \in Nat /\ t.policies \in Nat
    BY DEF Threads, ThreadsAt
  <2> QED
    BY <2>1 DEF ReviewPlaced
<1>5. Flagged(t)
  BY DEF Flagged
<1> QED
  BY <1>1, <1>2, <1>3, <1>4, <1>5

\* A gate that blocks changes the policies, the flag and the place.
LEMMA BlockingGateMoves ==
    ASSUME NEW s \in Threads, NEW t,
           NEW fails \in BOOLEAN, NEW policies \in Nat, NEW next \in Nodes,
           t \in BlockingGate(s, fails, policies, next)
    PROVE  /\ Moved(s, t)
           /\ t.policies = policies /\ t.blocked = fails /\ t.status = s.status
           /\ t.next = IF fails THEN "blocked" ELSE next
<1>1. t = [s EXCEPT !.policies = policies, !.blocked = fails,
                     !.next = IF fails THEN "blocked" ELSE next]
  BY DEF BlockingGate
<1>2. (IF fails THEN "blocked" ELSE next) \in Nodes
  BY DEF Nodes
<1> QED
  BY <1>1, <1>2 DEF Moved, Threads, ThreadsAt

\* The nodes that only move a thread: the context and the gates but the last.
LEMMA GatesMove ==
    ASSUME NEW s, NEW t, ThreadInv(s),
           \/ s.next = "context" /\ t \in Contextualize(s)
           \/ s.next = "requirements_gate" /\ t \in RequirementsGate(s)
           \/ s.next = "specification_gate" /\ t \in SpecificationGate(s)
           \/ s.next = "architecture_gate" /\ t \in ArchitectureGate(s)
           \/ s.next = "security_gate" /\ t \in SecurityGate(s)
           \/ s.next = "test_plan_gate" /\ t \in TestPlanGate(s)
           \/ s.next = "implementation_gate" /\ t \in ImplementationGate(s)
           \/ s.next = "blocked" /\ t \in Blocked(s)
    PROVE  Moved(s, t) /\ GateMoves(s, t)
<1>1. /\ s \in Threads /\ s.policies \in Nat /\ s.blocked \in BOOLEAN
      /\ s.status \in Statuses
  BY DEF ThreadInv, Threads, ThreadsAt
<1>2. {"BLOCKED", "CONTEXTUALIZING", "READY_FOR_IMPLEMENTATION", "HUMAN_REVIEW",
       "IMPLEMENTING"} \subseteq Statuses
  BY DEF Statuses, AgentStatus, AgentNodes
<1>3. {"specification", "architecture", "security", "test_planning", "requirements",
       "implementation", "validation", "prepare_human_review", "blocked"} \subseteq Nodes
  BY DEF Nodes, AgentNodes
<1>4. CASE s.next = "context" /\ t \in Contextualize(s)
  <2>1. ~s.blocked
    BY <1>4 DEF ThreadInv, Flagged, Halted
  <2> QED
    BY <1>1, <1>2, <1>3, <1>4, <2>1 DEF Contextualize, Threads, ThreadsAt, Moved, GateMoves
<1>5. CASE s.next = "requirements_gate" /\ t \in RequirementsGate(s)
  <2> DEFINE fails == s.art["requirements"] \cap {"BLOCK", "ABSENT"} # {}
  <2>1. fails \in BOOLEAN /\ 2 \in Nat /\ "specification" \in Nodes
    BY <1>1, <1>3
  <2>2. t \in BlockingGate(s, fails, 2, "specification")
    BY <1>5 DEF RequirementsGate
  <2> HIDE DEF fails
  <2>3. /\ Moved(s, t) /\ t.blocked = fails /\ t.status = s.status
        /\ t.next = IF fails THEN "blocked" ELSE "specification"
    BY <1>1, <2>1, <2>2, BlockingGateMoves
  <2> QED
    BY <1>5, <2>3 DEF GateMoves, GateNodes, fails
<1>6. CASE s.next = "specification_gate" /\ t \in SpecificationGate(s)
  <2> DEFINE fails == s.art["specification"] # {}
  <2>1. fails \in BOOLEAN /\ s.policies + 4 \in Nat /\ "architecture" \in Nodes
    BY <1>1, <1>3
  <2>2. t \in BlockingGate(s, fails, s.policies + 4, "architecture")
    BY <1>6 DEF SpecificationGate
  <2> HIDE DEF fails
  <2>3. /\ Moved(s, t) /\ t.blocked = fails /\ t.status = s.status
        /\ t.next = IF fails THEN "blocked" ELSE "architecture"
    BY <1>1, <2>1, <2>2, BlockingGateMoves
  <2> QED
    BY <1>6, <2>3 DEF GateMoves, GateNodes, fails
<1>7. CASE s.next = "architecture_gate" /\ t \in ArchitectureGate(s)
  <2> DEFINE fails == s.art["architecture"] # {}
  <2>1. fails \in BOOLEAN /\ s.policies + 1 \in Nat /\ "security" \in Nodes
    BY <1>1, <1>3
  <2>2. t \in BlockingGate(s, fails, s.policies + 1, "security")
    BY <1>7 DEF ArchitectureGate
  <2> HIDE DEF fails
  <2>3. /\ Moved(s, t) /\ t.blocked = fails /\ t.status = s.status
        /\ t.next = IF fails THEN "blocked" ELSE "security"
    BY <1>1, <2>1, <2>2, BlockingGateMoves
  <2> QED
    BY <1>7, <2>3 DEF GateMoves, GateNodes, fails
<1>8. CASE s.next = "test_plan_gate" /\ t \in TestPlanGate(s)
  <2> DEFINE fails == s.art["test_planning"] # {}
  <2>1. fails \in BOOLEAN /\ s.policies + 3 \in Nat /\ "implementation" \in Nodes
    BY <1>1, <1>3
  <2>2. t \in BlockingGate(s, fails, s.policies + 3, "implementation")
    BY <1>8 DEF TestPlanGate
  <2> HIDE DEF fails
  <2>3. /\ Moved(s, t) /\ t.blocked = fails /\ t.status = s.status
        /\ t.next = IF fails THEN "blocked" ELSE "implementation"
        /\ t.policies = s.policies + 3
    BY <1>1, <2>1, <2>2, BlockingGateMoves
  <2>4. t.policies >= s.policies
    BY <1>1, <2>3
  <2> QED
    BY <1>8, <2>3, <2>4 DEF GateMoves, GateNodes, fails
<1>9. CASE s.next = "implementation_gate" /\ t \in ImplementationGate(s)
  <2> DEFINE fails == s.art["implementation"] # {}
  <2>1. PICK u \in BlockingGate(s, fails, s.policies + 1, "validation") :
          t = [u EXCEPT !.status = IF fails THEN "BLOCKED" ELSE "IMPLEMENTING"]
    BY <1>9 DEF ImplementationGate
  <2>2. fails \in BOOLEAN /\ s.policies + 1 \in Nat
    BY <1>1
  <2> HIDE DEF fails
  <2>3. u = [s EXCEPT !.policies = s.policies + 1, !.blocked = fails,
                      !.next = IF fails THEN "blocked" ELSE "validation"]
    BY <2>1 DEF BlockingGate
  <2>4. u \in Threads
    BY <1>1, <1>3, <2>2, <2>3 DEF Threads, ThreadsAt
  <2>5. /\ Moved(s, t) /\ t.policies = s.policies + 1 /\ t.blocked = fails
        /\ t.status = IF fails THEN "BLOCKED" ELSE "IMPLEMENTING"
        /\ t.next = IF fails THEN "blocked" ELSE "validation"
    BY <1>1, <1>2, <2>1, <2>3, <2>4 DEF Moved, Threads, ThreadsAt
  <2>6. t.policies >= s.policies
    BY <1>1, <2>5
  <2> QED
    BY <1>9, <2>5, <2>6 DEF GateMoves, GateNodes
<1>10. CASE s.next = "blocked" /\ t \in Blocked(s)
  <2>1. s.blocked
    BY <1>10 DEF ThreadInv, Flagged
  <2> QED
    BY <1>1, <1>2, <1>10, <2>1 DEF Blocked, Threads, ThreadsAt, Moved, GateMoves
<1>11. CASE s.next = "security_gate" /\ t \in SecurityGate(s)
  <2> DEFINE fails  == s.art["security"]
             hard   == fails \cap {"BLOCK", "ABSENT"} # {}
             says   == IF hard THEN "BLOCKED"
                       ELSE IF "HUMAN_REVIEW" \in fails THEN "HUMAN_REVIEW"
                       ELSE "READY_FOR_IMPLEMENTATION"
  <2>1. t = [s EXCEPT !.policies = s.policies + 4, !.blocked = hard,
                       !.status = says, !.next = RouteAfterSecurity(says)]
    BY <1>1, <1>11 DEF SecurityGate, Threads, ThreadsAt
  <2>2. fails \subseteq {"BLOCK", "HUMAN_REVIEW"}
    BY <1>11 DEF ThreadInv, PassedGates
  <2>3. says \in Statuses /\ RouteAfterSecurity(says) \in Nodes \cup {"END"}
    BY <1>2, <1>3 DEF RouteAfterSecurity
  <2>4. hard \in BOOLEAN /\ s.policies + 4 \in Nat
    BY <1>1
  <2> HIDE DEF hard, says
  <2>5. Moved(s, t) /\ t.blocked = hard /\ t.status = says /\ t.next = RouteAfterSecurity(says)
    BY <1>1, <2>1, <2>3, <2>4 DEF Moved, Threads, ThreadsAt
  <2> QED
    BY <1>11, <2>2, <2>5 DEF GateMoves, RouteAfterSecurity, hard, says
<1> QED
  BY <1>4, <1>5, <1>6, <1>7, <1>8, <1>9, <1>10, <1>11

\* The review is prepared, and decided once.
LEMMA ReviewKeeps ==
    ASSUME NEW s, NEW t, ThreadInv(s),
           \/ s.next = "prepare_human_review" /\ t \in PrepareHumanReview(s)
           \/ s.next = "human_review" /\ \E d \in Decisions : t = Resume(s, d)
    PROVE  ThreadInv(t)
<1> USE DEF ThreadInv, Reviewing, Planning, Checking, Developing, Halted
<1>1. /\ s \in Threads /\ s.policies \in Nat /\ s.builds \in Nat
      /\ {"HUMAN_REVIEW", "READY_FOR_IMPLEMENTATION", "BLOCKED"} \subseteq Statuses
      /\ {"human_review", "test_planning", "blocked"} \subseteq Nodes
  BY DEF Threads, ThreadsAt, Statuses, Nodes, AgentNodes
<1>2. CASE s.next = "prepare_human_review" /\ t \in PrepareHumanReview(s)
  <2>1. t = [s EXCEPT !.review = "PENDING", !.reviewAt = s.policies,
                       !.status = "HUMAN_REVIEW", !.next = "human_review"]
    BY <1>2 DEF PrepareHumanReview
  <2>2. t \in Threads
    BY <1>1, <2>1 DEF Threads, ThreadsAt, Reviews
  <2>3. /\ t.next = "human_review" /\ t.status = "HUMAN_REVIEW"
        /\ t.review = "PENDING" /\ t.reviewAt = s.policies
        /\ t.policies = s.policies /\ t.blocked = s.blocked /\ t.art = s.art
        /\ t.builds = s.builds /\ t.checked = s.checked /\ t.rework = s.rework
        /\ t.decisions = s.decisions /\ t.judged = s.judged
    BY <1>1, <2>1 DEF Threads, ThreadsAt
  <2>4. PassedGates(t) /\ BuiltIsGuarded(t)
    BY <1>2, <2>3 DEF PassedGates, BuiltIsGuarded
  <2>5. Counted(t)
    BY <1>1, <1>2, <2>3, GraphConstantsOK DEF BuiltIsGuarded, Counted
  <2>6. ReviewPlaced(t) /\ Flagged(t)
    BY <1>1, <1>2, <2>3 DEF ReviewPlaced, Flagged
  <2> QED
    BY <2>2, <2>4, <2>5, <2>6
<1>3. CASE s.next = "human_review" /\ \E d \in Decisions : t = Resume(s, d)
  <2>1. PICK d \in Decisions : t = Resume(s, d)
    BY <1>3
  <2> DEFINE approved == d = "APPROVED"
             says     == IF approved THEN "READY_FOR_IMPLEMENTATION" ELSE "BLOCKED"
             to       == IF approved THEN "test_planning" ELSE "blocked"
  <2>2. t = [s EXCEPT !.review = d, !.status = says, !.blocked = ~approved, !.next = to]
    BY <2>1 DEF Resume
  <2>3. says \in Statuses /\ to \in Nodes /\ d \in Reviews /\ d # "NONE"
    BY <1>1, <2>1 DEF Reviews, Decisions
  <2>4. /\ t \in Threads /\ t.review = d /\ t.status = says
        /\ t.blocked = ~approved /\ t.next = to
        /\ t.reviewAt = s.reviewAt /\ t.policies = s.policies /\ t.art = s.art
        /\ t.builds = s.builds /\ t.checked = s.checked /\ t.rework = s.rework
        /\ t.decisions = s.decisions /\ t.judged = s.judged
    BY <1>1, <2>2, <2>3 DEF Threads, ThreadsAt
  <2>5. s.next = "human_review"
    BY <1>3
  <2>6. PassedGates(t) /\ BuiltIsGuarded(t)
    BY <2>4, <2>5 DEF PassedGates, BuiltIsGuarded
  <2>7. Counted(t)
    BY <1>1, <2>4, <2>5, GraphConstantsOK DEF BuiltIsGuarded, Counted
  <2>8. ReviewPlaced(t) /\ Flagged(t)
    BY <1>1, <2>4, <2>5 DEF ReviewPlaced, Flagged
  <2> QED
    BY <2>4, <2>6, <2>7, <2>8
<1> QED
  BY <1>2, <1>3

\* A validation completes the thread, sends it back or gives it up.
LEMMA ValidationKeeps ==
    ASSUME NEW s, NEW t, ThreadInv(s), s.next = "validation_gate", t \in ValidationGate(s)
    PROVE  ThreadInv(t)
<1> USE DEF ThreadInv, Reviewing, Planning, Checking, Developing, Halted
<1> DEFINE required  == s.art["validation"] # {}
           attempt   == IF required THEN s.rework + 1 ELSE s.rework
           exhausted == required /\ attempt >= MaxRework
           says      == IF ~required THEN "COMPLETED"
                        ELSE IF exhausted THEN "REWORK_EXHAUSTED"
                        ELSE IF Automatic THEN "REWORK_REQUIRED"
                        ELSE "HUMAN_REVIEW"
           to        == IF ~required THEN "judge"
                        ELSE IF ~exhausted /\ Automatic THEN "implementation"
                        ELSE "END"
<1>1. t = [s EXCEPT !.policies = s.policies + 2, !.rework = attempt,
                     !.decisions = s.decisions + 1, !.status = says, !.next = to]
  BY DEF ValidationGate, Attempt, Exhausted, Threads, ThreadsAt
<1>2. /\ s \in Threads /\ s.policies \in Nat /\ s.rework \in Nat /\ s.decisions \in Nat
      /\ s.builds \in Nat /\ s.reviewAt \in Nat
  BY DEF Threads, ThreadsAt
<1>3. /\ says \in Statuses /\ to \in Nodes \cup {"END"}
      /\ attempt \in Nat /\ s.policies + 2 \in Nat /\ s.decisions + 1 \in Nat
  BY <1>2 DEF Statuses, Nodes, AgentNodes
<1> HIDE DEF attempt, says, to
<1>4. /\ t \in Threads /\ t.policies = s.policies + 2 /\ t.rework = attempt
      /\ t.decisions = s.decisions + 1 /\ t.status = says /\ t.next = to
      /\ t.blocked = s.blocked /\ t.art = s.art /\ t.builds = s.builds
      /\ t.checked = s.checked /\ t.review = s.review /\ t.reviewAt = s.reviewAt
      /\ t.judged = s.judged
  BY <1>1, <1>2, <1>3 DEF Threads, ThreadsAt
<1> USE DEF attempt, says, to
<1>5. PassedGates(t) /\ BuiltIsGuarded(t)
  BY <1>4 DEF PassedGates, BuiltIsGuarded
<1>6. Counted(t)
  BY <1>2, <1>4, GraphConstantsOK DEF Counted
<1>7. ReviewPlaced(t)
  BY <1>2, <1>4 DEF ReviewPlaced
<1>8. Flagged(t)
  BY <1>4 DEF Flagged
<1> QED
  BY <1>4, <1>5, <1>6, <1>7, <1>8

\* The judge changes nothing but that it was asked.
LEMMA JudgeKeeps ==
    ASSUME NEW s, NEW t, ThreadInv(s), s.next = "judge", t \in Judge(s)
    PROVE  ThreadInv(t)
<1> USE DEF ThreadInv, Reviewing, Planning, Checking, Developing, Halted
<1>1. t = [s EXCEPT !.judged = TRUE, !.next = "END"]
  BY DEF Judge
<1>2. /\ t \in Threads /\ t.judged = TRUE /\ t.next = "END" /\ t.status = s.status
      /\ t.blocked = s.blocked /\ t.art = s.art /\ t.policies = s.policies
      /\ t.builds = s.builds /\ t.checked = s.checked /\ t.rework = s.rework
      /\ t.decisions = s.decisions /\ t.review = s.review /\ t.reviewAt = s.reviewAt
  BY <1>1 DEF Threads, ThreadsAt
<1>3. PassedGates(t) /\ BuiltIsGuarded(t) /\ Counted(t) /\ ReviewPlaced(t)
  BY <1>2 DEF PassedGates, BuiltIsGuarded, Counted, ReviewPlaced
<1>4. Flagged(t)
  BY <1>2 DEF Flagged, Counted
<1> QED
  BY <1>2, <1>3, <1>4

\* A thread only moves by executing its node or by the decision of its review.
Moves(s, t) ==
    t \in Steps(s) \/ (s.next = "human_review" /\ \E d \in Decisions : t = Resume(s, d))

\* Every move of a thread preserves the invariant.
LEMMA ThreadInvKept == \A s, t : ThreadInv(s) /\ Moves(s, t) => ThreadInv(t)
<1> SUFFICES ASSUME NEW s, NEW t, ThreadInv(s), Moves(s, t) PROVE ThreadInv(t)
  OBVIOUS
<1>1. CASE t \in Steps(s)
  BY <1>1, StepCases, AgentKeeps, GatesMove, GateMoveKeeps, ReviewKeeps,
     ValidationKeeps, JudgeKeeps
<1>2. CASE s.next = "human_review" /\ \E d \in Decisions : t = Resume(s, d)
  BY <1>2, ReviewKeeps
<1> QED
  BY <1>1, <1>2 DEF Moves

\* Once a review is prepared, it keeps its place among the policies.
LEMMA PoliciesKept ==
    \A s, t : ThreadInv(s) /\ Moves(s, t) /\ s.review # "NONE" =>
               t.reviewAt = s.reviewAt /\ t.policies >= s.policies
<1> SUFFICES ASSUME NEW s, NEW t, ThreadInv(s), Moves(s, t), s.review # "NONE"
             PROVE  t.reviewAt = s.reviewAt /\ t.policies >= s.policies
  OBVIOUS
<1>1. s \in Threads /\ s.policies \in Nat /\ s.rework \in Nat
  BY DEF ThreadInv, Threads, ThreadsAt
<1>2. s.next \in {"human_review", "judge"} \cup Planning \cup Developing \cup Halted
  BY DEF ThreadInv, ReviewPlaced
<1>3. CASE s.next \in AgentNodes /\ t \in RunAgent(s)
  <2>1. PICK fails \in Outputs[s.next] :
          t = [s EXCEPT !.art[s.next] = fails,
                         !.status  = AgentStatus[s.next],
                         !.builds  = IF s.next = "implementation" THEN @ + 1 ELSE @,
                         !.checked = IF s.next = "validation" THEN s.builds ELSE @,
                         !.next    = GateOf[s.next]]
    BY <1>3 DEF RunAgent
  <2>2. t.policies = s.policies /\ t.reviewAt = s.reviewAt
    BY <1>1, <2>1 DEF Threads, ThreadsAt
  <2> QED
    BY <1>1, <2>2
<1>4. CASE \/ s.next = "test_plan_gate" /\ t \in TestPlanGate(s)
           \/ s.next = "implementation_gate" /\ t \in ImplementationGate(s)
           \/ s.next = "blocked" /\ t \in Blocked(s)
  <2>1. Moved(s, t) /\ GateMoves(s, t)
    BY <1>4, GatesMove
  <2> QED
    BY <1>1, <1>4, <2>1 DEF Moved, GateMoves, GateNodes
<1>5. CASE s.next = "validation_gate" /\ t \in ValidationGate(s)
  <2>1. t.policies = s.policies + 2 /\ t.reviewAt = s.reviewAt
    BY <1>1, <1>5 DEF ValidationGate, Threads, ThreadsAt
  <2> QED
    BY <1>1, <2>1
<1>6. CASE s.next = "judge" /\ t \in Judge(s)
  <2>1. t = [s EXCEPT !.judged = TRUE, !.next = "END"]
    BY <1>6 DEF Judge
  <2>2. t.policies = s.policies /\ t.reviewAt = s.reviewAt
    BY <1>1, <2>1 DEF Threads, ThreadsAt
  <2> QED
    BY <1>1, <2>2
<1>7. CASE s.next = "human_review" /\ \E d \in Decisions : t = Resume(s, d)
  <2>1. PICK d \in Decisions : t = Resume(s, d)
    BY <1>7
  <2>2. t.policies = s.policies /\ t.reviewAt = s.reviewAt
    BY <1>1, <2>1 DEF Resume, Threads, ThreadsAt
  <2> QED
    BY <1>1, <2>2
<1>8. s.next \notin {"context", "requirements_gate", "specification_gate",
                    "architecture_gate", "security_gate", "prepare_human_review"}
  BY <1>2 DEF Planning, Developing, Checking, Halted
<1>9. CASE t \in Steps(s)
  BY <1>3, <1>4, <1>5, <1>6, <1>8, <1>9, StepCases
<1> QED
  BY <1>7, <1>9 DEF Moves
(* The places before the specification is known.                           *)
Early == {"context", "requirements", "requirements_gate", "specification"}

\* Where a move comes from, and what it leaves alone.
Traced(s, t) ==
    /\ \A a \in AgentNodes : a # s.next => t.art[a] = s.art[a]
    /\ t.next \in Early => s.next \in Early
    /\ t.next = "validation_gate" => s.next = "validation"
    /\ t.next = "validation" => s.next = "implementation_gate"
    /\ t.next = "implementation_gate" => s.next = "implementation"
    /\ t.status = "COMPLETED" => s.next \in {"validation_gate", "judge"}
    /\ s.next # "implementation" => t.builds = s.builds
    /\ s.next = "implementation" => t.builds = s.builds + 1
    /\ s.review = "APPROVED" => t.review = "APPROVED"
    /\ t.review = "APPROVED" => s.review = "APPROVED" \/ s.next = "human_review"
    /\ s.next \notin Reviewing => t.review = s.review

\* Every move is traced: no artifact is replaced but by its own node.
LEMMA MovesAreTraced == \A s, t : ThreadInv(s) /\ Moves(s, t) => Traced(s, t)
<1> SUFFICES ASSUME NEW s, NEW t, ThreadInv(s), Moves(s, t) PROVE Traced(s, t)
  OBVIOUS
<1>1. /\ s \in Threads /\ s.art \in [AgentNodes -> SUBSET Actions]
      /\ s.status = "COMPLETED" => s.next \in {"judge", "END"}
      /\ s.next = "human_review" => s.review = "PENDING" /\ s.status = "HUMAN_REVIEW"
      /\ s.next = "prepare_human_review" => s.review = "NONE"
  BY DEF ThreadInv, Threads, ThreadsAt, Counted, ReviewPlaced, Planning, Developing, Checking, Halted
<1>2. CASE s.next \in AgentNodes /\ t \in RunAgent(s)
  <2>1. PICK fails \in Outputs[s.next] :
          t = [s EXCEPT !.art[s.next] = fails,
                        !.status  = AgentStatus[s.next],
                        !.builds  = IF s.next = "implementation" THEN @ + 1 ELSE @,
                        !.checked = IF s.next = "validation" THEN s.builds ELSE @,
                        !.next    = GateOf[s.next]]
    BY <1>2 DEF RunAgent
  <2>2. /\ t.art = [s.art EXCEPT ![s.next] = fails] /\ t.next = GateOf[s.next]
        /\ t.builds = (IF s.next = "implementation" THEN s.builds + 1 ELSE s.builds)
        /\ t.status = AgentStatus[s.next] /\ t.review = s.review
    BY <1>1, <2>1 DEF Threads, ThreadsAt
  <2> QED
    BY <1>1, <1>2, <2>2 DEF Traced, AgentNodes, GateOf, AgentStatus, Early
<1>3. CASE \/ s.next = "context" /\ t \in Contextualize(s)
           \/ s.next = "requirements_gate" /\ t \in RequirementsGate(s)
           \/ s.next = "specification_gate" /\ t \in SpecificationGate(s)
           \/ s.next = "architecture_gate" /\ t \in ArchitectureGate(s)
           \/ s.next = "security_gate" /\ t \in SecurityGate(s)
           \/ s.next = "test_plan_gate" /\ t \in TestPlanGate(s)
           \/ s.next = "implementation_gate" /\ t \in ImplementationGate(s)
           \/ s.next = "blocked" /\ t \in Blocked(s)
  <2>1. Moved(s, t) /\ GateMoves(s, t)
    BY <1>3, GatesMove
  <2> QED
    BY <1>1, <1>3, <2>1 DEF Traced, Moved, GateMoves, GateNodes, Early
<1>4. CASE s.next = "prepare_human_review" /\ t \in PrepareHumanReview(s)
  <2>1. t = [s EXCEPT !.review = "PENDING", !.reviewAt = s.policies,
                      !.status = "HUMAN_REVIEW", !.next = "human_review"]
    BY <1>4 DEF PrepareHumanReview
  <2>2. t.art = s.art /\ t.builds = s.builds /\ t.next = "human_review"
        /\ t.status = "HUMAN_REVIEW" /\ t.review = "PENDING"
    BY <1>1, <2>1 DEF Threads, ThreadsAt
  <2> QED
    BY <1>1, <1>4, <2>2 DEF Traced, Early, Reviewing
<1>5. CASE s.next = "validation_gate" /\ t \in ValidationGate(s)
  <2>1. /\ t.art = s.art /\ t.builds = s.builds /\ t.review = s.review
        /\ t.next \in {"judge", "implementation", "END"}
    BY <1>1, <1>5 DEF ValidationGate, Threads, ThreadsAt
  <2> QED
    BY <1>5, <2>1 DEF Traced, Early
<1>6. CASE s.next = "judge" /\ t \in Judge(s)
  <2>1. t = [s EXCEPT !.judged = TRUE, !.next = "END"]
    BY <1>6 DEF Judge
  <2>2. t.art = s.art /\ t.builds = s.builds /\ t.next = "END" /\ t.review = s.review
    BY <1>1, <2>1 DEF Threads, ThreadsAt
  <2> QED
    BY <1>6, <2>2 DEF Traced, Early
<1>7. CASE s.next = "human_review" /\ \E d \in Decisions : t = Resume(s, d)
  <2>1. PICK d \in Decisions : t = Resume(s, d)
    BY <1>7
  <2>2. /\ t.art = s.art /\ t.builds = s.builds
        /\ t.next \in {"test_planning", "blocked"}
        /\ t.status \in {"READY_FOR_IMPLEMENTATION", "BLOCKED"}
    BY <1>1, <2>1 DEF Resume, Threads, ThreadsAt
  <2> QED
    BY <1>1, <1>7, <2>2 DEF Traced, Early, Reviewing
<1>8. CASE t \in Steps(s)
  BY <1>2, <1>3, <1>4, <1>5, <1>6, <1>8, StepCases
<1> QED
  BY <1>7, <1>8 DEF Moves
=============================================================================
