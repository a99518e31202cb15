---------------------------- MODULE QualityGates ----------------------------
(***************************************************************************)
(* The checks of app/policies/engine.py on the artifacts of the agents,    *)
(* with the actions policies/quality-gates.yaml gives them: each operator  *)
(* returns the actions of the policies an artifact fails.                  *)
(*                                                                         *)
(* The schemas of app/models are taken into account: a specification has   *)
(* requirements and scenarios, a scenario its given, when and then, a test *)
(* plan has test cases, and a threat model is never an empty mapping.      *)
(***************************************************************************)
EXTENDS Naturals, Sequences, FiniteSets

\* A policy's outcome: ALLOW, or the action of its rule.
FailsWith(passed, action) == IF passed THEN {} ELSE {action}

RequirementIds(spec) == {spec.requirements[i] : i \in DOMAIN spec.requirements}

\* Mutant: a repeated identifier is not noticed.
SomeIdentifier(spec) == RequirementIds(spec) # {}
\* SPEC-002: an identifier per requirement
Identified(spec) == /\ RequirementIds(spec) # {}
                    /\ Cardinality(RequirementIds(spec)) = Len(spec.requirements)

\* Mutant: some scenario for some requirement is enough.
SomeTrace(spec) == RequirementIds(spec) \cap UNION spec.scenarios # {}
\* TRACE-001: every requirement in a scenario; a scenario may name others too
Traceable(spec) == RequirementIds(spec) \subseteq UNION spec.scenarios

\* SPEC-001, SPEC-002, SPEC-003, TRACE-001
SpecificationFails(spec) ==
    FailsWith(Identified(spec) /\ spec.scenarios # {} /\ Traceable(spec), "BLOCK")

\* _severity_count: findings that are not OPEN do not count
OpenFindings(review, severity) ==
    {f \in review.findings : f.severity = severity /\ f.status = "OPEN"}

\* SEC-001 to SEC-004
SecurityFails(review) ==
    FailsWith(OpenFindings(review, "CRITICAL") = {} /\ review.requirements # {}, "BLOCK")
    \cup FailsWith(OpenFindings(review, "HIGH") = {}, "HUMAN_REVIEW")

\* Mutant: the plan covers what its own cases name.
CoversSomething(cases, spec) == UNION {c.covers : c \in cases} # {}
\* TESTPLAN-002, against the specification of the thread
Covers(cases, spec) == RequirementIds(spec) \subseteq UNION {c.covers : c \in cases}

\* TESTPLAN-003
NegativeSecurity(cases) == \E c \in cases : c.negative /\ c.type = "SECURITY"

\* TESTPLAN-001 to TESTPLAN-003
TestPlanFails(cases, spec) ==
    FailsWith(Covers(cases, spec) /\ NegativeSecurity(cases), "BLOCK")

\* TEST-001 and SCAN-001
ValidationFails(passed) == FailsWith(passed, "REWORK")
=============================================================================
