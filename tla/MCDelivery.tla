----------------------------- MODULE MCDelivery -----------------------------
(* What the agents may produce, in the data the gates and the workspace look *)
(* at.  The schemas of app/models rule out empty requirements, architecture   *)
(* and implementation artifacts, so those pass their gates.                   *)
EXTENDS Delivery

CONSTANTS fr1, fr2, f1, f2

MCOutputs ==
    [requirements   |-> {{}},
     specification  |-> {{}, {"BLOCK"}},
     architecture   |-> {{}},
     security       |-> {{}, {"BLOCK"}, {"HUMAN_REVIEW"}, {"BLOCK", "HUMAN_REVIEW"}},
     test_planning  |-> {{}, {"BLOCK"}},
     implementation |-> {{}},
     validation     |-> {{}, {"REWORK"}}]

\* Traced, with a repeated identifier, without a scenario for a requirement.
MCSpecifications ==
    {[requirements |-> <<fr1, fr2>>, scenarios |-> {{fr1, fr2}}],
     [requirements |-> <<fr1, fr1>>, scenarios |-> {{fr1, fr2}}],
     [requirements |-> <<fr1, fr2>>, scenarios |-> {{fr1}}]}

Found(severity, status) == [severity |-> severity, status |-> status]
Reviewed(findings) == [findings |-> findings, requirements |-> {"SR"}]

MCSecurityReviews ==
    {Reviewed({Found("CRITICAL", "MITIGATED"), Found("MEDIUM", "OPEN")}),
     Reviewed({Found("HIGH", "OPEN")}),
     Reviewed({Found("HIGH", "OPEN"), Found("CRITICAL", "OPEN")}),
     [findings |-> {}, requirements |-> {}]}

Case(covers, negative) == [covers |-> covers, negative |-> negative, type |-> "SECURITY"]

\* Complete, without a negative test, without a test for a requirement.
MCTestPlans ==
    {{Case({fr1}, FALSE), Case({fr2}, TRUE)}, {Case({fr1, fr2}, FALSE)}, {Case({fr1}, TRUE)}}

MCFiles == {f1, f2}
Good(f) == [path |-> f, bad |-> FALSE]
Bad(f)  == [path |-> f, bad |-> TRUE]

\* Nothing, one file or two, one twice, good and bad; over the limit; refused
\* after a first write.
MCPlans == {<<>>, <<Good(f1)>>, <<Bad(f1)>>, <<Bad(f2)>>, <<Good(f1), Good(f2)>>,
            <<Bad(f1), Good(f1)>>, <<Good(f1), Good(f2), Good(f1)>>, <<Good(f2), Good(Unsafe)>>}
=============================================================================
