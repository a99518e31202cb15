------------------------- MODULE MCPullRequestReview -------------------------
(* Small pull requests for PullRequestReview: up to three files of the sorts  *)
(* the code tells apart, against budgets that one or two of them exhaust.    *)
EXTENDS PullRequestReview, TLC

Plain == [size |-> 1, changes |-> 1, secret |-> FALSE, marker |-> FALSE,
          part |-> FALSE, kind |-> "other", sensitive |-> FALSE]

Code    == [Plain EXCEPT !.size = 2, !.kind = "code"]
Test    == [Plain EXCEPT !.kind = "test"]
Policy  == [Plain EXCEPT !.sensitive = TRUE]
Leak    == [Plain EXCEPT !.secret = TRUE]
Order   == [Plain EXCEPT !.marker = TRUE]
Half    == [Plain EXCEPT !.part = TRUE]
Binary  == [Plain EXCEPT !.size = 0, !.changes = 0]
Missing == [Plain EXCEPT !.size = 0]
Big     == [Code EXCEPT !.size = 4]

Sorts == {Code, Test, Policy, Leak, Order, Half, Binary, Missing}

MCRevisions == {<<f>> : f \in Sorts} \cup {<<f, g>> : f, g \in Sorts}
               \cup {<<Code, Test, Plain>>, <<Code, Code, Test>>,
                   <<Big, Test>>, <<Big, Missing>>}

MCProposals == {[name |-> "other", severity |-> 3], [name |-> "secret", severity |-> 0]}
=============================================================================
