--------------------------- MODULE MCContextEngine ---------------------------
(* Bounds for ContextEngine: up to four sources, ties of priority and equal    *)
(* identities among them, of sizes on either side of a token, of the budget   *)
(* of a source (8 characters) and of what is left of the budget of all.       *)
EXTENDS ContextEngine

Sizes   == {0, 1, 5, 8, 9}
Sources == [identity : 1..3, priority : {50, 100}, size : Sizes]

Three == {<<a, b, c>> : a, b \in {s \in Sources : s.identity # 3}, c \in Sources}
Four  == {<<a, b, [identity |-> i, priority |-> 50, size |-> z],
                  [identity |-> 4, priority |-> p, size |-> 9]>> :
              a, b \in {s \in Sources : s.size \in {1, 8, 9}}, i \in 1..3, p \in {50, 100}, z \in {1, 5}}

UpToFour == {<<>>} \cup {<<a>> : a \in Sources} \cup {<<a, b>> : a, b \in Sources}
            \cup Three \cup Four
=============================================================================
