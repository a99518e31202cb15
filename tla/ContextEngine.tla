---------------------------- MODULE ContextEngine ----------------------------
(***************************************************************************)
(* ContextEngine.build of app/services/context.py (ADR-012): of the        *)
(* sources a client sends, at most MaxSources are kept, in the order of    *)
(* their priority and identity, each cut to a budget of its own and to     *)
(* what is left of the budget of all; a bundle from which anything is      *)
(* missing says so.  accept_task stores a bundle that is built with its    *)
(* task; a build that refuses is a 422, and nothing is stored.             *)
(*                                                                         *)
(* A source is its identity (source_id, version) as its rank among all     *)
(* identities, its priority, and its length after sanitize_context_text.   *)
(***************************************************************************)
EXTENDS Integers, Sequences, SequencesExt

CONSTANTS
    Requests,           \* what a client may send: sequences of sources
    MaxSources,         \* CONTEXT_MAX_SOURCES
    MaxTokens,          \* CONTEXT_MAX_TOKENS
    MaxSourceTokens     \* CONTEXT_MAX_SOURCE_TOKENS, which may exceed MaxTokens

Source == [identity : Nat, priority : 0..100, size : Nat]

ASSUME ContextConstantsOK ==
    /\ Requests \subseteq Seq(Source)
    /\ MaxSources \in Nat \ {0}         \* context.py:83-84 raises otherwise
    /\ MaxTokens \in Nat \ {0}
    /\ MaxSourceTokens \in Nat \ {0}

VARIABLES
    pc,         \* where build is: "check", "loop", then "built" or "refused"
    inputs,     \* the sources as they were sent
    ordered,    \* the sources in the order they are considered in
    bundle,     \* the snapshots so far: the source, what is kept of it, its cost
    remaining,  \* remaining_tokens
    truncated   \* bundle_truncated

vars == <<pc, inputs, ordered, bundle, remaining, truncated>>

Lesser(a, b) == IF a < b THEN a ELSE b

\* _estimate_tokens: four characters to a token, the last one rounded up
EstimateTokens(length) == (length + 3) \div 4

\* Mutant: the lowest priority first.
BeforeAscending(a, b) ==
    a.priority < b.priority \/ (a.priority = b.priority /\ a.identity < b.identity)
\* The sort key (-priority, source_id, version).
Before(a, b) ==
    a.priority > b.priority \/ (a.priority = b.priority /\ a.identity < b.identity)

\* Mutant: only the count is compared.
SelectedAnyway == ordered
\* ordered[:max_sources]
Selected == SubSeq(ordered, 1, Lesser(Len(ordered), MaxSources))

Init ==
    /\ pc        = "check"
    /\ inputs    \in Requests
    /\ ordered   = <<>>
    /\ bundle    = <<>>
    /\ remaining = MaxTokens
    /\ truncated = FALSE

\* Two sources with one source_id and version: ValueError, and a 422.
RefuseDuplicates ==
    /\ pc = "check"
    /\ \E i, j \in 1..Len(inputs) : i # j /\ inputs[i].identity = inputs[j].identity
    /\ pc' = "refused"
    /\ UNCHANGED <<inputs, ordered, bundle, remaining, truncated>>

\* Identities are unique, so the order is total: sorted has one outcome.
Sort ==
    /\ pc = "check"
    /\ \A i, j \in 1..Len(inputs) : i # j => inputs[i].identity # inputs[j].identity
    /\ \E place \in Bijection(1..Len(inputs), 1..Len(inputs)) :
         /\ ordered' = [i \in 1..Len(inputs) |-> inputs[place[i]]]
         /\ \A i, j \in 1..Len(inputs) : i < j => Before(ordered'[i], ordered'[j])
    /\ pc' = "loop"
    /\ truncated' = (MaxSources < Len(inputs))
    /\ UNCHANGED <<inputs, bundle, remaining>>

\* The source the loop considers next.
Current == Selected[Len(bundle) + 1]
Looping == pc = "loop" /\ Len(bundle) < Len(Selected)

\* Mutant: the loop ends as soon as a source might have to be cut.
SpentEarly == remaining < Lesser(MaxSourceTokens, MaxTokens)
\* The loop's test of what is left of the budget of all.
BudgetSpent == remaining = 0

\* Nothing is left of the source after normalization: ValueError, and a 422.
RefuseEmpty ==
    /\ Looping /\ ~BudgetSpent /\ Current.size = 0
    /\ pc' = "refused"
    /\ UNCHANGED <<inputs, ordered, bundle, remaining, truncated>>

\* Mutant: a source may have its own budget whatever is left of the other.
AllowedAlone == MaxSourceTokens
\* allowed_tokens
Allowed == Lesser(Lesser(MaxSourceTokens, MaxTokens), remaining)

\* Mutant: the length is compared with the tokens, not with their characters.
FitsTokens(size) == size <= Allowed
\* Whether a source is kept whole.
Fits(size) == size <= Allowed * 4

\* One turn of the loop.
TakeSource ==
    /\ Looping /\ ~BudgetSpent /\ Current.size > 0
    /\ LET kept == Lesser(Current.size, Allowed * 4)
       IN  /\ bundle' = Append(bundle, [source    |-> Current,
                                        kept      |-> kept,
                                        tokens    |-> EstimateTokens(kept),
                                        truncated |-> ~Fits(Current.size)])
           /\ remaining' = remaining - EstimateTokens(kept)
    /\ truncated' = (truncated \/ ~Fits(Current.size))
    /\ UNCHANGED <<pc, inputs, ordered>>

\* Mutant: the loop ends without a word.
SpentSilently == truncated
\* What a loop that ends with sources left says of the bundle.
Spent == TRUE

\* The budget is spent with sources left: break.
Break ==
    /\ Looping /\ BudgetSpent
    /\ pc' = "built"
    /\ truncated' = Spent
    /\ UNCHANGED <<inputs, ordered, bundle, remaining>>

Complete ==
    /\ pc = "loop" /\ Len(bundle) = Len(Selected)
    /\ pc' = "built"
    /\ UNCHANGED <<inputs, ordered, bundle, remaining, truncated>>

Next == \/ RefuseDuplicates \/ Sort \/ RefuseEmpty \/ TakeSource \/ Break
        \/ Complete

Spec == Init /\ [][Next]_vars

-----------------------------------------------------------------------------
(* Properties.                                                             *)

Snapshot == [source : Source, kept : Nat \ {0}, tokens : Nat \ {0}, truncated : BOOLEAN]

\* Type invariant: the limits hold of the bundle at every turn of the loop,
\* so the subtraction of context.py:121 never goes below zero.
TypeOK ==
    /\ pc \in {"check", "loop", "built", "refused"}
    /\ inputs \in Seq(Source) /\ ordered \in Seq(Source)
    /\ bundle \in Seq(Snapshot) /\ Len(bundle) <= Lesser(Len(ordered), MaxSources)
    /\ remaining \in 0..MaxTokens
    /\ truncated \in BOOLEAN

Kept   == [i \in 1..Len(bundle) |-> bundle[i].kept]
Tokens == [i \in 1..Len(bundle) |-> bundle[i].tokens]

\* The sum of a column of the bundle, by its running totals: a recursive
\* function, which a proof can follow from one turn of the loop to the next.
Total(column) ==
    LET sum[i \in 0..Len(bundle)] == IF i = 0 THEN 0 ELSE sum[i - 1] + column[i]
    IN  sum[Len(bundle)]

\* Whatever sizes come in whatever order, the model is never sent more than
\* the budgets: neither in characters nor in the estimate that the bundle
\* states of itself (context.py:116-121, 156; ADR-012).
WithinBudgets ==
    /\ Total(Tokens) <= MaxTokens /\ Total(Kept) <= 4 * MaxTokens
    /\ \A i \in 1..Len(bundle) : /\ bundle[i].kept <= 4 * MaxSourceTokens
                                 /\ bundle[i].kept <= 4 * bundle[i].tokens
                                 /\ bundle[i].truncated \/ bundle[i].kept = bundle[i].source.size

\* What stands before what, as ADR-012 has it.
Precedes(a, b) ==
    a.priority > b.priority \/ (a.priority = b.priority /\ a.identity < b.identity)

Missing(s) == \A k \in 1..Len(bundle) : bundle[k].source # s

\* What the limits leave out is what matters least: an input that is not in
\* the bundle comes after every one that is, which stand in the order of
\* their priority, whatever order the client sent them in (context.py:97-101).
PriorityKept ==
    pc = "built" =>
        /\ \A i, k \in 1..Len(bundle) :
               i < k => Precedes(bundle[i].source, bundle[k].source)
        /\ \A i \in 1..Len(inputs) : Missing(inputs[i]) =>
               \A k \in 1..Len(bundle) : Precedes(bundle[k].source, inputs[i])

\* A bundle says it is truncated exactly when a part of what was sent is not
\* in it: left out by the count, by the budget, or cut (context.py:104-122).
TruncatedIsExact ==
    pc = "built" =>
        (truncated <=> \/ \E i \in 1..Len(inputs) : Missing(inputs[i])
                       \/ \E k \in 1..Len(bundle) :
                              bundle[k].kept < bundle[k].source.size)

\* A source is left out only for a limit that is used up: the budgets of one
\* source and of all never leave room that a source was denied.
DroppedOnlyForRoom ==
    pc = "built" /\ (\E i \in 1..Len(inputs) : Missing(inputs[i])) =>
        Len(bundle) = MaxSources \/ remaining = 0
=============================================================================
