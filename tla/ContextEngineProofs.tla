------------------------- MODULE ContextEngineProofs -------------------------
(***************************************************************************)
(* What holds of every bundle the context engine builds, for every limit   *)
(* and every request.                                                      *)
(***************************************************************************)
EXTENDS ContextEngine, TLAPS

\* The order of the sources: total because their identities differ, and a
\* permutation of what was sent.
SortedInputs ==
    pc \in {"loop", "built"} =>
        /\ Len(ordered) = Len(inputs)
        /\ \A i, k \in 1..Len(ordered) : i < k => Precedes(ordered[i], ordered[k])
        /\ \A i \in 1..Len(inputs) : \E k \in 1..Len(ordered) : ordered[k] = inputs[i]
        /\ \A k \in 1..Len(ordered) : \E i \in 1..Len(inputs) : ordered[k] = inputs[i]

\* The bundle is a prefix of that order, each source cut as it says.
PrefixTaken ==
    /\ pc = "check" => bundle = <<>>
    /\ \A k \in 1..Len(bundle) :
         /\ bundle[k].source = ordered[k]
         /\ bundle[k].truncated <=> bundle[k].kept < bundle[k].source.size

\* truncated speaks of the count and the cuts during the loop, and of all
\* that is left out after it.
TruncatedSoFar ==
    /\ pc = "loop" =>
         (truncated <=> \/ MaxSources < Len(inputs)
                        \/ \E k \in 1..Len(bundle) : bundle[k].truncated)
    /\ pc = "built" =>
         /\ truncated <=> \/ Len(bundle) < Len(ordered)
                          \/ \E k \in 1..Len(bundle) : bundle[k].truncated
         /\ Len(bundle) < Len(ordered) => Len(bundle) = MaxSources \/ remaining = 0

Inv == TypeOK /\ SortedInputs /\ PrefixTaken /\ TruncatedSoFar

\* Length of the loop's sources, and which they are.
LEMMA SelectedIsPrefix ==
    ASSUME TypeOK
    PROVE  /\ Len(Selected) = Lesser(Len(ordered), MaxSources)
           /\ Len(Selected) \in Nat
           /\ \A k \in 1..Len(Selected) : Selected[k] = ordered[k] /\ k \in 1..Len(ordered)
  BY ContextConstantsOK DEF Selected, Lesser, TypeOK

\* What is kept of a source that is not empty, while a budget is left, costs
\* at least a token and at most what it may.
LEMMA CostWithinAllowance ==
    ASSUME TypeOK, ~BudgetSpent
    PROVE  \A size \in Nat \ {0} :
             /\ Lesser(size, Allowed * 4) \in Nat \ {0}
             /\ EstimateTokens(Lesser(size, Allowed * 4)) \in 1..remaining
             /\ ~Fits(size) <=> Lesser(size, Allowed * 4) < size
<1> SUFFICES ASSUME NEW size \in Nat \ {0}
             PROVE  /\ Lesser(size, Allowed * 4) \in Nat \ {0}
                    /\ EstimateTokens(Lesser(size, Allowed * 4)) \in 1..remaining
                    /\ ~Fits(size) <=> Lesser(size, Allowed * 4) < size
  OBVIOUS
<1>1. /\ remaining \in Nat \ {0}
      /\ MaxTokens \in Nat \ {0} /\ MaxSourceTokens \in Nat \ {0}
  BY ContextConstantsOK DEF TypeOK, BudgetSpent
<1>2. Allowed \in 1..remaining
  BY <1>1 DEF Allowed, Lesser
<1>3. PICK a \in 1..remaining : a = Allowed
  BY <1>2
<1>4. /\ Lesser(size, a * 4) \in Nat \ {0}
      /\ Lesser(size, a * 4) <= a * 4
      /\ ~(size <= a * 4) <=> Lesser(size, a * 4) < size
  BY <1>1, <1>3 DEF Lesser
<1>5. \A kept \in Nat \ {0} : kept <= a * 4 => EstimateTokens(kept) \in 1..a
  BY <1>1, <1>3 DEF EstimateTokens
<1>6. EstimateTokens(Lesser(size, a * 4)) \in 1..remaining
  <2>1. EstimateTokens(Lesser(size, a * 4)) \in 1..a
    BY <1>4, <1>5
  <2> QED BY <1>1, <1>3, <2>1
<1> QED BY <1>3, <1>4, <1>6 DEF Fits

LEMMA InitInv == Init => Inv
<1> SUFFICES ASSUME Init PROVE Inv
  OBVIOUS
<1>1. /\ pc = "check" /\ inputs \in Seq(Source) /\ ordered = <<>> /\ bundle = <<>>
      /\ remaining \in 0..MaxTokens /\ truncated = FALSE
      /\ Len(bundle) = 0 /\ Len(ordered) = 0 /\ MaxSources \in Nat
  BY ContextConstantsOK DEF Init
<1>2. TypeOK
  <2>1. <<>> \in Seq(Source) /\ <<>> \in Seq(Snapshot)
    OBVIOUS
  <2>2. Len(bundle) <= Lesser(Len(ordered), MaxSources)
    BY <1>1 DEF Lesser
  <2> QED BY <1>1, <2>1, <2>2 DEF TypeOK
<1> QED BY <1>1, <1>2 DEF Inv, SortedInputs, PrefixTaken, TruncatedSoFar

\* sorted: with different identities one of two sources precedes the other.
LEMMA SortInv == Inv /\ Sort => Inv'
<1> SUFFICES ASSUME Inv, Sort PROVE Inv'
  OBVIOUS
<1> USE ContextConstantsOK
<1>1. PICK place \in Bijection(1..Len(inputs), 1..Len(inputs)) :
        /\ ordered' = [i \in 1..Len(inputs) |-> inputs[place[i]]]
        /\ \A i, k \in 1..Len(inputs) : i < k => Before(ordered'[i], ordered'[k])
  BY DEF Sort
<1>2. inputs \in Seq(Source) /\ Len(inputs) \in Nat
  BY DEF Inv, TypeOK
<1>3. /\ place \in [1..Len(inputs) -> 1..Len(inputs)]
      /\ \A i \in 1..Len(inputs) : \E k \in 1..Len(inputs) : place[k] = i
  BY DEF Bijection, Injection, Surjection
<1>4. ordered' \in Seq(Source) /\ Len(ordered') = Len(inputs)
  BY <1>1, <1>2, <1>3
<1>5. bundle = <<>> /\ bundle' = <<>> /\ inputs' = inputs /\ pc' = "loop"
  BY DEF Sort, Inv, PrefixTaken
<1>6. TypeOK'
  BY <1>4, <1>5 DEF Inv, TypeOK, Sort, Lesser, Snapshot
<1>7. SortedInputs'
  BY <1>1, <1>2, <1>3, <1>4, <1>5 DEF SortedInputs, Before, Precedes
<1>8. PrefixTaken' /\ TruncatedSoFar'
  <2>1. 1..Len(bundle') = {}
    BY <1>5
  <2>2. truncated' <=> MaxSources < Len(inputs')
    BY <1>5 DEF Sort
  <2> QED BY <1>5, <2>1, <2>2 DEF PrefixTaken, TruncatedSoFar
<1> QED BY <1>6, <1>7, <1>8 DEF Inv

\* One turn of the loop keeps the bundle a prefix within the budgets.
LEMMA TakeSourceInv == Inv /\ TakeSource => Inv'
<1> SUFFICES ASSUME Inv, TakeSource PROVE Inv'
  OBVIOUS
<1> USE ContextConstantsOK
<1>1. TypeOK /\ ~BudgetSpent /\ pc = "loop" /\ Len(bundle) < Len(Selected)
  BY DEF Inv, TakeSource, Looping
<1>2. /\ Len(bundle) \in Nat /\ bundle \in Seq(Snapshot)
      /\ ordered \in Seq(Source) /\ remaining \in 0..MaxTokens
  BY <1>1 DEF TypeOK
<1>3. /\ Current = ordered[Len(bundle) + 1] /\ Current \in Source
      /\ Len(bundle) + 1 <= Lesser(Len(ordered), MaxSources)
  BY <1>1, <1>2, SelectedIsPrefix DEF Current
<1>4. Current.size \in Nat \ {0}
  BY <1>3 DEF TakeSource, Source
<1> DEFINE kept == Lesser(Current.size, Allowed * 4)
           cost == EstimateTokens(kept)
           new  == [source |-> Current, kept |-> kept, tokens |-> cost,
                    truncated |-> ~Fits(Current.size)]
<1>5. /\ kept \in Nat \ {0}
      /\ cost \in 1..remaining
      /\ ~Fits(Current.size) <=> kept < Current.size
  BY <1>1, <1>2, <1>4, CostWithinAllowance
<1>6. /\ bundle' = Append(bundle, new)
      /\ remaining' = remaining - cost
      /\ truncated' = (truncated \/ ~Fits(Current.size))
      /\ UNCHANGED <<pc, inputs, ordered>>
  BY DEF TakeSource
<1>7. /\ new \in Snapshot
      /\ new.source = Current
      /\ new.truncated <=> new.kept < new.source.size
      /\ new.truncated <=> ~Fits(Current.size)
  <2>1. (~Fits(Current.size)) \in BOOLEAN
    BY DEF Fits
  <2>2. cost \in Nat \ {0}
    BY <1>2, <1>5
  <2> DEFINE cut == ~Fits(Current.size)
  <2>3. cut \in BOOLEAN /\ (cut <=> kept < Current.size) /\ (cut <=> ~Fits(Current.size))
    BY <1>5, <2>1
  <2> HIDE DEF cut, kept, cost
  <2>4. new = [source |-> Current, kept |-> kept, tokens |-> cost, truncated |-> cut]
    BY DEF cut
  <2> HIDE DEF new
  <2> QED BY <1>3, <1>5, <2>2, <2>3, <2>4 DEF Snapshot
<1> HIDE DEF new, kept, cost
<1>8. /\ Len(bundle') = Len(bundle) + 1
      /\ bundle'[Len(bundle) + 1] = new
      /\ \A k \in 1..Len(bundle) : bundle'[k] = bundle[k]
      /\ bundle' \in Seq(Snapshot)
  BY <1>2, <1>6, <1>7
<1>9. TypeOK'
  <2>1. remaining' \in 0..MaxTokens
    BY <1>2, <1>5, <1>6
  <2>2. truncated' \in BOOLEAN
    BY <1>6 
  <2> QED BY <1>1, <1>3, <1>6, <1>8, <2>1, <2>2 DEF TypeOK
<1>10. SortedInputs'
  BY <1>6 DEF Inv, SortedInputs
<1>11. PrefixTaken'
  BY <1>1, <1>2, <1>3, <1>6, <1>7, <1>8 DEF Inv, PrefixTaken
<1>12. TruncatedSoFar'
  <2>1. (\E k \in 1..Len(bundle') : bundle'[k].truncated)
           <=> (\E k \in 1..Len(bundle) : bundle[k].truncated) \/ ~Fits(Current.size)
    BY <1>2, <1>7, <1>8
  <2> QED BY <1>1, <1>6, <2>1 DEF Inv, TruncatedSoFar
<1> QED BY <1>9, <1>10, <1>11, <1>12 DEF Inv

LEMMA StepInv == Inv /\ [Next]_vars => Inv'
<1> SUFFICES ASSUME Inv, [Next]_vars PROVE Inv'
  OBVIOUS
<1> USE ContextConstantsOK
<1>1. CASE RefuseDuplicates \/ RefuseEmpty
  BY <1>1 DEF Inv, TypeOK, SortedInputs, PrefixTaken, TruncatedSoFar,
              RefuseDuplicates, RefuseEmpty
<1>2. CASE Sort
  BY <1>2, SortInv
<1>3. CASE TakeSource
  BY <1>3, TakeSourceInv
<1>4. CASE Break
  <2>1. /\ TypeOK /\ pc = "loop" /\ pc' = "built" /\ truncated' = TRUE /\ remaining = 0
        /\ UNCHANGED <<inputs, ordered, bundle, remaining>>
        /\ Len(bundle) < Len(Selected)
    BY <1>4 DEF Inv, Break, Looping, Spent, BudgetSpent
  <2>2. Len(bundle) < Len(ordered)
    BY <2>1, SelectedIsPrefix DEF Lesser, TypeOK
  <2> QED BY <2>1, <2>2 DEF Inv, TypeOK, SortedInputs, PrefixTaken, TruncatedSoFar
<1>5. CASE Complete
  <2>1. /\ TypeOK /\ pc = "loop" /\ pc' = "built"
        /\ UNCHANGED <<inputs, ordered, bundle, remaining, truncated>>
        /\ Len(bundle) = Len(Selected)
    BY <1>5 DEF Inv, Complete
  <2>2. /\ Len(bundle) < Len(ordered) <=> MaxSources < Len(inputs)
        /\ Len(bundle) < Len(ordered) => Len(bundle) = MaxSources
    BY <2>1, SelectedIsPrefix DEF Inv, SortedInputs, Lesser, TypeOK
  <2> QED BY <2>1, <2>2 DEF Inv, TypeOK, SortedInputs, PrefixTaken, TruncatedSoFar
<1>6. CASE UNCHANGED vars
  <2>1. UNCHANGED <<pc, inputs, ordered, bundle, remaining, truncated>>
    BY <1>6 DEF vars
  <2> QED BY <2>1 DEF Inv, TypeOK, SortedInputs, PrefixTaken, TruncatedSoFar
<1> QED BY <1>1, <1>2, <1>3, <1>4, <1>5, <1>6 DEF Next

\* A source is missing exactly when its place is behind the bundle.
LEMMA MissingIsBehind ==
    ASSUME Inv, pc = "built"
    PROVE  /\ \A k \in 1..Len(ordered) : Missing(ordered[k]) <=> Len(bundle) < k
           /\ (\E i \in 1..Len(inputs) : Missing(inputs[i])) <=> Len(bundle) < Len(ordered)
<1>1. /\ Len(bundle) \in Nat /\ Len(ordered) \in Nat /\ Len(bundle) <= Len(ordered)
      /\ ordered \in Seq(Source)
  BY ContextConstantsOK DEF Inv, TypeOK, Lesser
<1>2. \A i, k \in 1..Len(ordered) : i # k => ordered[i] # ordered[k]
  <2> SUFFICES ASSUME NEW i \in 1..Len(ordered), NEW k \in 1..Len(ordered), i < k
               PROVE  ordered[i] # ordered[k]
    BY <1>1
  <2>1. Precedes(ordered[i], ordered[k])
    BY DEF Inv, SortedInputs
  <2>2. /\ ordered[i].priority \in Nat /\ ordered[i].identity \in Nat
        /\ ordered[k].priority \in Nat /\ ordered[k].identity \in Nat
    <3>1. ordered[i] \in Source /\ ordered[k] \in Source
      BY <1>1
    <3>2. \A s \in Source : s.priority \in 0..100 /\ s.identity \in Nat
      BY DEF Source
    <3>3. \A n \in 0..100 : n \in Nat
      OBVIOUS
    <3> QED BY <3>1, <3>2, <3>3
  <2> QED BY <2>1, <2>2 DEF Precedes
<1>3. \A k \in 1..Len(bundle) : bundle[k].source = ordered[k]
  BY DEF Inv, PrefixTaken
<1>4. \A k \in 1..Len(ordered) : Missing(ordered[k]) <=> Len(bundle) < k
  BY <1>1, <1>2, <1>3 DEF Missing
<1>5. ASSUME NEW i \in 1..Len(inputs), Missing(inputs[i])
      PROVE  Len(bundle) < Len(ordered)
  BY <1>1, <1>4, <1>5 DEF Inv, SortedInputs
<1>6. ASSUME Len(bundle) < Len(ordered)
      PROVE  \E i \in 1..Len(inputs) : Missing(inputs[i])
  <2>1. Missing(ordered[Len(ordered)]) /\ Len(ordered) \in 1..Len(ordered)
    BY <1>1, <1>4, <1>6
  <2> QED BY <2>1 DEF Inv, SortedInputs
<1> QED BY <1>4, <1>5, <1>6

LEMMA InvImplies == Inv => PriorityKept /\ TruncatedIsExact /\ DroppedOnlyForRoom
<1> SUFFICES ASSUME Inv, pc = "built"
             PROVE  PriorityKept /\ TruncatedIsExact /\ DroppedOnlyForRoom
  BY DEF PriorityKept, TruncatedIsExact, DroppedOnlyForRoom
<1>1. /\ Len(bundle) \in Nat /\ Len(ordered) \in Nat /\ Len(bundle) <= Len(ordered)
  BY ContextConstantsOK DEF Inv, TypeOK, Lesser
<1>2. \A k \in 1..Len(bundle) : bundle[k].source = ordered[k] /\ k \in 1..Len(ordered)
  BY <1>1 DEF Inv, PrefixTaken
<1>3. \A i, k \in 1..Len(ordered) : i < k => Precedes(ordered[i], ordered[k])
  BY DEF Inv, SortedInputs
<1>4. PriorityKept
  <2>1. \A i, k \in 1..Len(bundle) : i < k => Precedes(bundle[i].source, bundle[k].source)
    BY <1>2, <1>3
  <2>2. ASSUME NEW i \in 1..Len(inputs), Missing(inputs[i]), NEW k \in 1..Len(bundle)
        PROVE  Precedes(bundle[k].source, inputs[i])
    <3>1. PICK m \in 1..Len(ordered) : ordered[m] = inputs[i]
      BY DEF Inv, SortedInputs
    <3>2. k < m
      BY <1>1, <2>2, <3>1, MissingIsBehind
    <3> QED BY <1>2, <1>3, <3>1, <3>2
  <2> QED BY <2>1, <2>2 DEF PriorityKept
<1>5. TruncatedIsExact
  <2>1. (\E k \in 1..Len(bundle) : bundle[k].truncated)
           <=> (\E k \in 1..Len(bundle) : bundle[k].kept < bundle[k].source.size)
    BY DEF Inv, PrefixTaken
  <2>2. truncated <=> \/ Len(bundle) < Len(ordered)
                      \/ \E k \in 1..Len(bundle) : bundle[k].truncated
    BY DEF Inv, TruncatedSoFar
  <2> QED BY <2>1, <2>2, MissingIsBehind DEF TruncatedIsExact
<1>6. DroppedOnlyForRoom
  BY MissingIsBehind DEF DroppedOnlyForRoom, Inv, TruncatedSoFar
<1> QED BY <1>4, <1>5, <1>6

LEMMA Invariance == Spec => []Inv
  BY InitInv, StepInv, PTL DEF Spec

\* The limits hold at every turn of the loop: no budget is overdrawn.
THEOREM TypeCorrect == Spec => []TypeOK
<1>1. Inv => TypeOK
  BY DEF Inv
<1> QED BY <1>1, Invariance, PTL

\* What is left out comes after everything that is kept.
THEOREM PriorityIsKept == Spec => []PriorityKept
  BY InvImplies, Invariance, PTL

\* The bundle's word on its truncation can be relied on.
THEOREM TruncationIsExact == Spec => []TruncatedIsExact
  BY InvImplies, Invariance, PTL

\* Nothing is left out while there is room.
THEOREM RoomIsUsed == Spec => []DroppedOnlyForRoom
  BY InvImplies, Invariance, PTL

-----------------------------------------------------------------------------
(* The budgets: a sum is proved about by its running totals, which a turn  *)
(* of the loop extends by one.                                             *)

\* f holds the running totals of the first n entries of a column.
Runs(f, column, n) == f = [i \in 0..n |-> IF i = 0 THEN 0 ELSE f[i - 1] + column[i]]

LEMMA RunsAreTotals ==
    ASSUME NEW column, NEW f, Runs(f, column, Len(bundle))
    PROVE  \E g : Runs(g, column, Len(bundle)) /\ Total(column) = g[Len(bundle)]
  BY DEF Runs, Total

\* Running totals of one entry more.
LEMMA RunsExtend ==
    ASSUME NEW n \in Nat, NEW column, NEW longer, \A i \in 1..n : longer[i] = column[i],
           NEW f, Runs(f, column, n)
    PROVE  \E g : Runs(g, longer, n + 1)
<1> DEFINE g == [i \in 0..(n + 1) |-> IF i = n + 1 THEN f[n] + longer[n + 1] ELSE f[i]]
<1>1. \A i \in 0..n : g[i] = f[i]
  OBVIOUS
<1>2. \A i \in 0..n : f[i] = IF i = 0 THEN 0 ELSE f[i - 1] + column[i]
  BY DEF Runs
<1>3. \A i \in 0..(n + 1) : g[i] = IF i = 0 THEN 0 ELSE g[i - 1] + longer[i]
  BY <1>1, <1>2
<1>4. g = [i \in 0..(n + 1) |-> g[i]]
  OBVIOUS
<1> HIDE DEF g
<1>5. [i \in 0..(n + 1) |-> g[i]]
        = [i \in 0..(n + 1) |-> IF i = 0 THEN 0 ELSE g[i - 1] + longer[i]]
  BY <1>3
<1>6. Runs(g, longer, n + 1)
  BY <1>4, <1>5 DEF Runs
<1> QED
  BY <1>6

\* ... and of one less.
LEMMA RunsShrink ==
    ASSUME NEW n \in Nat, NEW column, NEW longer, \A i \in 1..n : longer[i] = column[i],
           NEW g, Runs(g, longer, n + 1)
    PROVE  /\ g[n + 1] = g[n] + longer[n + 1]
           /\ Runs([i \in 0..n |-> g[i]], column, n)
<1> DEFINE f == [i \in 0..n |-> g[i]]
<1>1. \A i \in 0..(n + 1) : g[i] = IF i = 0 THEN 0 ELSE g[i - 1] + longer[i]
  BY DEF Runs
<1>2. \A i \in 0..n : f[i] = IF i = 0 THEN 0 ELSE f[i - 1] + column[i]
  BY <1>1
<1>3. Runs(f, column, n)
  BY <1>2 DEF Runs
<1>4. g[n + 1] = g[n] + longer[n + 1]
  BY <1>1
<1> QED
  BY <1>3, <1>4

\* What the bundle has cost is what is missing from the budget, and each of
\* its sources is paid for and within its own.
Paid ==
    /\ \E f : Runs(f, Tokens, Len(bundle))
    /\ \A f : Runs(f, Tokens, Len(bundle)) => f[Len(bundle)] = MaxTokens - remaining
    /\ \E f : Runs(f, Kept, Len(bundle))
    /\ \A f : Runs(f, Kept, Len(bundle)) =>
         f[Len(bundle)] \in Nat /\ f[Len(bundle)] <= 4 * (MaxTokens - remaining)
    /\ \A i \in 1..Len(bundle) : /\ bundle[i].kept <= 4 * MaxSourceTokens
                                 /\ bundle[i].kept <= 4 * bundle[i].tokens
                                 /\ bundle[i].truncated \/ bundle[i].kept = bundle[i].source.size

LEMMA InitPaid == Init => Paid
<1> SUFFICES ASSUME Init PROVE Paid
  OBVIOUS
<1>1. Len(bundle) = 0 /\ remaining = MaxTokens /\ MaxTokens \in Nat
  BY ContextConstantsOK DEF Init
<1>2. \A column : Runs([i \in 0..0 |-> 0], column, 0)
  BY DEF Runs
<1>3. \A column, f : Runs(f, column, 0) => f[0] = 0
  BY DEF Runs
<1> QED
  BY <1>1, <1>2, <1>3 DEF Paid

\* What a turn of the loop keeps of a source is paid for, and within the
\* budget of a source.
LEMMA KeptIsPaidFor ==
    ASSUME TypeOK, ~BudgetSpent
    PROVE  \A size \in Nat \ {0} : LET kept == Lesser(size, Allowed * 4) IN
             /\ kept <= 4 * MaxSourceTokens
             /\ kept <= 4 * EstimateTokens(kept)
             /\ Fits(size) => kept = size
<1>1. /\ remaining \in Nat \ {0}
      /\ MaxTokens \in Nat \ {0} /\ MaxSourceTokens \in Nat \ {0}
  BY ContextConstantsOK DEF TypeOK, BudgetSpent
<1>2. Allowed \in Nat /\ Allowed <= MaxSourceTokens
  BY <1>1 DEF Allowed, Lesser
<1>3. PICK a \in Nat : a = Allowed /\ a <= MaxSourceTokens
  BY <1>2
<1>4. \A kept \in Nat : kept <= 4 * EstimateTokens(kept)
  BY DEF EstimateTokens
<1> QED
  BY <1>1, <1>3, <1>4 DEF Lesser, Fits

LEMMA TakeSourcePaid == Inv /\ Paid /\ TakeSource => Paid'
<1> SUFFICES ASSUME Inv, Paid, TakeSource PROVE Paid'
  OBVIOUS
<1> DEFINE n    == Len(bundle)
           kept == Lesser(Current.size, Allowed * 4)
           cost == EstimateTokens(kept)
<1>1. /\ TypeOK /\ ~BudgetSpent /\ n \in Nat /\ bundle \in Seq(Snapshot)
      /\ remaining \in 0..MaxTokens /\ MaxTokens \in Nat
      /\ n < Len(Selected)
  BY ContextConstantsOK DEF Inv, TypeOK, TakeSource, Looping
<1>2. Current \in Source
  BY <1>1, SelectedIsPrefix DEF Current, TypeOK
<1>3. Current.size \in Nat \ {0}
  BY <1>2 DEF TakeSource, Source
<1>4. /\ kept \in Nat \ {0} /\ cost \in 1..remaining
      /\ kept <= 4 * MaxSourceTokens /\ kept <= 4 * cost
      /\ Fits(Current.size) => kept = Current.size
  BY <1>1, <1>3, CostWithinAllowance, KeptIsPaidFor
<1> DEFINE new == [source |-> Current, kept |-> kept, tokens |-> cost,
                   truncated |-> ~Fits(Current.size)]
<1>5. bundle' = Append(bundle, new) /\ remaining' = remaining - cost
  BY DEF TakeSource
<1> HIDE DEF n, kept, cost
<1>6. /\ new.kept = kept /\ new.tokens = cost /\ new.source = Current
      /\ new.truncated <=> ~Fits(Current.size)
  OBVIOUS
<1> HIDE DEF new
<1>a. /\ Len(bundle') = n + 1 /\ bundle'[n + 1] = new
      /\ \A i \in 1..n : bundle'[i] = bundle[i]
  BY <1>1, <1>5 DEF n
<1>7. /\ \A i \in 1..n : Tokens'[i] = Tokens[i] /\ Kept'[i] = Kept[i]
      /\ Tokens'[n + 1] = cost /\ Kept'[n + 1] = kept
  BY <1>1, <1>6, <1>a DEF Tokens, Kept, n
<1>b. n \in Nat /\ \A i \in 1..n : Tokens'[i] = Tokens[i]
  BY <1>1, <1>7
<1>c. n \in Nat /\ \A i \in 1..n : Kept'[i] = Kept[i]
  BY <1>1, <1>7
<1>8. (\E f : Runs(f, Tokens', n + 1)) /\ (\E f : Runs(f, Kept', n + 1))
  BY <1>1, <1>7, RunsExtend DEF Paid, n
<1>9. ASSUME NEW g, Runs(g, Tokens', n + 1) PROVE g[n + 1] = MaxTokens - remaining'
  <2>0. g[n + 1] = g[n] + Tokens'[n + 1]
    BY <1>b, <1>9, RunsShrink
  <2> DEFINE f == [i \in 0..n |-> g[i]]
  <2>1. Runs(f, Tokens, n)
    BY <1>b, <1>9, RunsShrink
  <2>2. f[n] = MaxTokens - remaining
    BY <2>1 DEF Paid, n
  <2>3. f[n] = g[n]
    BY <1>1
  <2> HIDE DEF f
  <2> QED
    BY <1>1, <1>4, <1>5, <1>7, <2>0, <2>2, <2>3
<1>10. ASSUME NEW g, Runs(g, Kept', n + 1)
       PROVE  g[n + 1] \in Nat /\ g[n + 1] <= 4 * (MaxTokens - remaining')
  <2>0. g[n + 1] = g[n] + Kept'[n + 1]
    BY <1>c, <1>10, RunsShrink
  <2> DEFINE f == [i \in 0..n |-> g[i]]
  <2>1. Runs(f, Kept, n)
    BY <1>c, <1>10, RunsShrink
  <2>2. f[n] \in Nat /\ f[n] <= 4 * (MaxTokens - remaining)
    BY <2>1 DEF Paid, n
  <2>3. f[n] = g[n]
    BY <1>1
  <2> HIDE DEF f
  <2> QED
    BY <1>1, <1>4, <1>5, <1>7, <2>0, <2>2, <2>3
<1>11. \A i \in 1..(n + 1) : /\ bundle'[i].kept <= 4 * MaxSourceTokens
                             /\ bundle'[i].kept <= 4 * bundle'[i].tokens
                             /\ \/ bundle'[i].truncated
                                \/ bundle'[i].kept = bundle'[i].source.size
  BY <1>1, <1>4, <1>6, <1>a DEF Paid, n
<1> QED
  BY <1>a, <1>8, <1>9, <1>10, <1>11 DEF Paid

LEMMA StepPaid == Inv /\ Paid /\ [Next]_vars => Paid'
<1> SUFFICES ASSUME Inv, Paid, [Next]_vars PROVE Paid'
  OBVIOUS
<1>1. CASE UNCHANGED <<bundle, remaining>>
  BY <1>1 DEF Paid, Tokens, Kept
<1> QED
  BY <1>1, TakeSourcePaid
  DEF Next, vars, RefuseDuplicates, Sort, RefuseEmpty, Break, Complete

\* The budgets hold, of the bundle and of each source, in tokens and in
\* characters, for sources of any size in any order (context.py:116-121).
THEOREM BudgetsAreKept == Spec => []WithinBudgets
<1>1. Inv /\ Paid => WithinBudgets
  <2> SUFFICES ASSUME Inv, Paid PROVE WithinBudgets
    OBVIOUS
  <2>1. MaxTokens \in Nat /\ remaining \in 0..MaxTokens
    BY ContextConstantsOK DEF Inv, TypeOK
  <2>2. Total(Tokens) = MaxTokens - remaining
    BY RunsAreTotals DEF Paid
  <2>3. Total(Kept) \in Nat /\ Total(Kept) <= 4 * (MaxTokens - remaining)
    BY RunsAreTotals DEF Paid
  <2> QED
    BY <2>1, <2>2, <2>3 DEF Paid, WithinBudgets
<1> QED
  BY <1>1, InitPaid, StepPaid, Invariance, PTL DEF Spec
=============================================================================
