---------------------- MODULE ExternalValidationProofs ----------------------
(***************************************************************************)
(* Theorems about ExternalValidation, for any number of overlapping calls  *)
(* and recoveries: partial UPDATEs never split a decision from its count   *)
(* or from its evidence, a count grows by one per call at most, and a call *)
(* that nobody overlaps leaves a row that agrees with its evidence.        *)
(***************************************************************************)
EXTENDS ExternalValidation, FiniteSetTheorems, TLAPS

Columns == {"status", "count", "decision", "scan"}

DecisionRecords == [by : Requests \cup {Workflow}, attempt : Nat,
                    required : BOOLEAN, exhausted : BOOLEAN]
ScanRecords     == [by : Requests, reports : SUBSET Reports]
StatusValues    == {"COMPLETED", "REWORK_REQUIRED", "REWORK_EXHAUSTED",
                    "ANALYZING", "FAILED"}
RowRecords      == [status : StatusValues, count : Nat, decision : DecisionRecords,
                    scan : ScanRecords \cup {NoScan}]

\* A row whose decision counts and whose evidence is that of its decision.
Whole(r) ==
    /\ r \in RowRecords
    /\ r.decision.attempt = r.count
    /\ r.decision.by # Workflow =>
         /\ r.scan # NoScan /\ r.scan.by = r.decision.by
         /\ r.decision.required <=> Reasons(r.scan.reports) # {}

\* A request that has not committed yet.
Open == {r \in Requests : pc[r] # "done"}

\* A row that shows the workflow's decision, or a later one of a call.
Later(r) == r.count >= thread.count /\ (r.count = thread.count => r.decision = thread.decision)

CallsInv ==
    /\ pc \in [Requests -> {"new", "scanning", "deciding", "done"}]
    /\ loaded \in [Requests -> RowRecords \cup {NoRow}]
    /\ evidence \in [Requests -> SUBSET Reports]
    /\ Whole(row) /\ Later(row)
    /\ recovering = "LOADED" => Whole(reread) /\ Later(reread)
    /\ Whole(thread) /\ thread.decision.by = Workflow
    /\ \A r \in Requests : pc[r] \in {"scanning", "deciding"} =>
                                Whole(loaded[r]) /\ Later(loaded[r])
    /\ \A r \in Open : row.scan # NoScan => row.scan.by # r
    /\ \A r \in Open : pc[r] \in {"scanning", "deciding"} /\ loaded[r].scan # NoScan
                         => loaded[r].scan.by # r

\* A decision has the author and the attempt it is made with, and its reasons.
LEMMA DecisionIsTyped ==
    ASSUME NEW by \in Requests \cup {Workflow}, NEW attempt \in Nat, NEW ev
    PROVE  /\ Decision(by, attempt, ev) \in DecisionRecords
           /\ Decision(by, attempt, ev).by = by
           /\ Decision(by, attempt, ev).attempt = attempt
           /\ Decision(by, attempt, ev).required <=> Reasons(ev) # {}
<1> DEFINE required  == Reasons(ev) # {}
           exhausted == required /\ attempt >= MaxRework
<1>1. required \in BOOLEAN /\ exhausted \in BOOLEAN
  OBVIOUS
<1>2. Decision(by, attempt, ev) = [by |-> by, attempt |-> attempt, required |-> required,
                                   exhausted |-> exhausted]
  BY DEF Decision
<1>3. required <=> Reasons(ev) # {}
  OBVIOUS
<1> HIDE DEF required, exhausted
<1> QED
  BY <1>1, <1>2, <1>3 DEF DecisionRecords

\* The workflow's results are whole.
LEMMA ResultsAreWhole ==
    \A r \in Results : Whole(r) /\ r.decision.by = Workflow /\ r.scan = NoScan
<1> SUFFICES ASSUME NEW r \in Results
             PROVE  Whole(r) /\ r.decision.by = Workflow /\ r.scan = NoScan
  OBVIOUS
<1>1. PICK d \in {Decision(Workflow, n, {}) : n \in 0..MaxRework - 1}
                 \cup {Decision(Workflow, MaxRework, {"HIGH"})} :
        r = [status |-> StatusOf(d), count |-> d.attempt, decision |-> d, scan |-> NoScan]
  BY DEF Results
<1>2. d \in DecisionRecords /\ d.by = Workflow
  BY <1>1, ExternalConstantsOK, DecisionIsTyped
<1>3. StatusOf(d) \in StatusValues
  BY DEF StatusOf, StatusValues
<1> QED
  BY <1>1, <1>2, <1>3 DEF Whole, RowRecords, DecisionRecords

\* Initially the row is the workflow's and no call has started.
LEMMA CallsInvInit == Init => CallsInv
<1> SUFFICES ASSUME Init PROVE CallsInv
  OBVIOUS
<1>1. Whole(row) /\ Whole(thread) /\ thread.decision.by = Workflow /\ row.scan = NoScan
  BY ResultsAreWhole DEF Init
<1> QED
  BY <1>1 DEF Init, CallsInv, Open, Later, Whole, RowRecords

\* What a flush leaves of the row: the decision, its count and its evidence
\* are always written, for none of them can equal what the call loaded.
LEMMA FlushIsWhole ==
    ASSUME CallsInv, NEW r \in Requests, pc[r] = "deciding"
    PROVE  LET new == Flushed(loaded[r], Wanted(r))
           IN  Whole(new) /\ new.scan = NewScan(r) /\ new.count > thread.count
<1> DEFINE old == loaded[r]
           d   == Decision(r, NextAttempt(r), evidence[r])
           new == Flushed(old, Wanted(r))
<1>1. /\ old \in RowRecords /\ old.count \in Nat /\ old.decision.attempt = old.count
      /\ old.scan # NoScan => old.scan.by # r
      /\ row \in RowRecords /\ evidence[r] \in SUBSET Reports
      /\ thread.count \in Nat /\ old.count >= thread.count
  BY DEF CallsInv, Whole, Open, RowRecords, Later
<1>2. /\ d \in DecisionRecords /\ d.by = r /\ d.attempt = old.count + 1
      /\ d.required <=> Reasons(evidence[r]) # {}
  BY <1>1, DecisionIsTyped DEF NextAttempt
<1>3. NewScan(r) \in ScanRecords /\ NewScan(r).by = r /\ NewScan(r).reports = evidence[r]
  BY <1>1 DEF NewScan, ScanRecords
<1>4. NewScan(r) # NoScan
  BY <1>3, ExternalConstantsOK DEF ScanRecords, Reports
<1>5. d # old.decision /\ d.attempt # old.count /\ NewScan(r) # old.scan
  BY <1>1, <1>2, <1>3, <1>4
<1>6. Wanted(r) = [status |-> StatusOf(d), count |-> d.attempt, decision |-> d,
                   scan |-> NewScan(r)]
  BY DEF Wanted
<1>7. DOMAIN row = Columns
  BY <1>1 DEF RowRecords, Columns
<1>8. new = [c \in Columns |-> IF Wanted(r)[c] = old[c] THEN row[c] ELSE Wanted(r)[c]]
  BY <1>7 DEF Flushed
<1>9. new.decision = d /\ new.count = d.attempt /\ new.scan = NewScan(r)
  BY <1>5, <1>6, <1>8 DEF Columns
<1>10. StatusOf(d) \in StatusValues /\ row.status \in StatusValues
  BY <1>1 DEF StatusOf, StatusValues, RowRecords
<1>11. new.status \in StatusValues
  BY <1>6, <1>8, <1>10 DEF Columns
<1>12. new \in RowRecords
  <2>1. new = [status |-> new.status, count |-> new.count, decision |-> new.decision,
               scan |-> new.scan]
    BY <1>8 DEF Columns
  <2>2. new.count \in Nat /\ new.decision \in DecisionRecords /\ new.scan \in ScanRecords
    BY <1>1, <1>2, <1>3, <1>9
  <2> QED
    BY <1>11, <2>1, <2>2 DEF RowRecords
<1>13. new.count > thread.count
  <2> HIDE DEF new, d
  <2> QED
    BY <1>1, <1>2, <1>9
<1>14. Whole(new)
  BY <1>2, <1>3, <1>4, <1>9, <1>12 DEF Whole
<1>15. Whole(new) /\ new.scan = NewScan(r) /\ new.count > thread.count
  BY <1>9, <1>13, <1>14
<1> HIDE DEF new
<1> QED
  BY <1>15 DEF new

\* ... and what the recovered workflow leaves: it finds its own count and
\* decision, and writes neither, or those of a call, and writes both.
LEMMA ReapplyIsWhole ==
    ASSUME CallsInv, recovering = "LOADED"
    PROVE  LET new == Reapplied(reread, thread)
           IN  /\ Whole(new) /\ Later(new) /\ new.scan = row.scan
               /\ new.count = row.count \/ new.count = thread.count
<1> DEFINE kept == Flushed(reread, thread)
           new  == Reapplied(reread, thread)
<1>1. /\ row \in RowRecords /\ reread \in RowRecords /\ thread \in RowRecords
      /\ Whole(row) /\ Later(row) /\ Whole(reread) /\ Later(reread)
      /\ Whole(thread) /\ thread.decision.by = Workflow
  BY DEF CallsInv, Whole
<1>2. kept = [c \in Columns |-> IF thread[c] = reread[c] THEN row[c] ELSE thread[c]]
  BY <1>1 DEF Flushed, RowRecords, Columns
<1>3. /\ new.status = kept.status /\ new.count = kept.count /\ new.decision = kept.decision
      /\ new.scan = row.scan /\ DOMAIN new = Columns
  BY <1>2 DEF Reapplied, Columns
<1>4. new.status \in StatusValues
  BY <1>1, <1>2, <1>3 DEF RowRecords, Columns
<1>5. thread.count = reread.count <=> thread.decision = reread.decision
  BY <1>1 DEF Whole, Later
<1>6. \/ new.count = row.count /\ new.decision = row.decision
      \/ new.count = thread.count /\ new.decision = thread.decision
  BY <1>2, <1>3, <1>5 DEF Columns
<1>7. new \in RowRecords
  <2>1. new = [status |-> new.status, count |-> new.count, decision |-> new.decision,
               scan |-> new.scan]
    BY <1>2 DEF Reapplied, Columns
  <2>2. new.count \in Nat /\ new.decision \in DecisionRecords /\ new.scan \in ScanRecords \cup {NoScan}
    BY <1>1, <1>3, <1>6 DEF RowRecords
  <2> HIDE DEF new
  <2> QED
    BY <1>4, <2>1, <2>2 DEF RowRecords
<1>8. Whole(new)
  <2> HIDE DEF new
  <2> QED
    BY <1>1, <1>3, <1>6, <1>7 DEF Whole
<1>9. Later(new)
  <2>1. thread.count \in Nat
    BY <1>1 DEF RowRecords
  <2> HIDE DEF new
  <2> QED
    BY <1>1, <1>6, <2>1 DEF Later
<1> HIDE DEF new
<1>10. Whole(new) /\ Later(new) /\ new.scan = row.scan /\ (new.count = row.count \/ new.count = thread.count)
  BY <1>3, <1>6, <1>8, <1>9
<1> QED
  BY <1>10 DEF new

\* Every step of a call and of the recovered job preserves the invariant.
LEMMA CallsInvNext == CallsInv /\ [Next]_vars => CallsInv'
<1> SUFFICES ASSUME CallsInv, [Next]_vars PROVE CallsInv'
  OBVIOUS
<1>1. ASSUME NEW r \in Requests, Load(r) PROVE CallsInv'
  BY <1>1 DEF Load, Goto, CallsInv, Whole, Open, Later
<1>2. ASSUME NEW r \in Requests, Scan(r) PROVE CallsInv'
  <2>1. /\ pc[r] = "scanning" /\ pc' = [pc EXCEPT ![r] = "deciding"]
        /\ evidence' \in [Requests -> SUBSET Reports]
        /\ UNCHANGED <<row, thread, loaded, recovering, reread>>
    BY <1>2 DEF Scan, Goto, CallsInv
  <2>2. \A q \in Requests : /\ pc'[q] \in {"scanning", "deciding"} => pc[q] \in {"scanning", "deciding"}
                            /\ pc'[q] = "done" <=> pc[q] = "done"
    BY <2>1 DEF CallsInv
  <2>3. \A q \in Requests : Later(loaded[q])' <=> Later(loaded[q])
    BY <2>1 DEF Later
  <2>4. Open' = Open /\ (Later(row)' <=> Later(row)) /\ (Later(reread)' <=> Later(reread))
    BY <2>1, <2>2 DEF Open, Later
  <2>5. /\ \A q \in Requests : Whole(loaded[q])' <=> Whole(loaded[q])
        /\ Whole(row)' <=> Whole(row)
        /\ Whole(thread)' <=> Whole(thread)
        /\ Whole(reread)' <=> Whole(reread)
    BY <2>1 DEF Whole
  <2>6. \A q \in Requests : pc'[q] \in {"scanning", "deciding"} =>
                              Whole(loaded[q])' /\ Later(loaded[q])'
    BY <2>2, <2>3, <2>5 DEF CallsInv
  <2>7. pc' \in [Requests -> {"new", "scanning", "deciding", "done"}]
    BY <2>1 DEF CallsInv
  <2>8. /\ \A q \in Open' : row'.scan # NoScan => row'.scan.by # q
        /\ \A q \in Open' : pc'[q] \in {"scanning", "deciding"} /\ loaded'[q].scan # NoScan
                             => loaded'[q].scan.by # q
    BY <2>1, <2>2, <2>4 DEF CallsInv, Open
  <2> QED
    BY <2>1, <2>4, <2>5, <2>6, <2>7, <2>8 DEF CallsInv
<1>3. ASSUME NEW r \in Requests, Unavailable(r) PROVE CallsInv'
  BY <1>3 DEF Unavailable, Goto, CallsInv, Whole, Open, Later
<1>4. ASSUME NEW r \in Requests, Commit(r) PROVE CallsInv'
  <2>1. Whole(row') /\ row'.scan = NewScan(r) /\ row'.count > thread.count
    BY <1>4, FlushIsWhole DEF Commit
  <2>2. row'.scan.by = r
    BY <2>1 DEF NewScan
  <2> QED
    <3>1. thread.count \in Nat /\ row'.count \in Nat
      BY <2>1 DEF CallsInv, Whole, RowRecords
    <3>2. Later(row)'
      BY <1>4, <2>1, <3>1 DEF Later, Commit
    <3> QED
      BY <1>4, <2>1, <2>2, <3>2 DEF Commit, Goto, CallsInv, Whole, Open, Later
<1>5. CASE Recover
  BY <1>5 DEF Recover, CallsInv, Whole, Open, RowRecords, StatusValues, Later
<1>9. CASE Reread
  BY <1>9 DEF Reread, CallsInv, Whole, Open, Later
<1>6. CASE Reapply
  <2>1. Whole(row') /\ Later(row)' /\ row'.scan = row.scan
    BY <1>6, ReapplyIsWhole DEF Reapply, Later
  <2> QED
    BY <1>6, <2>1 DEF Reapply, CallsInv, Whole, Open, Later
<1>7. CASE FailRecovery
  BY <1>7 DEF FailRecovery, CallsInv, Whole, Open, RowRecords, StatusValues, Later
<1>8. CASE UNCHANGED vars
  BY <1>8 DEF vars, CallsInv, Whole, Open, Later
<1> QED
  BY <1>1, <1>2, <1>3, <1>4, <1>5, <1>6, <1>7, <1>8, <1>9 DEF Next

-----------------------------------------------------------------------------
(* The count of a row.                                                     *)

Done  == {r \in Requests : pc[r] = "done"}
Limit == MaxRework + Cardinality(Done)

\* A row has at most one attempt for each call that is over, and so has what
\* any call loaded; a call that was never overlapped adds the next one.
BoundInv ==
    /\ recovering \in {"NO", "STARTED", "LOADED"} /\ recoveries \in 0..MaxRecoveries
    /\ reread = NoRow \/ (recovering = "LOADED" /\ Whole(reread) /\ reread.count <= Limit)
    /\ thread.count <= MaxRework /\ row.count <= Limit
    /\ \A r \in Requests : loaded[r] = NoRow \/ (Whole(loaded[r]) /\ loaded[r].count <= Limit)
    /\ \A r \in Requests : pc[r] \in {"scanning", "deciding"} => loaded[r].count <= Limit

LEMMA LimitIsNat == Limit \in Nat /\ Limit <= MaxRework + Cardinality(Requests)
<1>1. Done \subseteq Requests
  BY DEF Done
<1>2. /\ Cardinality(Done) \in Nat /\ Cardinality(Requests) \in Nat
      /\ Cardinality(Done) <= Cardinality(Requests)
  BY <1>1, ExternalConstantsOK, FS_Subset, FS_CardinalityType
<1> QED
  BY <1>2, ExternalConstantsOK DEF Limit

\* The limit grows with each call that ends.
LEMMA LimitGrows ==
    ASSUME NEW r \in Requests, pc \in [Requests -> {"new", "scanning", "deciding", "done"}],
           pc[r] # "done", pc' = [pc EXCEPT ![r] = "done"]
    PROVE  Limit' = Limit + 1
<1>1. Done' = Done \cup {r} /\ r \notin Done /\ Done \subseteq Requests
  BY DEF Done
<1>2. IsFiniteSet(Done)
  BY <1>1, ExternalConstantsOK, FS_Subset
<1>3. Cardinality(Done') = Cardinality(Done) + 1 /\ Cardinality(Done) \in Nat
  BY <1>1, <1>2, FS_AddElement, FS_CardinalityType
<1> QED
  BY <1>3, ExternalConstantsOK DEF Limit

LEMMA BoundInvInit == Init => BoundInv
<1> SUFFICES ASSUME Init PROVE BoundInv
  OBVIOUS
<1>1. thread.count \in Nat /\ thread.count <= MaxRework
  <2>1. PICK d \in {Decision(Workflow, n, {}) : n \in 0..MaxRework - 1}
                   \cup {Decision(Workflow, MaxRework, {"HIGH"})} : thread.count = d.attempt
    BY DEF Init, Results
  <2>2. MaxRework \in Nat /\ \A n \in 0..MaxRework - 1 : n \in Nat /\ n <= MaxRework
    BY ExternalConstantsOK
  <2>3. d.attempt \in Nat /\ d.attempt <= MaxRework
    BY <2>2, DecisionIsTyped
  <2> QED
    BY <2>1, <2>3
<1>2. Limit \in Nat /\ MaxRework <= Limit
  <2>1. Done = {}
    BY DEF Init, Done
  <2> QED
    BY <2>1, FS_EmptySet, ExternalConstantsOK DEF Limit
<1>3. thread.count <= Limit
  BY <1>1, <1>2, ExternalConstantsOK
<1>4. 0 \in 0..MaxRecoveries
  BY ExternalConstantsOK
<1>5. \A r \in Requests : loaded[r] = NoRow /\ pc[r] = "new"
  BY DEF Init
<1> QED
  BY <1>1, <1>3, <1>4, <1>5 DEF Init, BoundInv

LEMMA BoundInvNext == CallsInv /\ BoundInv /\ [Next]_vars => BoundInv'
<1> SUFFICES ASSUME CallsInv, BoundInv, [Next]_vars PROVE BoundInv'
  OBVIOUS
<1>0. /\ Limit \in Nat /\ MaxRework \in Nat /\ MaxRework <= Limit
      /\ row.count \in Nat /\ thread.count \in Nat
      /\ \A r \in Requests : pc[r] \in {"scanning", "deciding"} =>
           loaded[r].count \in Nat /\ Whole(loaded[r])
      /\ \A r \in Requests : Whole(loaded[r]) => loaded[r].count \in Nat
      /\ Whole(reread) => reread.count \in Nat
      /\ Whole(row)
  <2>1. Cardinality(Done) \in Nat
    BY ExternalConstantsOK, FS_Subset, FS_CardinalityType DEF Done
  <2>2. Limit \in Nat /\ MaxRework \in Nat /\ MaxRework <= Limit
    BY <2>1, ExternalConstantsOK DEF Limit
  <2>3. \A x : Whole(x) => x.count \in Nat
    BY DEF Whole, RowRecords
  <2> QED
    BY <2>2, <2>3 DEF CallsInv
\* A step after which no more calls are over than before.
<1>1. ASSUME Done' = Done PROVE Limit' = Limit
  BY <1>1 DEF Limit
<1>2. ASSUME NEW r \in Requests, Load(r) PROVE BoundInv'
  <2>1. Done' = Done
    BY <1>2 DEF Load, Goto, CallsInv, Done
  <2>2. \A q \in Requests : loaded'[q] = IF q = r THEN row ELSE loaded[q]
    BY <1>2 DEF Load, CallsInv
  <2>3. \A q \in Requests : q # r => pc'[q] = pc[q]
    BY <1>2 DEF Load, Goto, CallsInv
  <2>4. \A q \in Requests : Whole(loaded[q])' <=> Whole(loaded'[q])
    BY DEF Whole
  <2> QED
    BY <1>0, <1>1, <1>2, <2>1, <2>2, <2>3, <2>4 DEF Load, BoundInv
<1>3. ASSUME NEW r \in Requests, Scan(r) PROVE BoundInv'
  <2>1. Done' = Done
    BY <1>3 DEF Scan, Goto, CallsInv, Done
  <2>2. \A q \in Requests : pc'[q] \in {"scanning", "deciding"} => pc[q] \in {"scanning", "deciding"}
    BY <1>3 DEF Scan, Goto, CallsInv
  <2> QED
    BY <1>1, <1>3, <2>1, <2>2 DEF Scan, BoundInv, Whole
<1>4. ASSUME NEW r \in Requests, Unavailable(r) \/ Commit(r) PROVE BoundInv'
  <2>1. Limit' = Limit + 1
    BY <1>4, LimitGrows DEF Unavailable, Commit, Goto, CallsInv
  <2>2. \A q \in Requests : pc'[q] \in {"scanning", "deciding"} => pc[q] \in {"scanning", "deciding"}
    BY <1>4 DEF Unavailable, Commit, Goto, CallsInv
  <2>3. UNCHANGED <<loaded, thread, recovering, reread, recoveries>>
    BY <1>4 DEF Unavailable, Commit
  <2>4. row'.count <= Limit + 1
    <3>1. CASE Unavailable(r)
      BY <1>0, <3>1 DEF Unavailable, BoundInv
    <3>2. CASE Commit(r)
      <4>1. row' = Flushed(loaded[r], Wanted(r)) /\ pc[r] = "deciding"
        BY <3>2 DEF Commit
      <4>2. row'.count = row.count \/ row'.count = Wanted(r).count
        BY <1>0, <4>1 DEF Flushed, Whole, RowRecords
      <4>3. Wanted(r).count = loaded[r].count + 1
        BY <1>0, <4>1, DecisionIsTyped DEF Wanted, NextAttempt
      <4> QED
        BY <1>0, <4>1, <4>2, <4>3 DEF BoundInv
    <3> QED
      BY <1>4, <3>1, <3>2
  <2>5. \A q \in Requests : loaded[q] = NoRow \/ (Whole(loaded[q]) /\ loaded[q].count <= Limit + 1)
    BY <1>0 DEF BoundInv
  <2>6. \A q \in Requests : pc[q] \in {"scanning", "deciding"} => loaded[q].count <= Limit + 1
    BY <1>0 DEF BoundInv
  <2>7. reread = NoRow \/ (recovering = "LOADED" /\ Whole(reread) /\ reread.count <= Limit + 1)
    BY <1>0 DEF BoundInv
  <2> QED
    BY <2>1, <2>2, <2>3, <2>4, <2>5, <2>6, <2>7 DEF BoundInv, Whole
<1>5. ASSUME UNCHANGED <<pc, loaded, thread>>, row'.count = row.count \/ row'.count = thread.count,
             recovering' \in {"NO", "STARTED", "LOADED"}, recoveries' \in 0..MaxRecoveries,
             \/ reread' = NoRow
             \/ reread' = reread /\ recovering' = recovering
             \/ reread' = row /\ recovering' = "LOADED"
      PROVE  BoundInv'
  <2>1. Limit' = Limit
    BY <1>1, <1>5 DEF Done
  <2>2. row'.count <= Limit
    BY <1>0, <1>5 DEF BoundInv
  <2>3. reread' = NoRow \/ (recovering' = "LOADED" /\ Whole(reread') /\ reread'.count <= Limit)
    BY <1>0, <1>5 DEF BoundInv
  <2> QED
    BY <1>5, <2>1, <2>2, <2>3 DEF BoundInv, Whole
<1>6. CASE Recover
  <2>1. recoveries + 1 \in 0..MaxRecoveries
    BY <1>6, ExternalConstantsOK DEF Recover, BoundInv
  <2> QED
    BY <1>0, <1>5, <1>6, <2>1 DEF Recover, Whole, RowRecords, BoundInv
<1>7. CASE Reread \/ FailRecovery
  BY <1>0, <1>5, <1>7 DEF Reread, FailRecovery, Whole, RowRecords, CallsInv, BoundInv
<1>9. CASE Reapply
  <2>1. row'.count = row.count \/ row'.count = thread.count
    BY <1>9, ReapplyIsWhole DEF Reapply
  <2> QED
    BY <1>5, <1>9, <2>1 DEF Reapply, BoundInv
<1>8. CASE UNCHANGED vars
  BY <1>5, <1>8 DEF vars, BoundInv
<1> QED
  BY <1>2, <1>3, <1>4, <1>6, <1>7, <1>8, <1>9 DEF Next

-----------------------------------------------------------------------------
\* CallsInv is an invariant of the endpoint.
THEOREM CallsInvariant == Spec => []CallsInv
BY CallsInvInit, CallsInvNext, PTL DEF Spec

\* No overlap of calls and recoveries, however many, leaves a count beside the
\* decision of another write (routes/tasks.py:444-451, services/tasks.py:224-232).
THEOREM CountIsTheDecisions == Spec => []DecisionMatchesCount
<1>1. CallsInv => DecisionMatchesCount
  BY DEF CallsInv, Whole, DecisionMatchesCount
<1> QED
  BY <1>1, CallsInvariant, PTL

\* ... nor a decision beside evidence it was not made from, unless it is the
\* workflow's own (routes/tasks.py:422-451).
THEOREM EvidenceIsTheDecisions == Spec => []EvidenceIsWhole
<1>1. CallsInv => EvidenceIsWhole
  BY DEF CallsInv, Whole, EvidenceIsWhole
<1> QED
  BY <1>1, CallsInvariant, PTL

\* Types, with the bound on the count: no overlap of calls and recoveries makes
\* a row count more than one attempt for each call (routes/tasks.py:436-444).
THEOREM RowsAreTyped == Spec => []TypeOK
<1>1. CallsInv /\ BoundInv => TypeOK
  <2> SUFFICES ASSUME CallsInv, BoundInv PROVE TypeOK
    OBVIOUS
  <2>1. Cardinality(Requests) \in Nat /\ MaxRework \in Nat
    BY ExternalConstantsOK, FS_CardinalityType
  <2>2. ASSUME NEW x, Whole(x), x.count <= Limit PROVE x \in Rows
    <3>1. x.count \in Counts
      BY <2>1, <2>2, LimitIsNat DEF Whole, RowRecords, Counts
    <3> QED
      BY <2>2, <3>1 DEF Whole, RowRecords, DecisionRecords, ScanRecords, StatusValues,
                        Rows, Decided, Scans
  <2>3. thread.count <= Limit
    <3>1. Cardinality(Done) \in Nat
      BY ExternalConstantsOK, FS_Subset, FS_CardinalityType DEF Done
    <3>2. thread.count \in Nat
      BY DEF CallsInv, Whole, RowRecords
    <3> QED
      BY <2>1, <3>1, <3>2 DEF BoundInv, Limit
  <2>4. row \in Rows /\ thread \in Rows
    BY <2>2, <2>3 DEF CallsInv, BoundInv
  <2>5. \A r \in Requests : loaded[r] \in Rows \cup {NoRow}
    BY <2>2 DEF BoundInv
  <2>6. loaded \in [Requests -> Rows \cup {NoRow}]
    BY <2>5 DEF CallsInv
  <2>7. reread \in Rows \cup {NoRow} /\ (reread # NoRow => recovering = "LOADED")
    BY <2>2 DEF BoundInv
  <2> QED
    BY <2>4, <2>6, <2>7 DEF CallsInv, BoundInv, TypeOK
<1> QED
  BY <1>1, BoundInvInit, BoundInvNext, CallsInvInit, CallsInvNext, PTL DEF Spec

\* A call that nobody overlapped leaves a row that agrees with its evidence,
\* although its UPDATE leaves columns out (routes/tasks.py:395-481).
THEOREM UndisturbedCallsAgree == Spec => UndisturbedCallAgrees
<1> DEFINE Agrees == \A r \in Requests :
                       pc[r] = "deciding" /\ pc'[r] = "done" /\ loaded[r] = row =>
                         /\ row'.scan.by = r
                         /\ row'.status = "COMPLETED" <=> Reasons(row'.scan.reports) = {}
                         /\ row'.status = "REWORK_EXHAUSTED" <=>
                              Reasons(row'.scan.reports) # {} /\ row'.count >= MaxRework
<1>1. CallsInv /\ [Next]_vars => [Agrees]_vars
  <2> SUFFICES ASSUME CallsInv, Next, NEW r \in Requests,
                      pc[r] = "deciding", pc'[r] = "done", loaded[r] = row
               PROVE  /\ row'.scan.by = r
                      /\ row'.status = "COMPLETED" <=> Reasons(row'.scan.reports) = {}
                      /\ row'.status = "REWORK_EXHAUSTED" <=>
                           Reasons(row'.scan.reports) # {} /\ row'.count >= MaxRework
    OBVIOUS
  <2>1. Commit(r)
    <3>1. ASSUME NEW q \in Requests, Load(q) \/ Scan(q) \/ Unavailable(q) \/ Commit(q)
          PROVE  Commit(r)
      <4>1. q = r
        BY <3>1 DEF Load, Scan, Unavailable, Commit, Goto, CallsInv
      <4> QED
        BY <3>1, <4>1 DEF Load, Scan, Unavailable
    <3>2. ~(Recover \/ Reread \/ Reapply \/ FailRecovery)
      BY DEF Recover, Reread, Reapply, FailRecovery
    <3> QED
      BY <3>1, <3>2 DEF Next
  <2> DEFINE d == Decision(r, NextAttempt(r), evidence[r])
  <2>2. Wanted(r) = [status |-> StatusOf(d), count |-> d.attempt, decision |-> d,
                     scan |-> NewScan(r)]
    BY DEF Wanted
  <2>3. DOMAIN row = Columns
    BY DEF CallsInv, Whole, RowRecords, Columns
  <2>4. row' = [c \in Columns |-> Wanted(r)[c]]
    BY <2>1, <2>3 DEF Commit, Flushed
  <2>5. row'.status = StatusOf(d) /\ row'.count = d.attempt /\ row'.scan = NewScan(r)
    BY <2>2, <2>4 DEF Columns
  <2>6. row'.scan.by = r /\ row'.scan.reports = evidence[r]
    BY <2>5 DEF NewScan
  <2>7. /\ d.required <=> Reasons(evidence[r]) # {}
        /\ d.exhausted <=> (Reasons(evidence[r]) # {} /\ d.attempt >= MaxRework)
    BY DEF Decision
  <2>8. /\ StatusOf(d) = "COMPLETED" <=> ~d.required /\ ~d.exhausted
        /\ StatusOf(d) = "REWORK_EXHAUSTED" <=> d.exhausted
    BY DEF StatusOf
  <2> HIDE DEF d
  <2> QED
    BY <2>5, <2>6, <2>7, <2>8
<1> QED
  BY <1>1, CallsInvariant, PTL DEF Spec, UndisturbedCallAgrees
=============================================================================
