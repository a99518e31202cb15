----------------------- MODULE PullRequestReviewProofs -----------------------
(***************************************************************************)
(* Theorems about the review of a pull request, for pull requests of any   *)
(* size, any limits and any answer of the model: the types, the order in   *)
(* which the patch budget is spent, and what a review that is stored says  *)
(* of what was fetched.                                                    *)
(***************************************************************************)
EXTENDS PullRequestReview, SequenceTheorems, TLAPS

Accepting == {"metadata", "files", "sanitize"}
Running   == {"queued", "context", "agent", "events"}
Metadata  == [changed : Nat, secret : BOOLEAN, marker : BOOLEAN, part : BOOLEAN]

\* The files have been taken from the second response.
Fetched == pc = "sanitize" \/ status # "NONE"

\* The context that every attempt builds from the snapshot.
Built == [truncated |-> ~rendered.fits, redacted |-> rendered.redacted]

\* What has been done at each place.
PlaceInv ==
    /\ pc \in Accepting => status = "NONE" /\ attempt = 0
    /\ pc \in Running => status # "NONE"
    /\ pc = "queued" => attempt < MaxAttempts
    /\ pc = "files" \/ Fetched => meta \in Metadata
    /\ pc \in {"metadata", "files"} => files = <<>>
    /\ status # "NONE" => Len(files) = Len(fetched) /\ rendered \in Renderings
    /\ pc \in {"agent", "events"} => context = Built

Cuts(i) == files[i].kept < fetched[i].size

\* The loop of the sanitizer, after any number of turns: BudgetInOrder is not
\* inductive without the budget that a cut leaves.
SpentInv ==
    /\ Len(files) <= Len(fetched)
    /\ \A i \in 1..Len(files) :
         /\ files[i].kept <= fetched[i].size
         /\ files[i].truncated <=> Cuts(i) \/ (fetched[i].size = 0 /\ fetched[i].changes > 0)
    /\ (\E i \in 1..Len(files) : Cuts(i)) => left = 0
    /\ \A i, j \in 1..Len(files) : i < j /\ Cuts(i) => files[j].kept = 0
    /\ \E o \in Overheads : length <= o + 2 * (MaxPatch - left)

\* The flags say what was found up to the file the loop is at.
FlagsInv ==
    Fetched =>
        /\ flags.redacted <=> meta.secret \/ \E i \in 1..Len(files) : fetched[i].secret
        /\ flags.suspicious <=> meta.marker \/ \E i \in 1..Len(files) : fetched[i].marker
        /\ flags.truncated <=> omitted \/ \E i \in 1..Len(files) : files[i].truncated

LEMMA TypeInit == Init => TypeOK /\ PlaceInv
<1> SUFFICES ASSUME Init PROVE TypeOK /\ PlaceInv
  OBVIOUS
<1>1. fetched \in Seq(File) /\ files \in Seq(Snapshots) /\ files = <<>> /\ Len(files) = 0
  BY DEF Init
<1>2. MaxPatch \in 0..MaxPatch /\ length \in Nat /\ attempt \in 0..MaxAttempts
  BY ReviewConstantsOK DEF Init
<1>3. TypeOK
  BY <1>1, <1>2 DEF Init, TypeOK
<1>4. PlaceInv
  BY <1>1 DEF Init, PlaceInv, Accepting, Running, Fetched
<1> QED
  BY <1>3, <1>4

\* The first files of a page.
LEMMA PageIsFiles ==
    ASSUME NEW s \in Seq(File), NEW n \in Nat
    PROVE  Page(s, n) \in Seq(File)
<1> DEFINE m == IF Len(s) < n THEN Len(s) ELSE n
<1>1. Len(s) \in Nat /\ m \in Nat /\ m <= Len(s)
  OBVIOUS
<1>2. \A i \in 1..m : s[i] \in File
  BY <1>1, ElementOfSeq
<1> QED
  BY <1>1, <1>2, SubSeqProperties DEF Page

\* One turn of the loop.
LEMMA Turn ==
    TypeOK /\ SanitizeFile =>
        \E f \in File, snap \in Snapshots :
            /\ f = fetched[Len(files) + 1] /\ Len(files) + 1 \in 1..Len(fetched)
            /\ snap = [kept |-> Kept(f), truncated |-> Truncated(f)]
            /\ files' = Append(files, snap)
            /\ Kept(f) \in 0..left /\ Kept(f) <= f.size
            /\ left' = left - Kept(f)
            /\ \E escaped \in 0..Kept(f) : length' = length + Kept(f) + escaped
            /\ flags' = [redacted   |-> flags.redacted \/ f.secret,
                         suspicious |-> flags.suspicious \/ f.marker,
                         truncated  |-> flags.truncated \/ Truncated(f)]
<1> SUFFICES ASSUME TypeOK, SanitizeFile
             PROVE  \E f \in File, snap \in Snapshots :
                      /\ f = fetched[Len(files) + 1] /\ Len(files) + 1 \in 1..Len(fetched)
                      /\ snap = [kept |-> Kept(f), truncated |-> Truncated(f)]
                      /\ files' = Append(files, snap)
                      /\ Kept(f) \in 0..left /\ Kept(f) <= f.size
                      /\ left' = left - Kept(f)
                      /\ \E escaped \in 0..Kept(f) : length' = length + Kept(f) + escaped
                      /\ flags' = [redacted   |-> flags.redacted \/ f.secret,
                                   suspicious |-> flags.suspicious \/ f.marker,
                                   truncated  |-> flags.truncated \/ Truncated(f)]
  OBVIOUS
<1> DEFINE f == fetched[Len(files) + 1]
           snap == [kept |-> Kept(f), truncated |-> Truncated(f)]
<1>1. Len(files) \in Nat /\ Len(fetched) \in Nat /\ Len(files) + 1 \in 1..Len(fetched)
  BY LenProperties DEF TypeOK, SanitizeFile
<1>2. f \in File
  BY <1>1, ElementOfSeq DEF TypeOK
<1>3. f.size \in Nat /\ left \in 0..MaxPatch /\ MaxPatch \in Nat
  BY <1>2, ReviewConstantsOK DEF File, TypeOK
<1>4. Kept(f) \in 0..left /\ Kept(f) <= f.size
  BY <1>3 DEF Kept
<1>5. snap \in Snapshots
  BY <1>4, <1>3 DEF Snapshots, Truncated
<1> QED
  BY <1>1, <1>2, <1>4, <1>5 DEF SanitizeFile, Spend, Or

LEMMA PlaceNext == TypeOK /\ PlaceInv /\ [Next]_vars => PlaceInv'
<1> SUFFICES ASSUME TypeOK, PlaceInv, [Next]_vars PROVE PlaceInv'
  OBVIOUS
<1>1. MaxAttempts \in Nat /\ attempt \in Nat /\ MaxAttempts > 0
  BY ReviewConstantsOK DEF TypeOK
<1>2. ASSUME UNCHANGED <<meta, fetched, flags, length>> PROVE Renderings' = Renderings
  BY <1>2 DEF Renderings, Joined
<1>3. CASE GetMetadata \/ GetFiles \/ SanitizeFile
  BY <1>3, LenProperties
  DEF GetMetadata, GetFiles, SanitizeFile, taskRow, PlaceInv, TypeOK, Accepting, Running,
      Fetched, Metadata
<1>4. CASE Persist
  <2>1. rendered' \in Renderings' /\ Len(files') = Len(fetched')
    BY <1>2, <1>4 DEF Persist
  <2> QED
    BY <1>1, <1>4, <2>1 DEF Persist, PlaceInv, Accepting, Running, Fetched
<1>5. CASE Push \/ Refuse \/ Begin \/ BuildContext \/ Complete \/ Fail \/ Finish \/ Die \/ UNCHANGED vars
  <2>1. UNCHANGED <<snapshot, Renderings, Built>>
    BY <1>2, <1>5
    DEF Push, Refuse, Begin, BuildContext, Complete, Fail, Finish, Die, vars, snapshot, Built
  <2> QED
    BY <1>1, <1>5, <2>1
    DEF Push, Refuse, Begin, BuildContext, Complete, Fail, Finish, Die, vars, snapshot, taskRow,
        PlaceInv, Accepting, Running, Fetched, Built
<1> QED
  BY <1>3, <1>4, <1>5 DEF Next

\* The highest risk of the answer and of the findings exists.
LEMMA RiskIsHighest ==
    ASSUME NEW answer \in Answers, NEW fs \in SUBSET Findings
    PROVE  /\ RiskLevel(answer, fs) \in Risks
           /\ \A f \in fs : f.severity <= RiskLevel(answer, fs)
<1> DEFINE S == {answer.risk} \cup {f.severity : f \in fs}
           IsHighest(r) == r \in S /\ answer.risk <= r /\ \A f \in fs : f.severity <= r
<1>1. S \subseteq 0..3 /\ answer.risk \in S /\ \A f \in fs : f.severity \in S
  BY DEF Answers, Findings, Risks
<1>2. \E r \in 0..3 : r \in S /\ \A x \in S : x <= r
  <2>1. CASE 3 \in S
    BY <1>1, <2>1
  <2>2. CASE 3 \notin S /\ 2 \in S
    BY <1>1, <2>2
  <2>3. CASE 3 \notin S /\ 2 \notin S /\ 1 \in S
    BY <1>1, <2>3
  <2>4. CASE 3 \notin S /\ 2 \notin S /\ 1 \notin S
    BY <1>1, <2>4
  <2> QED
    BY <2>1, <2>2, <2>3, <2>4
<1>3. \E r \in Risks : IsHighest(r)
  BY <1>1, <1>2 DEF Risks
<1>4. RiskLevel(answer, fs) = CHOOSE r \in Risks : IsHighest(r)
  BY DEF RiskLevel
<1>5. RiskLevel(answer, fs) \in Risks /\ IsHighest(RiskLevel(answer, fs))
  BY <1>3, <1>4
<1> QED
  BY <1>5

\* What the agent stores.
LEMMA WhatIsStored ==
    TypeOK /\ PlaceInv /\ Complete =>
        \E answer \in Answers :
            /\ review'.recommendation = Recommendation(answer)
            /\ Deterministic \subseteq review'.findings
            /\ \A f \in review'.findings : f.severity <= review'.risk
            /\ review' \in [recommendation : Recommendations, risk : Risks,
                            findings : SUBSET Findings]
<1> SUFFICES ASSUME TypeOK, PlaceInv, Complete
             PROVE  \E answer \in Answers :
                      /\ review'.recommendation = Recommendation(answer)
                      /\ Deterministic \subseteq review'.findings
                      /\ \A f \in review'.findings : f.severity <= review'.risk
                      /\ review' \in [recommendation : Recommendations, risk : Risks,
                                      findings : SUBSET Findings]
  OBVIOUS
<1>0. PICK answer \in Answers : \E findings \in Merged(Deterministic, answer.findings) :
        review' = [recommendation |-> Recommendation(answer),
                   risk           |-> RiskLevel(answer, findings),
                   findings       |-> findings]
  BY DEF Complete
<1>1. PICK findings \in Merged(Deterministic, answer.findings) :
        review' = [recommendation |-> Recommendation(answer),
                   risk           |-> RiskLevel(answer, findings),
                   findings       |-> findings]
  BY <1>0
<1>2. Deterministic \subseteq findings /\ findings \subseteq Deterministic \cup answer.findings
  BY DEF Merged, Cut
<1>3. findings \in SUBSET Findings
  <2>1. /\ DOMAIN Signals \subseteq Names
        /\ \A m \in DOMAIN Signals : Severity[m] \in Risks
    BY DEF Signals, Severity, Names, Risks
  <2>d. Deterministic \subseteq Findings
    BY <2>1 DEF Deterministic, Findings
  <2>2. answer.findings \subseteq Findings
    BY ReviewConstantsOK DEF Answers
  <2> QED
    BY <1>2, <2>d, <2>2
<1>4. Recommendation(answer) \in Recommendations
  BY DEF Recommendation, Recommendations, Answers
<1> QED
  BY <1>1, <1>2, <1>3, <1>4, RiskIsHighest

LEMMA TypeNext == TypeOK /\ PlaceInv /\ [Next]_vars => TypeOK'
<1> SUFFICES ASSUME TypeOK, PlaceInv, [Next]_vars PROVE TypeOK'
  OBVIOUS
<1>0. /\ MaxAttempts \in Nat /\ attempt \in 0..MaxAttempts
      /\ MaxFiles \in Nat /\ Revisions \subseteq Seq(File)
  <2>1. MaxFiles \in 1..100 /\ 1..100 \subseteq Nat
    BY ReviewConstantsOK
  <2>2. MaxAttempts \in Nat /\ Revisions \subseteq Seq(File)
    BY ReviewConstantsOK
  <2> QED
    BY <2>1, <2>2 DEF TypeOK
<1>1. CASE Push \/ Refuse \/ Persist \/ Fail \/ Finish \/ Die
  <2>0. rendered' \in [redacted : BOOLEAN, fits : BOOLEAN] \cup {None}
    BY <1>1 DEF Push, Refuse, Persist, Fail, Finish, Die, snapshot, TypeOK, Renderings
  <2>1. /\ UNCHANGED <<meta, fetched, files, omitted, left, length, flags, attempt, context, review>>
        /\ head' \in Revisions
        /\ pc' \in {"files", "end", "queued"}
        /\ status' \in {status, "QUEUED", "FAILED"}
    BY <1>1 DEF Push, Refuse, Persist, Fail, Finish, Die, snapshot, taskRow, TypeOK
  <2> QED
    BY <1>0, <2>0, <2>1 DEF TypeOK
<1>2. CASE GetMetadata
  <2>1. Len(head) \in Nat
    BY <1>0, LenProperties DEF TypeOK
  <2>2. meta' \in Metadata
    BY <1>2, <2>1 DEF GetMetadata, Metadata
  <2> QED
    BY <1>2, <2>2 DEF GetMetadata, taskRow, TypeOK, Metadata
<1>3. CASE GetFiles
  <2>1. meta \in Metadata
    BY <1>3 DEF GetFiles, PlaceInv
  <2>2. PICK payload \in {head, Page(head, MaxFiles)} :
          /\ fetched' = Page(payload, MaxFiles)
          /\ omitted' = (meta.changed > Len(fetched') \/ Len(payload) > MaxFiles)
    BY <1>3 DEF GetFiles
  <2>3. fetched' \in Seq(File) /\ omitted' \in BOOLEAN
    BY <1>0, <2>2, PageIsFiles DEF TypeOK
  <2>4. flags' \in [redacted : BOOLEAN, suspicious : BOOLEAN, truncated : BOOLEAN]
    BY <1>3, <2>1, <2>3 DEF GetFiles, Metadata
  <2> QED
    BY <1>3, <2>3, <2>4 DEF GetFiles, taskRow, TypeOK
<1>4. CASE SanitizeFile
  <2>1. PICK f \in File, snap \in Snapshots :
          /\ files' = Append(files, snap)
          /\ Kept(f) \in 0..left /\ left' = left - Kept(f)
          /\ \E escaped \in 0..Kept(f) : length' = length + Kept(f) + escaped
          /\ flags' = [redacted   |-> flags.redacted \/ f.secret,
                       suspicious |-> flags.suspicious \/ f.marker,
                       truncated  |-> flags.truncated \/ Truncated(f)]
    BY <1>4, Turn
  <2>2. files' \in Seq(Snapshots)
    BY <2>1, AppendProperties DEF TypeOK
  <2>3. left' \in 0..MaxPatch /\ length' \in Nat
    BY <2>1, ReviewConstantsOK DEF TypeOK
  <2>4. Truncated(f) \in BOOLEAN
    BY DEF Truncated
  <2>5. flags' \in [redacted : BOOLEAN, suspicious : BOOLEAN, truncated : BOOLEAN]
    BY <2>1, <2>4 DEF TypeOK, File
  <2> QED
    BY <1>4, <2>2, <2>3, <2>5 DEF SanitizeFile, taskRow, TypeOK
<1>5. CASE Begin
  BY <1>0, <1>5 DEF Begin, snapshot, PlaceInv, TypeOK
<1>6. CASE BuildContext
  <2>1. rendered \in Renderings
    BY <1>6 DEF BuildContext, PlaceInv, Running
  <2>2. context' \in [truncated : BOOLEAN, redacted : BOOLEAN]
    BY <1>6, <2>1 DEF BuildContext, Renderings
  <2> QED
    BY <1>6, <2>2 DEF BuildContext, snapshot, TypeOK
<1>7. CASE Complete
  BY <1>7, WhatIsStored DEF Complete, snapshot, TypeOK
<1>8. CASE UNCHANGED vars
  BY <1>8 DEF vars, snapshot, taskRow, TypeOK
<1> QED
  BY <1>1, <1>2, <1>3, <1>4, <1>5, <1>6, <1>7, <1>8 DEF Next

\* The types of what is fetched and stored; the patch budget is not overdrawn
\* (pull_request_reviews.py:67-70).
THEOREM ReviewIsTyped == Spec => []TypeOK
  BY TypeInit, TypeNext, PlaceNext, PTL DEF Spec

LEMMA PlaceInvariant == Spec => [](TypeOK /\ PlaceInv)
  BY TypeInit, TypeNext, PlaceNext, PTL DEF Spec

-----------------------------------------------------------------------------
(* The patch budget.                                                       *)

LEMMA SpentInit == Init => SpentInv
<1> SUFFICES ASSUME Init PROVE SpentInv
  OBVIOUS
<1>1. Len(files) = 0 /\ Len(fetched) = 0 /\ left = MaxPatch /\ length \in Overheads
  BY DEF Init
<1>2. length <= length + 2 * (MaxPatch - left)
  BY <1>1, ReviewConstantsOK
<1> QED
  BY <1>1, <1>2 DEF SpentInv

LEMMA SpentNext == TypeOK /\ PlaceInv /\ SpentInv /\ [Next]_vars => SpentInv'
<1> SUFFICES ASSUME TypeOK, PlaceInv, SpentInv, [Next]_vars PROVE SpentInv'
  OBVIOUS
<1>1. CASE UNCHANGED <<fetched, files, left, length>>
  BY <1>1 DEF SpentInv, Cuts
<1>2. CASE GetFiles
  <2>1. files = <<>> /\ UNCHANGED <<files, left, length>>
    BY <1>2 DEF GetFiles, PlaceInv
  <2>2. fetched' \in Seq(File)
    BY <1>2, TypeNext DEF Next, TypeOK
  <2>3. Len(files) = 0 /\ Len(files') = 0 /\ Len(fetched') \in Nat
    BY <2>1, <2>2, LenProperties
  <2> QED
    BY <2>1, <2>3 DEF SpentInv, Cuts
<1>3. CASE SanitizeFile
  <2>0. PICK n \in Nat : n = Len(files)
    BY LenProperties DEF TypeOK
  <2>1. PICK f \in File, snap \in Snapshots :
          /\ f = fetched[n + 1] /\ n + 1 \in 1..Len(fetched)
          /\ snap = [kept |-> Kept(f), truncated |-> Truncated(f)]
          /\ files' = Append(files, snap)
          /\ Kept(f) \in 0..left /\ Kept(f) <= f.size
          /\ left' = left - Kept(f)
          /\ \E escaped \in 0..Kept(f) : length' = length + Kept(f) + escaped
    BY <1>3, <2>0, Turn
  <2>2. Len(fetched) \in Nat /\ fetched' = fetched
    BY <1>3, LenProperties DEF TypeOK, SanitizeFile
  <2>3. Len(files') = n + 1 /\ files'[n + 1] = snap /\ \A i \in 1..n : files'[i] = files[i]
    BY <2>0, <2>1, <2>2, AppendProperties DEF TypeOK
  <2>k. f.size \in Nat /\ left \in 0..MaxPatch /\ length \in Nat /\ MaxPatch \in Nat
    BY ReviewConstantsOK DEF TypeOK, File
  <2>4. left \in Nat /\ f.size \in Nat /\ length \in Nat /\ MaxPatch \in Nat /\ left <= MaxPatch
        /\ left' \in Nat /\ Kept(f) \in Nat
    BY <2>1, <2>k
  <2>5. \A i \in 1..n : Cuts(i)' <=> Cuts(i)
    BY <2>2, <2>3 DEF Cuts
  <2>6. Cuts(n + 1)' <=> f.size > left
    BY <2>1, <2>2, <2>3, <2>4 DEF Cuts, Kept
  <2>7. /\ Kept(f) <= f.size
        /\ Truncated(f) <=> f.size > left \/ (f.size = 0 /\ f.changes > 0)
        /\ f.size > left => left' = 0
        /\ left = 0 => Kept(f) = 0 /\ left' = 0
    BY <2>1, <2>4 DEF Kept, Truncated
  <2>8. \A i \in 1..Len(files') : i \in 1..n \/ i = n + 1
    BY <2>2, <2>3
  <2>9. ASSUME NEW i \in 1..Len(files')
        PROVE  /\ files'[i].kept <= fetched'[i].size
               /\ files'[i].truncated <=>
                    Cuts(i)' \/ (fetched'[i].size = 0 /\ fetched'[i].changes > 0)
    <3>1. CASE i \in 1..n
      BY <2>0, <2>2, <2>3, <2>5, <3>1 DEF SpentInv
    <3>2. CASE i = n + 1
      <4>1. files'[i] = snap /\ fetched'[i] = f
        BY <2>1, <2>2, <2>3, <3>2
      <4>2. Cuts(i)' <=> f.size > left
        BY <2>6, <3>2
      <4> QED
        BY <2>1, <2>7, <4>1, <4>2
    <3> QED
      BY <2>8, <3>1, <3>2
  <2>10. (\E i \in 1..Len(files') : Cuts(i)') => left' = 0
    BY <2>0, <2>1, <2>4, <2>5, <2>6, <2>7, <2>8 DEF SpentInv
  <2>11. ASSUME NEW i \in 1..Len(files'), NEW j \in 1..Len(files'), i < j, Cuts(i)'
         PROVE  files'[j].kept = 0
    <3>1. i \in 1..n /\ Cuts(i)
      BY <2>2, <2>3, <2>5, <2>8, <2>11
    <3>2. CASE j \in 1..n
      BY <2>0, <2>3, <2>11, <3>1, <3>2 DEF SpentInv
    <3>3. CASE j = n + 1
      BY <2>0, <2>1, <2>3, <2>7, <3>1, <3>3 DEF SpentInv
    <3> QED
      BY <2>8, <3>2, <3>3
  <2>12. \E o \in Overheads : length' <= o + 2 * (MaxPatch - left')
    <3>1. PICK o \in Overheads : length <= o + 2 * (MaxPatch - left)
      BY DEF SpentInv
    <3>2. o \in Nat
      BY ReviewConstantsOK
    <3>3. PICK escaped \in 0..Kept(f) : length' = length + Kept(f) + escaped
      BY <2>1
    <3>4. escaped \in Nat /\ escaped <= Kept(f) /\ left' = left - Kept(f)
      BY <2>1, <2>4
    <3>5. length' <= o + 2 * (MaxPatch - left')
      BY <2>4, <3>1, <3>2, <3>3, <3>4
    <3> QED
      BY <3>5
  <2>13. Len(files') <= Len(fetched')
    BY <2>1, <2>2, <2>3
  <2> QED
    BY <2>9, <2>10, <2>11, <2>12, <2>13 DEF SpentInv
<1> QED
  BY <1>1, <1>2, <1>3
  DEF Next, Push, GetMetadata, Refuse, Persist, Begin, BuildContext, Complete, Fail, Finish, Die,
      vars, snapshot

\* Once a patch is cut every later one is kept empty and reported, and the
\* snapshot stays within the budget (pull_request_reviews.py:67-70, ADR-014:61).
THEOREM BudgetIsSpentInOrder == Spec => []BudgetInOrder
<1>1. TypeOK /\ SpentInv => BudgetInOrder
  <2> SUFFICES ASSUME TypeOK, SpentInv PROVE BudgetInOrder
    OBVIOUS
  <2>1. ASSUME NEW i \in 1..Len(files), NEW j \in 1..Len(files), i < j,
               files[i].kept < fetched[i].size
        PROVE  files[j].kept = 0 /\ (fetched[j].size > 0 => files[j].truncated)
    BY <2>1 DEF SpentInv, Cuts
  <2> QED
    BY <2>1 DEF SpentInv, BudgetInOrder
<1>2. TypeOK /\ PlaceInv /\ SpentInv /\ [Next]_vars => SpentInv'
  BY SpentNext
<1> QED
  BY <1>1, <1>2, SpentInit, PlaceInvariant, PTL DEF Spec
-----------------------------------------------------------------------------
(* What a stored review says of what was fetched.                          *)

\* A stored review respects the flags of its snapshot, and the context that
\* every attempt builds again from that snapshot.
StoredInv ==
    review # None =>
        /\ status # "NONE" /\ context = Built
        /\ flags.redacted => review.recommendation = "BLOCK"
        /\ review.recommendation = "READY_FOR_HUMAN_REVIEW" =>
             ~flags.suspicious /\ ~flags.truncated /\ ~context.truncated /\ ~Signals.tests
        /\ Deterministic \subseteq review.findings
        /\ \A f \in review.findings : f.severity <= review.risk

LEMMA FlagsInit == Init => FlagsInv /\ StoredInv
  BY DEF Init, FlagsInv, StoredInv, Fetched

LEMMA FlagsNext == TypeOK /\ PlaceInv /\ FlagsInv /\ [Next]_vars => FlagsInv'
<1> SUFFICES ASSUME TypeOK, PlaceInv, FlagsInv, [Next]_vars PROVE FlagsInv'
  OBVIOUS
<1>1. ASSUME UNCHANGED <<meta, fetched, omitted, files, flags>>, Fetched' => Fetched
      PROVE  FlagsInv'
  BY <1>1 DEF FlagsInv
<1>2. CASE GetFiles
  <2>1. /\ files' = <<>> /\ meta' = meta /\ meta \in Metadata
        /\ flags' = [redacted |-> meta.secret, suspicious |-> meta.marker, truncated |-> omitted']
    BY <1>2 DEF GetFiles, PlaceInv
  <2>2. Len(files') = 0
    BY <2>1
  <2> QED
    BY <2>1, <2>2 DEF FlagsInv, Metadata
<1>3. CASE SanitizeFile
  <2>0. PICK n \in Nat : n = Len(files)
    BY LenProperties DEF TypeOK
  <2>1. PICK f \in File, snap \in Snapshots :
          /\ f = fetched[n + 1]
          /\ snap = [kept |-> Kept(f), truncated |-> Truncated(f)]
          /\ files' = Append(files, snap)
          /\ flags' = [redacted   |-> flags.redacted \/ f.secret,
                       suspicious |-> flags.suspicious \/ f.marker,
                       truncated  |-> flags.truncated \/ Truncated(f)]
    BY <1>3, <2>0, Turn
  <2>2. Len(files') = n + 1 /\ files'[n + 1] = snap /\ \A i \in 1..n : files'[i] = files[i]
    BY <2>0, <2>1, AppendProperties DEF TypeOK
  <2>3. UNCHANGED <<fetched, meta, omitted>> /\ Fetched
    BY <1>3 DEF SanitizeFile, Fetched
  <2>4. \A i : i \in 1..(n + 1) <=> i \in 1..n \/ i = n + 1
    OBVIOUS
  <2>5. flags'.redacted <=> meta'.secret \/ \E i \in 1..Len(files') : fetched'[i].secret
    BY <2>0, <2>1, <2>2, <2>3, <2>4 DEF FlagsInv
  <2>6. flags'.suspicious <=> meta'.marker \/ \E i \in 1..Len(files') : fetched'[i].marker
    BY <2>0, <2>1, <2>2, <2>3, <2>4 DEF FlagsInv
  <2>7. flags'.truncated <=> omitted' \/ \E i \in 1..Len(files') : files'[i].truncated
    <3>1. flags'.truncated = (flags.truncated \/ Truncated(f)) /\ files'[n + 1].truncated = Truncated(f)
      BY <2>1, <2>2
    <3>2. flags.truncated <=> omitted \/ \E i \in 1..n : files[i].truncated
      BY <2>0, <2>3 DEF FlagsInv
    <3>3. (\E i \in 1..(n + 1) : files'[i].truncated)
            <=> (\E i \in 1..n : files[i].truncated) \/ Truncated(f)
      BY <2>2, <2>4, <3>1
    <3> QED
      BY <2>2, <2>3, <3>1, <3>2, <3>3
  <2> QED
    BY <2>5, <2>6, <2>7 DEF FlagsInv
<1>4. CASE GetMetadata
  BY <1>4 DEF GetMetadata, taskRow, FlagsInv, Fetched, PlaceInv, Accepting
<1>5. CASE Push \/ Refuse \/ Finish
  BY <1>1, <1>5 DEF Push, Refuse, Finish, snapshot, taskRow, Fetched
<1>6. CASE Persist \/ Begin \/ BuildContext \/ Complete \/ Fail \/ Die
  <2>1. Fetched /\ UNCHANGED <<meta, fetched, omitted, files, flags>>
    BY <1>6 DEF Persist, Begin, BuildContext, Complete, Fail, Die, snapshot, Fetched, PlaceInv, Running
  <2> QED
    BY <1>1, <2>1
<1>7. CASE UNCHANGED vars
  BY <1>1, <1>7 DEF vars, snapshot, taskRow, Fetched
<1> QED
  BY <1>2, <1>3, <1>4, <1>5, <1>6, <1>7 DEF Next

LEMMA StoredNext == TypeOK /\ PlaceInv /\ StoredInv /\ [Next]_vars => StoredInv'
<1> SUFFICES ASSUME TypeOK, PlaceInv, StoredInv, [Next]_vars PROVE StoredInv'
  OBVIOUS
<1>1. ASSUME UNCHANGED <<fetched, rendered, flags, review>>,
             review # None => context' = context /\ status' # "NONE"
      PROVE  StoredInv'
  <2>1. review # None => Deterministic' = Deterministic /\ Signals' = Signals
    BY <1>1 DEF Deterministic, Signals, Some
  <2> QED
    BY <1>1, <2>1 DEF StoredInv, Built
<1>2. CASE GetMetadata \/ GetFiles \/ SanitizeFile
  BY <1>2 DEF GetMetadata, GetFiles, SanitizeFile, StoredInv, PlaceInv, Accepting, taskRow
<1>3. CASE Complete
  <2>1. /\ UNCHANGED <<fetched, flags, context, Built>> /\ status' = "COMPLETED"
        /\ context = Built
    BY <1>3 DEF Complete, snapshot, PlaceInv, Built
  <2>2. PICK answer \in Answers :
          /\ review'.recommendation = Recommendation(answer)
          /\ Deterministic \subseteq review'.findings
          /\ \A f \in review'.findings : f.severity <= review'.risk
    BY <1>3, WhatIsStored
  <2>3. Deterministic' = Deterministic /\ Signals' = Signals
    BY <2>1 DEF Deterministic, Signals, Some
  <2>4. /\ flags.redacted => review'.recommendation = "BLOCK"
        /\ review'.recommendation = "READY_FOR_HUMAN_REVIEW" =>
             ~flags.suspicious /\ ~flags.truncated /\ ~context.truncated /\ ~Signals.tests
    BY <2>2 DEF Recommendation
  <2> QED
    BY <2>1, <2>2, <2>3, <2>4 DEF StoredInv
<1>4. CASE BuildContext
  BY <1>1, <1>4 DEF BuildContext, snapshot, StoredInv, Built
<1>5. CASE Persist
  BY <1>5 DEF Persist, StoredInv, PlaceInv, Accepting
<1> QED
  BY <1>1, <1>2, <1>3, <1>4, <1>5
  DEF Next, Push, Refuse, Begin, Fail, Finish, Die, vars, snapshot, taskRow, StoredInv

LEMMA StoredInvariant == Spec => [](FlagsInv /\ StoredInv)
<1>1. TypeOK /\ PlaceInv /\ FlagsInv /\ StoredInv /\ [Next]_vars => (FlagsInv /\ StoredInv)'
  BY FlagsNext, StoredNext
<1> QED
  BY <1>1, FlagsInit, PlaceInvariant, PTL DEF Spec

\* A review that is ready for a human had all that was fetched to go by, with
\* no credential, instruction or untested code in it (ADR-014:40-47); nothing
\* was taken out of it unless texts were a credential together only.
THEOREM ReadyWasKept == Spec => []ReadyIsKeptInFull
<1>1. TypeOK /\ PlaceInv /\ SpentInv /\ FlagsInv /\ StoredInv => ReadyIsKeptInFull
  <2> SUFFICES ASSUME TypeOK, PlaceInv, SpentInv, FlagsInv, StoredInv,
                      review # None, review.recommendation = "READY_FOR_HUMAN_REVIEW"
               PROVE  /\ KeptInFull
                      /\ ~meta.secret /\ ~meta.marker
                      /\ \A i \in 1..Len(fetched) : ~fetched[i].secret /\ ~fetched[i].marker
                      /\ Some("code") => Some("test")
                      /\ context.redacted => Joined
    BY DEF ReadyIsKeptInFull
  <2>1. /\ ~flags.redacted /\ ~flags.suspicious /\ ~flags.truncated
        /\ ~context.truncated /\ ~Signals.tests /\ context = Built
        /\ Len(files) = Len(fetched) /\ Fetched /\ rendered \in Renderings
    BY DEF StoredInv, PlaceInv, Fetched
  <2>2. /\ ~meta.secret /\ ~meta.marker /\ ~omitted
        /\ \A i \in 1..Len(fetched) : ~fetched[i].secret /\ ~fetched[i].marker
        /\ \A i \in 1..Len(fetched) : ~files[i].truncated
    BY <2>1 DEF FlagsInv
  <2>3. ASSUME NEW i \in 1..Len(fetched)
        PROVE  /\ files[i].kept = fetched[i].size
               /\ fetched[i].changes > 0 => fetched[i].size > 0
    <3>1. fetched[i] \in File /\ files[i] \in Snapshots
      BY <2>1, ElementOfSeq DEF TypeOK
    <3>2. /\ ~(files[i].kept < fetched[i].size) /\ files[i].kept <= fetched[i].size
          /\ ~(fetched[i].size = 0 /\ fetched[i].changes > 0)
      BY <2>1, <2>2 DEF SpentInv, Cuts
    <3>3. files[i].kept \in Nat /\ fetched[i].size \in Nat
      BY <3>1 DEF File, Snapshots
    <3> QED
      BY <3>2, <3>3
  <2>4. Some("code") => Some("test")
    BY <2>1 DEF Signals
  <2>5. context.redacted => Joined
    BY <2>1 DEF Renderings, Built
  <2> QED
    BY <2>1, <2>2, <2>3, <2>4, <2>5 DEF KeptInFull
<1>2. TypeOK /\ PlaceInv /\ SpentInv /\ [Next]_vars => SpentInv'
  BY SpentNext
<1> QED
  BY <1>1, <1>2, SpentInit, PlaceInvariant, StoredInvariant, PTL DEF Spec

\* What the service finds itself is stored whatever the model says, and a
\* credential blocks (ADR-014:42, 49-51).
THEOREM RequiredFindingsAreKept == Spec => []RequiredFindingsStay
<1>1. PlaceInv /\ FlagsInv /\ StoredInv => RequiredFindingsStay
  <2> SUFFICES ASSUME PlaceInv, FlagsInv, StoredInv, review # None
               PROVE  /\ Deterministic \subseteq review.findings
                      /\ \A f \in review.findings : f.severity <= review.risk
                      /\ meta.secret \/ (\E i \in 1..Len(fetched) : fetched[i].secret) =>
                           /\ review.recommendation = "BLOCK"
                           /\ [name |-> "secret", severity |-> 3] \in review.findings
    BY DEF RequiredFindingsStay
  <2>1. Fetched /\ Len(files) = Len(fetched)
    BY DEF StoredInv, PlaceInv, Fetched
  <2>2. Deterministic \subseteq review.findings /\ (flags.redacted => review.recommendation = "BLOCK")
    BY DEF StoredInv
  <2>3. flags.redacted => [name |-> "secret", severity |-> 3] \in Deterministic
    BY DEF Deterministic, Signals, Severity
  <2> QED
    BY <2>1, <2>2, <2>3 DEF FlagsInv, StoredInv
<1> QED
  BY <1>1, PlaceInvariant, StoredInvariant, PTL
=============================================================================
