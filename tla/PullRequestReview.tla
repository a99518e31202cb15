-------------------------- MODULE PullRequestReview --------------------------
(***************************************************************************)
(* The review of one GitHub pull request, from its two requests to GitHub  *)
(* (github_pull_requests.py) over the sanitizer's patch budget and the     *)
(* context's token budget (pull_request_reviews.py, context.py) to what    *)
(* the agent makes of the model's answer (agents/pull_request_review.py),  *)
(* with the job run again after a crash (ADR-017).                         *)
(*                                                                         *)
(* A text is its length after sanitize_context_text, and what was found in *)
(* it: a credential (secret) or an instruction marker (marker).  A part is *)
(* none by itself, but is one in the JSON of the snapshot, such as either  *)
(* marker of a private key, or a label at the end of a text: the context   *)
(* engine sanitizes that JSON once more, as one text.                      *)
(***************************************************************************)
EXTENDS Naturals, Sequences, FiniteSets

CONSTANTS
    Revisions,      \* what the pull request may consist of: sequences of files
    MaxFiles,       \* GITHUB_PR_MAX_FILES, also the page size asked for
    MaxPatch,       \* GITHUB_PR_MAX_PATCH_CHARS
    MaxContext,     \* characters one context source may have
    Overheads,      \* lengths of the snapshot's JSON without its patches
    MaxFindings,    \* 100
    Proposals,      \* findings the model may propose
    MaxAttempts,    \* WORKER_MAX_ATTEMPTS
    None

Kinds == {"code", "test", "other"}
File  == [size : Nat, changes : Nat, secret : BOOLEAN, marker : BOOLEAN,
          part : BOOLEAN, kind : Kinds, sensitive : BOOLEAN]

Names == {"secret", "marker", "diff", "tests", "surface", "context", "other"}
Risks == 0..3       \* _RISK_ORDER: LOW, MEDIUM, HIGH, CRITICAL
Recommendations == {"READY_FOR_HUMAN_REVIEW", "CHANGES_REQUIRED", "BLOCK"}
Findings == [name : Names, severity : Risks]

ASSUME ReviewConstantsOK ==
    /\ Revisions \subseteq Seq(File)
    /\ MaxFiles \in 1..100
    /\ MaxPatch \in Nat \ {0} /\ MaxContext \in Nat \ {0}
    /\ Overheads \subseteq Nat
    /\ MaxFindings \in Nat \ 0..5         \* there are 6 required findings
    /\ Proposals \subseteq Findings /\ IsFiniteSet(Proposals)
    /\ MaxAttempts \in Nat \ {0}

VARIABLES
    head,       \* the files of the pull request at GitHub
    pc,         \* where the acceptance and then the job is
    meta,       \* the metadata response: its count of files, what its texts hold
    fetched,    \* the files taken from the second response
    omitted,    \* files_truncated
    files,      \* the snapshots of the files so far: kept characters, truncated
    left,       \* the rest of the patch budget
    length,     \* the length of the snapshot's JSON
    rendered,   \* what sanitizing that JSON does: redacts it, fits the context
    flags,      \* redacted, suspicious_instruction and truncated of the snapshot
    status,     \* tasks.status
    attempt,    \* task_jobs.attempts
    context,    \* tasks.context_bundle: whether it is truncated, and whether
                \* its source is redacted
    review      \* tasks.pull_request_review

snapshot == <<meta, fetched, omitted, files, left, length, flags, rendered>>
taskRow  == <<status, context, review>>
vars == <<head, pc, snapshot, taskRow, attempt>>

Init ==
    /\ head \in Revisions
    /\ pc      = "metadata"
    /\ meta    = None
    /\ fetched = <<>>
    /\ omitted = FALSE
    /\ files   = <<>>
    /\ left    = MaxPatch
    /\ length \in Overheads
    /\ rendered = None
    /\ flags   = [redacted |-> FALSE, suspicious |-> FALSE, truncated |-> FALSE]
    /\ status  = "NONE"
    /\ attempt = 0
    /\ context = None
    /\ review  = None

\* The author pushes between the two requests; what is pushed before or after
\* them makes no difference.
Push ==
    /\ pc = "files"
    /\ head' \in Revisions
    /\ UNCHANGED <<pc, snapshot, taskRow, attempt>>

-----------------------------------------------------------------------------
(* accept_pull_request_review                                              *)

\* The first request: changed_files, and title, body and author; a part may be
\* in a ref too, whose redaction raises no flag.
GetMetadata ==
    /\ pc = "metadata"
    /\ pc' = "files"
    /\ \E secret, marker, part \in BOOLEAN :
         meta' = [changed |-> Len(head), secret |-> secret, marker |-> marker, part |-> part]
    /\ UNCHANGED <<head, fetched, omitted, files, left, length, flags, rendered,
                   taskRow, attempt>>

Page(s, n) == SubSeq(s, 1, IF Len(s) < n THEN Len(s) ELSE n)

\* The second request: GitHub honours per_page or answers with more, and no
\* more than max_files are taken.
GetFiles ==
    /\ pc = "files"
    /\ pc' = "sanitize"
    /\ \E payload \in {head, Page(head, MaxFiles)} :
         /\ fetched' = Page(payload, MaxFiles)
         /\ omitted' = (meta.changed > Len(fetched') \/ Len(payload) > MaxFiles)
    /\ flags' = [redacted |-> meta.secret, suspicious |-> meta.marker,
                 truncated |-> omitted']
    /\ UNCHANGED <<head, meta, files, left, length, rendered, taskRow, attempt>>

\* An error of GitHub, an invalid payload or an empty identity: no task.
Refuse ==
    /\ pc \in {"metadata", "files", "sanitize"}
    /\ pc' = "end"
    /\ UNCHANGED <<head, snapshot, taskRow, attempt>>

\* Mutant: a patch that does not fit is reported but kept whole.
KeptWhole(f) == f.size
\* The characters of a file's patch that fit.
Kept(f) == IF f.size < left THEN f.size ELSE left

\* Mutant: the budget is checked for each file, not over all of them.
SpendNothing(k) == left
\* What is left of the budget after a file of which k characters are kept.
Spend(k) == left - k

\* A patch that does not fit, or that GitHub left out of a changed file.
Truncated(f) == f.size > left \/ (f.size = 0 /\ f.changes > 0)

\* Mutant: the flag is that of the last file.
OfLast(old, new) == new
\* any_... or ...
Or(old, new) == old \/ new

\* One turn of sanitize_github_pull_request's loop.  In the JSON a character
\* of a patch takes one place, or two if it is escaped.
SanitizeFile ==
    /\ pc = "sanitize" /\ Len(files) < Len(fetched)
    /\ LET f    == fetched[Len(files) + 1]
           kept == Kept(f)
       IN  /\ files' = Append(files, [kept |-> kept, truncated |-> Truncated(f)])
           /\ left'  = Spend(kept)
           /\ \E escaped \in 0..kept : length' = length + kept + escaped
           /\ flags' = [redacted   |-> Or(flags.redacted, f.secret),
                        suspicious |-> Or(flags.suspicious, f.marker),
                        truncated  |-> Or(flags.truncated, Truncated(f))]
    /\ UNCHANGED <<head, pc, meta, fetched, omitted, rendered, taskRow, attempt>>

Joined == meta.part \/ \E i \in 1..Len(fetched) : fetched[i].part

\* What the sanitizer can make of the whole JSON.  A cut may take a part away
\* or leave one, and what is redacted already can match once more with what
\* follows it; where it redacts, the length changes either way.
Renderings ==
    {r \in [redacted : BOOLEAN, fits : BOOLEAN] :
        /\ ~flags.redacted /\ ~flags.truncated => (r.redacted <=> Joined)
        /\ ~r.redacted => (r.fits <=> length <= MaxContext)}

\* The task, its snapshot and its job are committed together; from here on the
\* snapshot is read only, and every attempt renders it in the same way.
Persist ==
    /\ pc = "sanitize" /\ Len(files) = Len(fetched)
    /\ pc' = "queued"
    /\ status' = "QUEUED"
    /\ rendered' \in Renderings
    /\ UNCHANGED <<head, meta, fetched, omitted, files, left, length, flags,
                   context, review, attempt>>

-----------------------------------------------------------------------------
(* run_pull_request_review                                                 *)

Begin ==
    /\ pc = "queued"
    /\ pc' = "context"
    /\ attempt' = attempt + 1
    /\ status' = "ANALYZING_PULL_REQUEST"
    /\ UNCHANGED <<head, snapshot, context, review>>

\* ContextEngine.build of the one source, and the commit of the bundle; the
\* source has its redaction in a flag of its own.
BuildContext ==
    /\ pc = "context"
    /\ pc' = "agent"
    /\ context' = [truncated |-> ~rendered.fits, redacted |-> rendered.redacted]
    /\ UNCHANGED <<head, snapshot, status, review, attempt>>

Some(kind) == \E i \in 1..Len(fetched) : fetched[i].kind = kind

\* What the locally enforced findings are raised by.
Signals == [secret  |-> flags.redacted,
            marker  |-> flags.suspicious,
            diff    |-> flags.truncated,
            tests   |-> Some("code") /\ ~Some("test"),
            surface |-> \E i \in 1..Len(fetched) : fetched[i].sensitive,
            context |-> context.truncated]
Severity == [secret |-> 3, marker |-> 2, diff |-> 2, tests |-> 1, surface |-> 1,
             context |-> 2]

\* _deterministic_findings and _context_truncation_finding
Deterministic ==
    {[name |-> n, severity |-> Severity[n]] : n \in {m \in DOMAIN Signals : Signals[m]}}

\* What the model (or _run_stub, one of these) may answer.
Answers == [recommendation : Recommendations, risk : Risks,
            findings : SUBSET Proposals]

Named(fs) == {f.name : f \in fs}
\* At most n of the findings fs, and all of them if they fit.
Cut(fs, n) == {kept \in SUBSET fs : Cardinality(kept) =
                                       IF Cardinality(fs) < n THEN Cardinality(fs) ELSE n}

\* Mutant: the model's findings come first, and its wording wins.
ProposedFirst(required, proposed) ==
    {proposed \cup kept :
        kept \in Cut({f \in required : f.name \notin Named(proposed)},
                     MaxFindings - Cardinality(proposed))}
\* _merge_findings: the required findings, then the proposals with another
\* identity, cut at MaxFindings.
Merged(required, proposed) ==
    {required \cup kept :
        kept \in Cut({f \in proposed : f.name \notin Named(required)},
                     MaxFindings - Cardinality(required))}

\* The highest risk of the answer and of the findings.
RiskLevel(answer, findings) ==
    CHOOSE r \in Risks :
        /\ r \in {answer.risk} \cup {f.severity : f \in findings}
        /\ answer.risk <= r /\ \A f \in findings : f.severity <= r

\* Mutant: a truncated context is reported but changes nothing.
IgnoringContext(answer) ==
    IF flags.redacted THEN "BLOCK"
    ELSE IF flags.suspicious \/ flags.truncated \/ Signals.tests THEN "CHANGES_REQUIRED"
    ELSE answer.recommendation
\* The locally enforced recommendation, else the model's.
Recommendation(answer) ==
    IF flags.redacted THEN "BLOCK"
    ELSE IF flags.suspicious \/ flags.truncated \/ context.truncated \/ Signals.tests
    THEN "CHANGES_REQUIRED"
    ELSE answer.recommendation

\* The agent, and the commit of its review with the status
Complete ==
    /\ pc = "agent"
    /\ pc' = "events"
    /\ status' = "COMPLETED"
    /\ \E answer \in Answers :
         \E findings \in Merged(Deterministic, answer.findings) :
             review' = [recommendation |-> Recommendation(answer),
                        risk           |-> RiskLevel(answer, findings),
                        findings       |-> findings]
    /\ UNCHANGED <<head, snapshot, context, attempt>>

\* An exception of the agent or the database: _fail_task, also after the
\* review is committed.
Fail ==
    /\ pc \in {"context", "agent", "events"}
    /\ pc' = "end"
    /\ status' = "FAILED"
    /\ UNCHANGED <<head, snapshot, context, review, attempt>>

\* The last events are recorded and the job finishes.
Finish ==
    /\ pc = "events"
    /\ pc' = "end"
    /\ UNCHANGED <<head, snapshot, taskRow, attempt>>

\* The worker dies: its job is queued again, whatever it had committed, or
\* given up with its task (reap_expired_jobs).
Die ==
    /\ pc \in {"context", "agent", "events"}
    /\ IF attempt < MaxAttempts THEN pc' = "queued" /\ UNCHANGED status
       ELSE pc' = "end" /\ status' = "FAILED"
    /\ UNCHANGED <<head, snapshot, context, review, attempt>>

Next ==
    \/ Push \/ GetMetadata \/ GetFiles \/ Refuse \/ SanitizeFile \/ Persist
    \/ Begin \/ BuildContext \/ Complete \/ Fail \/ Finish \/ Die

Spec == Init /\ [][Next]_vars

-----------------------------------------------------------------------------
(* Properties.                                                             *)

Snapshots == [kept : Nat, truncated : BOOLEAN]

\* Type invariant; the patch budget is never overdrawn.
TypeOK ==
    /\ head \in Revisions
    /\ pc \in {"metadata", "files", "sanitize", "queued", "context", "agent",
               "events", "end"}
    /\ meta \in [changed : Nat, secret : BOOLEAN, marker : BOOLEAN, part : BOOLEAN] \cup {None}
    /\ fetched \in Seq(File) /\ files \in Seq(Snapshots)
    /\ omitted \in BOOLEAN
    /\ left \in 0..MaxPatch /\ length \in Nat
    /\ flags \in [redacted : BOOLEAN, suspicious : BOOLEAN, truncated : BOOLEAN]
    /\ rendered \in [redacted : BOOLEAN, fits : BOOLEAN] \cup {None}
    /\ status \in {"NONE", "QUEUED", "ANALYZING_PULL_REQUEST", "COMPLETED", "FAILED"}
    /\ attempt \in 0..MaxAttempts
    /\ context \in [truncated : BOOLEAN, redacted : BOOLEAN] \cup {None}
    /\ review \in [recommendation : Recommendations, risk : Risks,
                   findings : SUBSET Findings] \cup {None}

\* The budget is spent in the order of the files: once a patch is cut, every
\* later file is kept empty, and is reported if it had anything to keep
\* (pull_request_reviews.py:67-70).  It bounds the model's input (ADR-014:61):
\* the snapshot is as long as its own text and twice what is spent, escapes
\* included.
BudgetInOrder ==
    /\ \A i, j \in 1..Len(files) :
           i < j /\ files[i].kept < fetched[i].size =>
               files[j].kept = 0 /\ (fetched[j].size > 0 => files[j].truncated)
    /\ \E o \in Overheads : length <= o + 2 * (MaxPatch - left)

\* The snapshot keeps all that was fetched of the pull request, and the context
\* cuts nothing off it.
KeptInFull ==
    /\ ~omitted /\ ~context.truncated
    /\ Len(files) = Len(fetched)
    /\ \A i \in 1..Len(fetched) :
         /\ files[i].kept = fetched[i].size
         /\ fetched[i].changes > 0 => fetched[i].size > 0

\* Whatever the model answers and however often the job is run again, a review
\* that says READY_FOR_HUMAN_REVIEW had everything that was fetched to go by,
\* and no text of it held a credential, an instruction or code without tests
\* (ADR-014:40-47).  Nothing was taken out of it on the way, but where texts
\* were a credential together only.
ReadyIsKeptInFull ==
    review # None /\ review.recommendation = "READY_FOR_HUMAN_REVIEW" =>
        /\ KeptInFull
        /\ ~meta.secret /\ ~meta.marker
        /\ \A i \in 1..Len(fetched) : ~fetched[i].secret /\ ~fetched[i].marker
        /\ Some("code") => Some("test")
        /\ context.redacted => Joined

\* The model's wording never replaces a required finding, and the risk is at
\* least that of every finding that is stored (ADR-014:49-51).  So a credential
\* in the title, the body, the author or any file, through the sanitizer's loop
\* and the merge, blocks with a critical finding (ADR-014:42); one in a ref is
\* redacted, not flagged.
RequiredFindingsStay ==
    review # None =>
        /\ Deterministic \subseteq review.findings
        /\ \A f \in review.findings : f.severity <= review.risk
        /\ meta.secret \/ (\E i \in 1..Len(fetched) : fetched[i].secret) =>
               /\ review.recommendation = "BLOCK"
               /\ [name |-> "secret", severity |-> 3] \in review.findings

\* "detected credential-like content produces a critical finding and `BLOCK`"
\* (ADR-014:42): where the sanitizer of the context detects some, the review
\* does not say READY.
RedactedContextBlocks ==
    review # None /\ review.recommendation = "READY_FOR_HUMAN_REVIEW" => ~context.redacted

\* "Reviews with omitted patches, files, or detected secrets fail closed at
\* the recommendation layer" (ADR-014:76-77): a review that says READY has all
\* the files the pull request had when its files were read.
OmittedFilesFailClosed ==
    review # None /\ review.recommendation = "READY_FOR_HUMAN_REVIEW" =>
        Len(fetched) >= Len(head)
=============================================================================
