------------------------------- MODULE Mirror -------------------------------
(***************************************************************************)
(* Outcomes and reviews, stored in PostgreSQL and mirrored to ClickHouse.  *)
(*                                                                         *)
(* Billing callbacks are handled on the event loop, one at a time; reviews *)
(* of feedback run in threads.  Both commit first and mirror afterwards,   *)
(* at best.  ClickHouse acknowledges an insert before it is flushed        *)
(* (async_insert, wait_for_async_insert = 0), so a row may still be lost.  *)
(* The backfill is a process of its own that copies what is stored.  Rows  *)
(* of feedback_log replace each other by version (read with FINAL); rows   *)
(* of outcome_log are counted with uniqExact and never replaced.           *)
(***************************************************************************)
EXTENDS Integers

CONSTANTS
    Callback,   \* (callback_type, trx_id): what an outcome is unique by
    Content,    \* what a callback says: charged, failed, ...
    Report,     \* rows of feedback
    Admin,      \* threads serving a review
    MaxClock,   \* bound: reviews mirrored
    NoRow

ASSUME NoRowAssumption == NoRow \notin Content
ASSUME TablesAssumption == Callback \cap Report = {}
ASSUME MaxClockAssumption == MaxClock \in Nat

Review == {"accepted", "rejected"}
ReportStatus == {"absent", "pending"} \cup Review
Phase == {"off", "outcomes", "feedback", "done"}

ASSUME NoJobAssumption == NoRow \notin [of : Report, is : Review]

Outcome == [of : Callback, is : Content]
Opinion == [of : Report, is : Review, version : Nat]

VARIABLES
    outcomes,     \* outcomes
    reviews,      \* feedback.review_status
    loop,         \* the outcome committed and to be mirrored, of one callback
    job,          \* for each thread, the review committed and to be mirrored
    clock,        \* time.time_ns(): versions drawn so far
    sent,         \* rows ClickHouse has acknowledged and not flushed
    log,          \* rows of outcome_log and feedback_log
    dropped,      \* callbacks and reports of which an acknowledged row was lost
    missed,       \* reports of which a review was not mirrored
    crossed,      \* history: reports reviewed last while an earlier review of
                  \* theirs was still to be mirrored
    phase, todo,  \* the backfill
    copy          \* the rows it has read

backfill == <<phase, todo, copy>>
api == <<loop, job>>
vars == <<outcomes, reviews, api, clock, sent, log, dropped, missed, crossed, backfill>>

\* A row was handed to ClickHouse, which may have lost it since.
Handed(r) == r \in sent \cup log \/ r.of \in dropped

OutcomeRow(k, x) == [of |-> k, is |-> x]
OpinionRow(f, s, v) == [of |-> f, is |-> s, version |-> v]

TypeOK ==
    /\ outcomes \in [Callback -> Content \cup {NoRow}]
    /\ reviews \in [Report -> ReportStatus]
    /\ loop \in Outcome \cup {NoRow}
    /\ job \in [Admin -> [of : Report, is : Review] \cup {NoRow}]
    /\ clock \in Nat
    /\ sent \cup log \cup todo \cup copy \subseteq Outcome \cup Opinion
    /\ dropped \subseteq Callback \cup Report
    /\ missed \cup crossed \subseteq Report
    /\ phase \in Phase

\* The mirror is deployed on a system with outcomes and reviews of its own.
Init ==
    /\ outcomes \in [Callback -> Content \cup {NoRow}]
    /\ reviews \in [Report -> ReportStatus]
    /\ loop = NoRow
    /\ job = [a \in Admin |-> NoRow]
    /\ clock = 0
    /\ sent = {}
    /\ log = {}
    /\ dropped = {}
    /\ missed = {f \in Report : reviews[f] \in Review}
    /\ crossed = {}
    /\ phase = "off"
    /\ todo = {}
    /\ copy = {}

-----------------------------------------------------------------------------
(* Slips: mistakes an operator below could have. *)

\* Genuine, a repeated callback mirrored like the first.
GenuineAlways(k) == TRUE

\* BackfillVersion, stamped with the time of the copy.
BackfillVersionNow == clock + 1

\* PhaseAfterFailure, the exception logged and the copy reported complete.
PhaseAfterFailureDone == "done"

-----------------------------------------------------------------------------
(* POST /v1/callback/billing. *)

\* INSERT ... ON CONFLICT DO NOTHING returned a row.
Genuine(k) == outcomes[k] = NoRow

\* A callback, perhaps repeated and then perhaps saying something else.
Record(k, x) ==
    /\ loop = NoRow
    /\ outcomes' = IF outcomes[k] = NoRow THEN [outcomes EXCEPT ![k] = x] ELSE outcomes
    /\ loop' = IF Genuine(k) THEN OutcomeRow(k, x) ELSE NoRow
    /\ UNCHANGED <<reviews, job, clock, sent, log, dropped, missed, crossed, backfill>>

MirrorOutcome ==
    /\ loop # NoRow
    /\ sent' = sent \cup {loop}
    /\ loop' = NoRow
    /\ UNCHANGED <<outcomes, reviews, job, clock, log, dropped, missed, crossed, backfill>>

\* The insert raises: logged and forgotten.
OutcomeNotMirrored ==
    /\ loop # NoRow
    /\ loop' = NoRow
    /\ UNCHANGED <<outcomes, reviews, job, clock, sent, log, dropped, missed, crossed, backfill>>

-----------------------------------------------------------------------------
(* POST /v1/feedback and PUT /v1/admin/feedback/{id}/review. *)

SubmitFeedback(f) ==
    /\ reviews[f] = "absent"
    /\ reviews' = [reviews EXCEPT ![f] = "pending"]
    /\ UNCHANGED <<outcomes, api, clock, sent, log, dropped, missed, crossed, backfill>>

\* A review of the report waits to be mirrored.
UnderWay(f) == \E a \in Admin : job[a] # NoRow /\ job[a].of = f

\* A report can be reviewed again, also by two administrators at once.
ReviewFeedback(a, f, s) ==
    /\ job[a] = NoRow
    /\ reviews[f] # "absent"
    /\ reviews' = [reviews EXCEPT ![f] = s]
    /\ job' = [job EXCEPT ![a] = [of |-> f, is |-> s]]
    /\ crossed' = IF UnderWay(f) THEN crossed \cup {f} ELSE crossed \ {f}
    /\ UNCHANGED <<outcomes, loop, clock, sent, log, dropped, missed, backfill>>

\* version = time.time_ns(), drawn after the commit.
MirrorReview(a) ==
    /\ job[a] # NoRow
    /\ clock < MaxClock
    /\ clock' = clock + 1
    /\ sent' = sent \cup {OpinionRow(job[a].of, job[a].is, clock + 1)}
    /\ job' = [job EXCEPT ![a] = NoRow]
    /\ UNCHANGED <<outcomes, reviews, loop, log, dropped, missed, crossed, backfill>>

ReviewNotMirrored(a) ==
    /\ job[a] # NoRow
    /\ missed' = missed \cup {job[a].of}
    /\ job' = [job EXCEPT ![a] = NoRow]
    /\ UNCHANGED <<outcomes, reviews, loop, clock, sent, log, dropped, crossed, backfill>>

\* The API process dies between the commits and the mirror.
Restart ==
    /\ missed' = missed \cup {job[a].of : a \in {b \in Admin : job[b] # NoRow}}
    /\ loop' = NoRow
    /\ job' = [a \in Admin |-> NoRow]
    /\ UNCHANGED <<outcomes, reviews, clock, sent, log, dropped, crossed, backfill>>

-----------------------------------------------------------------------------
(* ClickHouse, as the asynchronous inserts use it. *)

Flush(r) ==
    /\ sent' = sent \ {r}
    /\ log' = log \cup {r}
    /\ UNCHANGED <<outcomes, reviews, api, clock, dropped, missed, crossed, backfill>>

Drop(r) ==
    /\ sent' = sent \ {r}
    /\ dropped' = dropped \cup {r.of}
    /\ UNCHANGED <<outcomes, reviews, api, clock, log, missed, crossed, backfill>>

-----------------------------------------------------------------------------
(* python -m aegis.jobs.backfill_olap_mirror. *)

StoredOutcomes ==
    {OutcomeRow(k, outcomes[k]) : k \in {c \in Callback : outcomes[c] # NoRow}}

\* created_at in seconds: below every time.time_ns().
BackfillVersion == 0

StoredReviews ==
    {OpinionRow(f, reviews[f], BackfillVersion) : f \in {g \in Report : reviews[g] \in Review}}

StartBackfill ==
    /\ phase \in {"off", "done"}
    /\ phase' = "outcomes"
    /\ todo' = StoredOutcomes
    /\ copy' = StoredOutcomes
    /\ UNCHANGED <<outcomes, reviews, api, clock, sent, log, dropped, missed, crossed>>

CopyRow(r) ==
    /\ sent' = sent \cup {r}
    /\ todo' = todo \ {r}
    /\ UNCHANGED <<outcomes, reviews, api, clock, log, dropped, missed, crossed, phase, copy>>

\* backfill_outcomes is done; backfill_feedback reads the reviews.
ReadReviews ==
    /\ phase = "outcomes"
    /\ todo = {}
    /\ phase' = "feedback"
    /\ todo' = StoredReviews
    /\ copy' = copy \cup StoredReviews
    /\ UNCHANGED <<outcomes, reviews, api, clock, sent, log, dropped, missed, crossed>>

FinishBackfill ==
    /\ phase = "feedback"
    /\ todo = {}
    /\ phase' = "done"
    /\ UNCHANGED <<outcomes, reviews, api, clock, sent, log, dropped, missed, crossed, todo, copy>>

PhaseAfterFailure == "off"

\* An exception ends the program.
BackfillFails ==
    /\ phase \in {"outcomes", "feedback"}
    /\ phase' = PhaseAfterFailure
    /\ todo' = {}
    /\ UNCHANGED <<outcomes, reviews, api, clock, sent, log, dropped, missed, crossed, copy>>

-----------------------------------------------------------------------------
Callbacks ==
    \/ \E k \in Callback, x \in Content : Record(k, x)
    \/ MirrorOutcome
    \/ OutcomeNotMirrored

Reviews ==
    \/ \E f \in Report : SubmitFeedback(f)
    \/ \E a \in Admin, f \in Report, s \in Review : ReviewFeedback(a, f, s)
    \/ \E a \in Admin : MirrorReview(a)
    \/ \E a \in Admin : ReviewNotMirrored(a)

Api == Callbacks \/ Reviews \/ Restart

Olap == \E r \in sent : Flush(r) \/ Drop(r)

Backfill ==
    \/ StartBackfill
    \/ \E r \in todo : CopyRow(r)
    \/ ReadReviews
    \/ FinishBackfill
    \/ BackfillFails

Next == Api \/ Olap \/ Backfill

Spec == Init /\ [][Next]_vars

-----------------------------------------------------------------------------
(* Properties. *)

\* Whatever callbacks are repeated and however the backfill runs, the mirror
\* holds only the outcome stored: uniqExact counts a transaction as charged or
\* as failed, not as both.
OutcomeLogAgrees ==
    \A r \in sent \cup log : r.of \in Callback => outcomes[r.of] = r.is

\* A backfill that ends without an exception has handed over every outcome and
\* every review it found, whatever failed before.
BackfillComplete == phase = "done" => \A r \in copy : Handed(r)

\* Nothing of the report is under way, and nothing of it was lost.
Settled(f) ==
    /\ f \notin missed \cup dropped
    /\ ~UnderWay(f)
    /\ \A r \in sent : r.of # f

\* What SELECT ... FROM feedback_log FINAL returns of a report.
InForce(f) ==
    {r.is : r \in {q \in log : q.of = f /\ \A p \in log : p.of = f => p.version <= q.version}}

\* "review terbaru menang" (feedback.py:39): once settled, a reviewed report
\* is mirrored with the review stored, whoever reviewed it before, in whatever
\* order the rows arrive, and although a backfill may have copied an older
\* review meanwhile.  It takes a last review begun after the one before it was
\* mirrored: two that cross may draw their versions against the order of their
\* commits, and the mirror then keeps the older one until the report is
\* reviewed again.
LatestReviewWins ==
    \A f \in Report :
        Settled(f) /\ f \notin crossed /\ reviews[f] \in Review => InForce(f) = {reviews[f]}

-----------------------------------------------------------------------------
(* The inductive invariant behind them. *)

\* The loop mirrors what it has stored, the backfill what it has read.
Faithful ==
    /\ \A r \in sent \cup log \cup copy : r.of \in Callback => outcomes[r.of] = r.is
    /\ loop # NoRow => outcomes[loop.of] = loop.is
    /\ todo \subseteq copy

\* Rows read are to be copied or have been.
Copied ==
    /\ phase \in {"outcomes", "feedback", "done"} => \A r \in copy : r \in todo \/ Handed(r)
    /\ phase = "done" => todo = {}

IndInv == TypeOK /\ Faithful /\ Copied
=============================================================================
