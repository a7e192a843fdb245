---------------------------- MODULE MirrorProofs ----------------------------
(***************************************************************************)
(* Proofs about Mirror: whatever is repeated, lost or copied, the mirror   *)
(* holds only outcomes that are stored, a completed backfill has handed    *)
(* over all it read, and the latest review wins unless it crossed another. *)
(***************************************************************************)
EXTENDS Mirror, TLAPS

LEMMA InitIndInv == Init => IndInv
BY DEF Init, IndInv, TypeOK, Faithful, Copied, Handed, ReportStatus, Phase

LEMMA StutterIndInv ==
    ASSUME IndInv, UNCHANGED vars
    PROVE  IndInv'
BY DEF IndInv, TypeOK, Faithful, Copied, Handed, vars, api, backfill

\* A row of the loop is an outcome that was stored just now or before.
LEMMA RecordIndInv ==
    ASSUME IndInv, NEW k \in Callback, NEW x \in Content, Record(k, x)
    PROVE  IndInv'
<1> USE NoRowAssumption DEF IndInv, Handed
<1>1. CASE outcomes[k] = NoRow
  <2>1. /\ outcomes' = [outcomes EXCEPT ![k] = x]
        /\ loop' = OutcomeRow(k, x)
        /\ UNCHANGED <<reviews, job, clock, sent, log, dropped, missed, crossed, phase, todo, copy>>
    BY <1>1 DEF Record, Genuine, backfill
  <2>2. TypeOK'
    BY <2>1 DEF TypeOK, OutcomeRow, Outcome, Opinion
  <2>3. \A r \in sent \cup log \cup copy : r.of = k => r.of \notin Callback
    <3>1. ASSUME NEW r \in sent \cup log \cup copy, r.of = k, r.of \in Callback PROVE FALSE
      <4>1. outcomes[k] = r.is
        BY <3>1 DEF Faithful
      <4>2. r \in Outcome \cup Opinion
        BY <3>1 DEF TypeOK
      <4>3. r \in Outcome
        BY <3>1, <4>2, TablesAssumption DEF Opinion
      <4> QED
        BY <1>1, <4>1, <4>3 DEF Outcome
    <3> QED
      BY <3>1
  <2>4. Faithful'
    BY <2>1, <2>3 DEF Faithful, TypeOK, OutcomeRow
  <2> QED
    BY <2>1, <2>2, <2>4 DEF Copied
<1>2. CASE outcomes[k] # NoRow
  <2>1. /\ UNCHANGED <<outcomes, reviews, job, clock, sent, log, dropped, missed, crossed, phase, todo,
                       copy>>
        /\ loop' = NoRow
    BY <1>2 DEF Record, Genuine, backfill
  <2> QED
    BY <2>1 DEF TypeOK, Faithful, Copied
<1> QED
  BY <1>1, <1>2

LEMMA ApiIndInv ==
    ASSUME IndInv, Api
    PROVE  IndInv'
<1> USE DEF IndInv, Handed, backfill, api
<1>1. ASSUME NEW k \in Callback, NEW x \in Content, Record(k, x) PROVE IndInv'
  BY <1>1, RecordIndInv
<1>2. CASE MirrorOutcome
  BY <1>2 DEF MirrorOutcome, TypeOK, Faithful, Copied
<1>3. CASE OutcomeNotMirrored
  BY <1>3 DEF OutcomeNotMirrored, TypeOK, Faithful, Copied
<1>4. ASSUME NEW f \in Report, SubmitFeedback(f) PROVE IndInv'
  BY <1>4 DEF SubmitFeedback, TypeOK, Faithful, Copied, ReportStatus
<1>5. ASSUME NEW a \in Admin, NEW f \in Report, NEW s \in Review, ReviewFeedback(a, f, s)
      PROVE  IndInv'
  BY <1>5 DEF ReviewFeedback, TypeOK, Faithful, Copied, ReportStatus
<1>6. ASSUME NEW a \in Admin, MirrorReview(a) PROVE IndInv'
  <2>1. job[a] \in [of : Report, is : Review]
    BY <1>6 DEF MirrorReview, TypeOK
  <2> DEFINE r == OpinionRow(job[a].of, job[a].is, clock + 1)
  <2>2. r \in Opinion /\ r.of \notin Callback
    BY <2>1, TablesAssumption DEF OpinionRow, Opinion, TypeOK
  <2>3. /\ sent' = sent \cup {r}
        /\ clock' = clock + 1
        /\ job' = [job EXCEPT ![a] = NoRow]
        /\ UNCHANGED <<outcomes, reviews, loop, log, dropped, missed, crossed, phase, todo, copy>>
    BY <1>6 DEF MirrorReview
  <2> HIDE DEF r
  <2> QED
    BY <2>2, <2>3 DEF TypeOK, Faithful, Copied
<1>7. ASSUME NEW a \in Admin, ReviewNotMirrored(a) PROVE IndInv'
  BY <1>7 DEF ReviewNotMirrored, TypeOK, Faithful, Copied
<1>8. CASE Restart
  BY <1>8 DEF Restart, TypeOK, Faithful, Copied
<1> QED
  BY <1>1, <1>2, <1>3, <1>4, <1>5, <1>6, <1>7, <1>8 DEF Api, Callbacks, Reviews

LEMMA OlapIndInv ==
    ASSUME IndInv, Olap
    PROVE  IndInv'
<1>1. PICK r \in sent : Flush(r) \/ Drop(r)
  BY DEF Olap
<1>2. r \in Outcome \cup Opinion /\ r.of \in Callback \cup Report
  BY DEF IndInv, TypeOK, Outcome, Opinion
<1>3. CASE Flush(r)
  BY <1>3 DEF Flush, IndInv, TypeOK, Faithful, Copied, Handed, backfill, api
<1>4. CASE Drop(r)
  <2>1. /\ sent' = sent \ {r}
        /\ dropped' = dropped \cup {r.of}
        /\ UNCHANGED <<outcomes, reviews, loop, job, clock, log, missed, crossed, phase, todo, copy>>
    BY <1>4 DEF Drop, backfill, api
  <2>2. TypeOK'
    BY <1>2, <2>1 DEF IndInv, TypeOK
  <2>3. Faithful'
    BY <2>1 DEF IndInv, Faithful
  <2>4. Copied'
    BY <2>1 DEF IndInv, Copied, Handed
  <2> QED
    BY <2>2, <2>3, <2>4 DEF IndInv
<1> QED
  BY <1>1, <1>3, <1>4

LEMMA StoredRows ==
    ASSUME TypeOK
    PROVE  /\ StoredOutcomes \subseteq Outcome
           /\ \A r \in StoredOutcomes : outcomes[r.of] = r.is
           /\ StoredReviews \subseteq Opinion
           /\ \A r \in StoredReviews : r.of \notin Callback
BY TablesAssumption
   DEF TypeOK, StoredOutcomes, OutcomeRow, Outcome, StoredReviews, OpinionRow, Opinion,
       BackfillVersion

LEMMA BackfillIndInv ==
    ASSUME IndInv, Backfill
    PROVE  IndInv'
<1> USE DEF IndInv, Handed, api, TypeOK, Faithful, Copied, Phase
<1>1. CASE StartBackfill
  BY <1>1, StoredRows DEF StartBackfill
<1>2. ASSUME NEW r \in todo, CopyRow(r) PROVE IndInv'
  BY <1>2 DEF CopyRow
<1>3. CASE ReadReviews
  BY <1>3, StoredRows DEF ReadReviews
<1>4. CASE FinishBackfill
  BY <1>4 DEF FinishBackfill
<1>5. CASE BackfillFails
  BY <1>5 DEF BackfillFails, PhaseAfterFailure
<1> QED
  BY <1>1, <1>2, <1>3, <1>4, <1>5 DEF Backfill

-----------------------------------------------------------------------------
\* The inductive invariant holds in every reachable state, for any number of
\* callbacks, reports and administrators.
THEOREM Inductive == Spec => []IndInv
<1>1. IndInv /\ [Next]_vars => IndInv'
  BY StutterIndInv, ApiIndInv, OlapIndInv, BackfillIndInv DEF Next
<1> QED
  BY <1>1, InitIndInv, PTL DEF Spec

\* The mirror's outcomes are the stored ones: labeling.py mirrors an outcome
\* only when its insert was genuine.
THEOREM OutcomesMirrored == Spec => []OutcomeLogAgrees
<1>1. IndInv => OutcomeLogAgrees
  BY DEF IndInv, Faithful, OutcomeLogAgrees, Handed
<1> QED
  BY <1>1, Inductive, PTL

\* A backfill that ends without an exception has handed over all it read.
THEOREM BackfillsComplete == Spec => []BackfillComplete
<1>1. IndInv => BackfillComplete
  BY DEF IndInv, Copied, BackfillComplete
<1> QED
  BY <1>1, Inductive, PTL

-----------------------------------------------------------------------------
(* The latest review wins, but for reviews that cross.                     *)

\* The mirror has, or will have, a row that bears the review stored and whose
\* version no row of the report exceeds.
Topped(f) ==
    \E r \in sent \cup log :
        /\ r.of = f /\ r.is = reviews[f] /\ r.version > 0
        /\ \A q \in sent \cup log : q.of = f => q.version <= r.version

\* Versions drawn are distinct and the backfill's is below them; the review
\* under way of a report that is not crossed is the only one, and the one
\* stored.
Versions ==
    /\ \A r \in sent \cup log : r.of \in Report => r.version <= clock
    /\ \A r, q \in sent \cup log :
          r.of \in Report /\ r.of = q.of /\ r.version = q.version /\ r.version > 0 => r = q
    /\ \A r \in copy : r.of \in Report => r.version = 0
    /\ \A a \in Admin : job[a] # NoRow => reviews[job[a].of] \in Review
    /\ \A a \in Admin : job[a] # NoRow /\ job[a].of \notin crossed =>
          /\ reviews[job[a].of] = job[a].is
          /\ \A b \in Admin : job[b] # NoRow /\ job[b].of = job[a].of => b = a
    /\ \A f \in Report :
          reviews[f] \in Review /\ f \notin missed \cup dropped \cup crossed /\ ~UnderWay(f)
          => Topped(f)

\* The rows of a report are opinions.
LEMMA RowsOfReports ==
    ASSUME TypeOK, NEW r \in sent \cup log \cup todo \cup copy, r.of \in Report
    PROVE  r \in Opinion /\ r.version \in Nat
BY TablesAssumption DEF TypeOK, Outcome, Opinion

\* The rows handed over are the same set, or one joins that is of no report
\* or bears the backfill's version.
LEMMA HarmlessRow ==
    ASSUME TypeOK, Versions, UNCHANGED <<reviews, job, clock, missed, crossed, dropped>>,
           NEW x, x.of \in Report => x.version = 0,
           sent' \cup log' = (sent \cup log) \cup {x} \/ sent' \cup log' = sent \cup log,
           \A r \in copy' : r.of \in Report => r.version = 0
    PROVE  Versions'
<1>1. clock \in Nat
  BY DEF TypeOK
<1>2. \A r \in sent' \cup log' : r.of \in Report => r.version <= clock
  BY <1>1 DEF Versions
<1>3. \A r, q \in sent' \cup log' :
         r.of \in Report /\ r.of = q.of /\ r.version = q.version /\ r.version > 0 => r = q
  BY DEF Versions
<1>4. ASSUME NEW f \in Report, Topped(f)
      PROVE  Topped(f)'
  <2>1. PICK r \in sent \cup log :
           /\ r.of = f /\ r.is = reviews[f] /\ r.version > 0
           /\ \A q \in sent \cup log : q.of = f => q.version <= r.version
    BY <1>4 DEF Topped
  <2>2. r.version \in Nat
    BY <2>1, RowsOfReports
  <2>3. \A q \in sent' \cup log' : q.of = f => q.version <= r.version
    BY <2>1, <2>2
  <2>4. QED
    BY <2>1, <2>3 DEF Topped
<1>5. QED
  BY <1>2, <1>3, <1>4 DEF Versions, UnderWay

LEMMA ApiVersions ==
    ASSUME TypeOK, Versions, Api
    PROVE  Versions'
<1>1. CASE UNCHANGED <<reviews, job, clock, missed, crossed, dropped, sent, log, copy>>
  BY <1>1 DEF Versions, UnderWay, Topped
<1>2. CASE MirrorOutcome
  <2>1. loop \in Outcome /\ loop.of \notin Report
    BY <1>2, TablesAssumption DEF MirrorOutcome, TypeOK, Outcome
  <2>2. QED
    BY <1>2, <2>1, HarmlessRow DEF MirrorOutcome, backfill, Versions
<1>3. ASSUME NEW f \in Report, SubmitFeedback(f)
      PROVE  Versions'
  <2>1. /\ reviews[f] = "absent" /\ reviews' = [reviews EXCEPT ![f] = "pending"]
        /\ UNCHANGED <<job, clock, missed, crossed, dropped, sent, log, copy>>
    BY <1>3 DEF SubmitFeedback, api, backfill
  <2>2. \A a \in Admin : job[a] # NoRow => job[a].of # f /\ job[a].of \in Report
    BY <2>1 DEF Versions, TypeOK, Review
  <2>3. \A g \in Report : g # f => reviews'[g] = reviews[g]
    BY <2>1 DEF TypeOK
  <2>4. reviews'[f] \notin Review
    BY <2>1 DEF TypeOK, Review
  <2>5. \A g \in Report : g # f /\ Topped(g) => Topped(g)'
    BY <2>1, <2>3 DEF Topped
  <2>6. \A a \in Admin : job'[a] # NoRow => reviews'[job'[a].of] = reviews[job[a].of]
    BY <2>1, <2>2, <2>3
  <2>7. QED
    BY <2>1, <2>3, <2>4, <2>5, <2>6 DEF Versions, UnderWay
<1>4. ASSUME NEW a \in Admin, NEW f \in Report, NEW s \in Review, ReviewFeedback(a, f, s)
      PROVE  Versions'
  <2>1. /\ job[a] = NoRow
        /\ reviews' = [reviews EXCEPT ![f] = s]
        /\ job' = [job EXCEPT ![a] = [of |-> f, is |-> s]]
        /\ crossed' = IF UnderWay(f) THEN crossed \cup {f} ELSE crossed \ {f}
        /\ UNCHANGED <<clock, missed, dropped, sent, log, copy>>
    BY <1>4 DEF ReviewFeedback, backfill
  <2>2. job'[a] = [of |-> f, is |-> s] /\ reviews'[f] = s
    BY <2>1 DEF TypeOK
  <2>3. job'[a].of = f /\ job'[a].is = s /\ job'[a] # NoRow
    BY <2>2, NoJobAssumption
  <2>4. \A g \in Report : g # f => reviews'[g] = reviews[g] /\ (g \in crossed' <=> g \in crossed)
    BY <2>1 DEF TypeOK
  <2>5. \A b \in Admin : b # a => /\ job'[b] = job[b]
                                  /\ job[b] # NoRow => job[b].of \in Report
    BY <2>1 DEF TypeOK
  <2>6. \A g \in Report : ~UnderWay(g)' => g # f /\ ~UnderWay(g)
    BY <2>1, <2>3, <2>5 DEF UnderWay
  <2>7. \A g \in Report : g # f /\ Topped(g) => Topped(g)'
    BY <2>1, <2>4 DEF Topped
  <2>8. ASSUME NEW b \in Admin, job'[b] # NoRow, job'[b].of \notin crossed'
        PROVE  /\ reviews'[job'[b].of] = job'[b].is
               /\ \A c \in Admin : job'[c] # NoRow /\ job'[c].of = job'[b].of => c = b
    <3>1. CASE job'[b].of = f
      <4>1. ~UnderWay(f)
        BY <2>1, <2>8, <3>1
      <4>2. \A c \in Admin : c # a /\ job'[c] # NoRow => job'[c].of # f
        BY <2>5, <4>1 DEF UnderWay
      <4>3. b = a
        BY <2>8, <3>1, <4>2
      <4> QED
        BY <2>2, <2>3, <3>1, <4>2, <4>3
    <3>2. CASE job'[b].of # f
      <4>1. b # a /\ job'[b] = job[b] /\ job[b] # NoRow /\ job[b].of \in Report
        BY <2>3, <2>5, <2>8, <3>2
      <4>2. job[b].of \notin crossed
        BY <2>4, <2>8, <3>2, <4>1
      <4>3. /\ reviews[job[b].of] = job[b].is
            /\ \A c \in Admin : job[c] # NoRow /\ job[c].of = job[b].of => c = b
        BY <4>1, <4>2 DEF Versions
      <4> QED
        BY <2>3, <2>4, <2>5, <3>2, <4>1, <4>3
    <3> QED
      BY <3>1, <3>2
  <2>9. ASSUME NEW g \in Report, reviews'[g] \in Review,
               g \notin (missed \cup dropped \cup crossed)', ~UnderWay(g)'
        PROVE  Topped(g)'
    BY <2>1, <2>4, <2>6, <2>7, <2>9 DEF Versions
  <2>10. \A b \in Admin : job'[b] # NoRow => reviews'[job'[b].of] \in Review
    BY <2>1, <2>2, <2>3, <2>4, <2>5 DEF Versions
  <2>11. QED
    BY <2>1, <2>8, <2>9, <2>10 DEF Versions
<1>5. ASSUME NEW a \in Admin, MirrorReview(a)
      PROVE  Versions'
  <2>1. job[a] \in [of : Report, is : Review] /\ job[a] # NoRow
    BY <1>5 DEF MirrorReview, TypeOK
  <2>2. PICK f \in Report, s \in Review : f = job[a].of /\ s = job[a].is
    BY <2>1
  <2>3. PICK x : x = OpinionRow(f, s, clock + 1)
    OBVIOUS
  <2>4. /\ x.of = f /\ x.is = s /\ x.version = clock + 1
        /\ clock \in Nat /\ f \notin Callback
    BY <2>3, TablesAssumption DEF OpinionRow, TypeOK
  <2>5. /\ sent' = sent \cup {x} /\ clock' = clock + 1
        /\ job' = [job EXCEPT ![a] = NoRow]
        /\ UNCHANGED <<reviews, log, missed, crossed, dropped, copy>>
    BY <1>5, <2>2, <2>3 DEF MirrorReview, backfill
  <2>6. \A r \in sent \cup log : r.of \in Report => r.version \in Nat /\ r.version <= clock
    BY RowsOfReports DEF Versions
  <2>7. \A r \in sent' \cup log' : r.of \in Report => r.version <= clock'
    BY <2>4, <2>5, <2>6
  <2>8. \A r, q \in sent' \cup log' :
           r.of \in Report /\ r.of = q.of /\ r.version = q.version /\ r.version > 0 => r = q
    BY <2>4, <2>5, <2>6 DEF Versions
  <2>9. f \notin crossed => Topped(f)'
    <3> HAVE f \notin crossed
    <3>1. \A q \in sent' \cup log' : q.of = f => q.version <= x.version
      BY <2>4, <2>5, <2>6
    <3>2. x.is = reviews'[f] /\ x.version > 0 /\ x \in sent' \cup log'
      BY <2>1, <2>2, <2>4, <2>5 DEF Versions
    <3>3. QED
      BY <2>4, <3>1, <3>2 DEF Topped
  <2>10. \A g \in Report : g # f /\ Topped(g) => Topped(g)'
    BY <2>4, <2>5 DEF Topped
  <2>11. \A g \in Report : g # f /\ ~UnderWay(g)' => ~UnderWay(g)
    BY <2>2, <2>5 DEF UnderWay, TypeOK
  <2>12. \A b \in Admin : job'[b] # NoRow => job'[b] = job[b]
    BY <2>5 DEF TypeOK
  <2>13. \A b \in Admin : job'[b] # NoRow /\ job'[b].of \notin crossed' =>
            /\ reviews'[job'[b].of] = job'[b].is
            /\ \A c \in Admin : job'[c] # NoRow /\ job'[c].of = job'[b].of => c = b
    BY <2>5, <2>12 DEF Versions
  <2>14. \A r \in copy' : r.of \in Report => r.version = 0
    BY <2>5 DEF Versions
  <2>15. \A g \in Report : reviews'[g] \in Review /\ g \notin (missed \cup dropped \cup crossed)'
                             /\ ~UnderWay(g)' => Topped(g)'
    BY <2>5, <2>9, <2>10, <2>11 DEF Versions
  <2>16. QED
    BY <2>5, <2>7, <2>8, <2>12, <2>13, <2>14, <2>15 DEF Versions
<1>6. ASSUME NEW lost, lost \subseteq Admin,
             \A a \in Admin : job'[a] = IF a \in lost THEN NoRow ELSE job[a],
             \A a \in lost : job[a] = NoRow \/ job[a].of \in missed',
             missed \subseteq missed',
             UNCHANGED <<reviews, clock, dropped, crossed, sent, log, copy>>
      PROVE  Versions'
  <2>1. \A g \in Report : g \notin missed' /\ ~UnderWay(g)' => ~UnderWay(g)
    BY <1>6 DEF UnderWay
  <2>2. \A g \in Report : Topped(g) => Topped(g)'
    BY <1>6 DEF Topped
  <2>3. QED
    BY <1>6, <2>1, <2>2 DEF Versions
<1>7. ASSUME NEW a \in Admin, ReviewNotMirrored(a)
      PROVE  Versions'
  <2>1. /\ \A b \in Admin : job'[b] = IF b \in {a} THEN NoRow ELSE job[b]
        /\ job[a].of \in missed' /\ missed \subseteq missed'
        /\ UNCHANGED <<reviews, clock, dropped, crossed, sent, log, copy>>
    BY <1>7 DEF ReviewNotMirrored, backfill, TypeOK
  <2>2. QED
    BY <1>6, <2>1
<1>8. CASE Restart
  <2>1. /\ \A b \in Admin : job'[b] = IF b \in Admin THEN NoRow ELSE job[b]
        /\ \A b \in Admin : job[b] = NoRow \/ job[b].of \in missed'
        /\ missed \subseteq missed'
        /\ UNCHANGED <<reviews, clock, dropped, crossed, sent, log, copy>>
    BY <1>8 DEF Restart, backfill
  <2>2. QED
    BY <1>6, <2>1
<1>9. QED
  BY <1>1, <1>2, <1>3, <1>4, <1>5, <1>7, <1>8
     DEF Api, Callbacks, Reviews, Record, OutcomeNotMirrored, backfill

LEMMA OlapVersions ==
    ASSUME TypeOK, Versions, Olap
    PROVE  Versions'
<1>1. PICK r \in sent : Flush(r) \/ Drop(r)
  BY DEF Olap
<1>2. CASE Flush(r)
  <2>1. sent' \cup log' = sent \cup log
    BY <1>2 DEF Flush
  <2>2. UNCHANGED <<reviews, job, clock, missed, crossed, dropped, copy>>
    BY <1>2 DEF Flush, api, backfill
  <2>3. QED
    BY <2>1, <2>2 DEF Versions, UnderWay, Topped
<1>3. CASE Drop(r)
  <2>1. /\ sent' = sent \ {r} /\ dropped' = dropped \cup {r.of}
        /\ UNCHANGED <<reviews, job, clock, missed, crossed, log, copy>>
    BY <1>3 DEF Drop, api, backfill
  <2>2. \A g \in Report : g \notin dropped' /\ Topped(g) => Topped(g)'
    BY <2>1 DEF Topped
  <2>3. QED
    BY <2>1, <2>2 DEF Versions, UnderWay
<1>4. QED
  BY <1>1, <1>2, <1>3

LEMMA BackfillVersions ==
    ASSUME TypeOK, Faithful, Versions, Backfill
    PROVE  Versions'
<1>1. StoredOutcomes \subseteq Outcome
      /\ \A r \in StoredReviews : r.of \in Report => r.version = 0
  BY StoredRows DEF StoredReviews, OpinionRow, BackfillVersion
<1>2. \A r \in StoredOutcomes : r.of \notin Report
  BY <1>1, TablesAssumption DEF Outcome
<1>3. CASE sent' = sent /\ log' = log /\ UNCHANGED <<reviews, job, clock, missed, crossed, dropped>>
           /\ copy' \in {copy, StoredOutcomes, copy \cup StoredReviews}
  BY <1>1, <1>2, <1>3 DEF Versions, UnderWay, Topped
<1>4. ASSUME NEW r \in todo, CopyRow(r)
      PROVE  Versions'
  <2>1. r.of \in Report => r.version = 0
    BY DEF Faithful, Versions
  <2>2. /\ sent' \cup log' = (sent \cup log) \cup {r}
        /\ UNCHANGED <<reviews, job, clock, missed, crossed, dropped, copy>>
    BY <1>4 DEF CopyRow, api
  <2>3. QED
    BY <2>1, <2>2, HarmlessRow DEF Versions
<1>5. QED
  BY <1>3, <1>4
     DEF Backfill, StartBackfill, ReadReviews, FinishBackfill, BackfillFails, api

\* Whoever reviews, and whatever is lost, restarted or copied: once nothing
\* of a report is under way and nothing of it was lost, its mirror bears the
\* review stored (feedback.py:39), unless its last review crossed another.
THEOREM LatestWins == Spec => []LatestReviewWins
<1>1. Init => Versions
  BY DEF Init, Versions, UnderWay, Topped
<1>2. IndInv /\ Versions /\ [Next]_vars => Versions'
  <2>1. IndInv /\ Versions /\ UNCHANGED vars => Versions'
    BY DEF Versions, UnderWay, Topped, vars, api, backfill
  <2>2. QED
    BY <2>1, ApiVersions, OlapVersions, BackfillVersions DEF Next, IndInv
<1>3. IndInv /\ Versions => LatestReviewWins
  <2> SUFFICES ASSUME IndInv, Versions, NEW f \in Report, Settled(f), f \notin crossed,
                      reviews[f] \in Review
               PROVE  InForce(f) = {reviews[f]}
    BY DEF LatestReviewWins
  <2>1. Topped(f) /\ \A r \in sent : r.of # f
    BY DEF Settled, Versions, UnderWay
  <2>2. PICK r \in log :
           /\ r.of = f /\ r.is = reviews[f] /\ r.version > 0
           /\ \A q \in log : q.of = f => q.version <= r.version
    BY <2>1 DEF Topped
  <2>3. \A q \in log : q.of = f => q.version \in Nat
    BY RowsOfReports DEF IndInv
  <2>4. ASSUME NEW q \in log, q.of = f, \A p \in log : p.of = f => p.version <= q.version
        PROVE  q = r
    BY <2>2, <2>3, <2>4 DEF Versions
  <2>5. QED
    BY <2>2, <2>4 DEF InForce
<1>4. QED
  BY <1>1, <1>2, <1>3, Inductive, PTL DEF Spec

=============================================================================
