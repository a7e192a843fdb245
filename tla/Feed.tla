-------------------------------- MODULE Feed --------------------------------
(***************************************************************************)
(* The live feed: rows of decision_log, the generator behind GET           *)
(* /v1/stream that polls them (api/analytics.py, recent_decisions), and    *)
(* the page that collects them (dashboard, useStream.ts).                  *)
(*                                                                         *)
(* A row is sent without a time: ClickHouse gives it a second (DEFAULT     *)
(* now()) no later than the one it is written in, and it is written some   *)
(* time after it was taken (wait_for_async_insert = 0).  Times are         *)
(* compared in seconds.                                                    *)
(***************************************************************************)
EXTENDS Integers, Sequences, FiniteSets, SequencesExt

CONSTANTS
    Trx,       \* decisions, one row each
    ScopeOf,   \* Trx -> the scope (service, campaign, ...) of its row
    Scope,     \* what the page may filter by; ALL is no filter
    ALL,
    Limit,     \* rows of a poll
    PageLimit, \* rows kept by the page
    Second     \* bound: the seconds that are looked at

ASSUME FeedAssumption == Limit \in Nat /\ PageLimit \in Nat

VARIABLES
    second,     \* the clock
    taken,      \* rows ClickHouse has taken and not written: their ts
    log,        \* decision_log: ts by transaction
    stream,     \* the generator: its filter and last_ts, NoStream when there is none
    wire,       \* events sent and not read
    page,       \* the page's feed, newest first
    seen,       \* its Set of transactions
    sent,       \* history: the rows of this connection, in the order sent
    missed      \* history: rows no later poll of this connection can send

fvars == <<second, taken, log, stream, wire, page, seen, sent, missed>>

NoStream == [scope |-> ALL, last |-> -1, on |-> FALSE]

FeedInit ==
    /\ second = 0
    /\ taken = <<>>
    /\ log = <<>>
    /\ stream = NoStream
    /\ wire = <<>>
    /\ page = <<>>
    /\ seen = {}
    /\ sent = <<>>
    /\ missed = {}

InScope(scope) == {t \in DOMAIN log : scope = ALL \/ ScopeOf[t] = scope}

\* ts > since.
Newer(since) == {t \in InScope(stream.scope) : log[t] > since}

\* The orders ORDER BY ts DESC LIMIT may give the rows: among rows of one second
\* any, in the limit too.
Recent(rows) ==
    {q \in UNION {[1..n -> rows] : n \in {IF Cardinality(rows) < Limit THEN Cardinality(rows)
                                                                       ELSE Limit}} :
        /\ IsInjective(q)
        /\ \A i, j \in DOMAIN q : i < j => log[q[i]] >= log[q[j]]
        /\ \A t \in rows \ Range(q) : \A i \in DOMAIN q : log[q[i]] >= log[t]}

-----------------------------------------------------------------------------
(* Slips. *)
\* Chronological, the rows sent as they come from the query.
ChronologicalNot(recent) == recent
-----------------------------------------------------------------------------

\* for row in reversed(recent).
Chronological(recent) == Reverse(recent)

\* write_event: ClickHouse takes the row and draws its ts.
Insert(t) ==
    /\ t \notin DOMAIN taken \cup DOMAIN log
    /\ taken' = [u \in DOMAIN taken \cup {t} |-> IF u = t THEN second ELSE taken[u]]
    /\ UNCHANGED <<second, log, stream, wire, page, seen, sent, missed>>

\* The row is written, and queries see it.
Flush(t) ==
    /\ t \in DOMAIN taken
    /\ log' = [u \in DOMAIN log \cup {t} |-> IF u = t THEN taken[t] ELSE log[u]]
    /\ taken' = [u \in DOMAIN taken \ {t} |-> taken[u]]
    /\ missed' = IF taken[t] =< stream.last THEN missed \cup {t} ELSE missed
    /\ UNCHANGED <<second, stream, wire, page, seen, sent>>

\* One turn of gen(): the newest Limit rows since last_ts are sent, oldest first,
\* and last_ts is the last one's.  A query that raises sends an error event,
\* which the page ignores.
Poll ==
    /\ stream.on
    /\ \E recent \in Recent(Newer(stream.last)) :
          LET rows == Chronological(recent)
          IN  /\ rows # <<>>
              /\ wire' = wire \o rows
              /\ sent' = sent \o rows
              /\ stream' = [stream EXCEPT !.last = log[Last(rows)]]
              /\ missed' = missed \cup (Newer(stream.last) \ Range(recent))
    /\ UNCHANGED <<second, taken, log, page, seen>>

\* applyEvent: a transaction seen before is skipped, the newest PageLimit kept.
Apply ==
    /\ wire # <<>>
    /\ wire' = Tail(wire)
    /\ IF Head(wire) \in seen
       THEN UNCHANGED <<page, seen>>
       ELSE /\ seen' = seen \cup {Head(wire)}
            /\ page' = LET all == <<Head(wire)>> \o page
                       IN  SubSeq(all, 1, IF Len(all) < PageLimit THEN Len(all) ELSE PageLimit)
    /\ UNCHANGED <<second, taken, log, stream, sent, missed>>

\* The effect of useStream for a scope: what the page holds is dropped, and a
\* connection opened.
Connect(scope) ==
    /\ ~stream.on \/ stream.scope # scope
    /\ stream' = [scope |-> scope, last |-> -1, on |-> TRUE]
    /\ wire' = <<>> /\ page' = <<>> /\ seen' = {} /\ sent' = <<>> /\ missed' = {}
    /\ UNCHANGED <<second, taken, log>>

\* The connection breaks, or the filter is switched to a fixed range of time,
\* which empties the page.  Nothing reconnects by itself.
Break ==
    /\ stream.on
    /\ stream' = [stream EXCEPT !.on = FALSE]
    /\ wire' = <<>>
    /\ UNCHANGED <<second, taken, log, page, seen, sent, missed>>

Freeze ==
    /\ stream # NoStream
    /\ stream' = NoStream
    /\ wire' = <<>> /\ page' = <<>> /\ seen' = {} /\ sent' = <<>> /\ missed' = {}
    /\ UNCHANGED <<second, taken, log>>

NextSecond ==
    /\ second + 1 \in Second
    /\ second' = second + 1
    /\ UNCHANGED <<taken, log, stream, wire, page, seen, sent, missed>>

FeedNext ==
    \/ \E t \in Trx : Insert(t) \/ Flush(t)
    \/ Poll
    \/ Apply
    \/ \E scope \in Scope : Connect(scope)
    \/ Break
    \/ Freeze
    \/ NextSecond

FeedSpec == FeedInit /\ [][FeedNext]_fvars
-----------------------------------------------------------------------------
(* Properties. *)

\* The feed the page shows is newest first, whatever polls it was collected
\* from, and has nothing of another scope; no connection sends a row twice, and
\* what it passes over are the rows beyond the limit of a poll and those
\* written once their second was over (analytics.py:275-281, useStream.ts:69-72).
FeedInOrder ==
    /\ \A i, j \in DOMAIN page : i < j => log[page[i]] >= log[page[j]]
    /\ \A i \in DOMAIN page : page[i] \in InScope(stream.scope)
    /\ IsInjective(sent)
    /\ \A t \in InScope(stream.scope) :
          log[t] =< stream.last => t \in Range(sent) \cup missed
=============================================================================
