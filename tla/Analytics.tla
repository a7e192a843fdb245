----------------------------- MODULE Analytics ------------------------------
(***************************************************************************)
(* The dashboard's figures (db/olap/analytics_repo.py): each query over    *)
(* the ClickHouse tables as a set expression.  A window is half open,      *)
(* [lo, hi); a scope is a service or NULL for all of them - campaign,      *)
(* source and publisher narrow a query in the same way.                    *)
(***************************************************************************)
EXTENDS Engine, FiniteSetsExt

CONSTANTS
    Trx, Service,
    ServiceOf,     \* the service of a transaction
    Horizon        \* _OUTCOME_KNOWN_HORIZON_DAYS

VARIABLES
    traffic,      \* traffic_events: [trx, ts, decision, status, features]
    outcomeLog,   \* outcome_log: [trx, type, status, reason, at]
    feedbackLog   \* feedback_log FINAL: [trx, label, review]

InWindow(t, lo, hi) == lo <= t /\ t < hi

InScope(t, scope) == scope = NULL \/ ServiceOf[t] = scope

Events(lo, hi, scope) == {e \in traffic : InWindow(e.ts, lo, hi) /\ InScope(e.trx, scope)}

(* slip: the transaction's event is looked for in the window only *)
KnownInWindow(lo, hi, scope) == {e.trx : e \in Events(lo, hi, scope)}

(* transactions Aegis has seen: the event may be older than the window     *)
KnownTrx(lo, hi, scope) == {e.trx : e \in Events(lo - Horizon, hi, scope)}

TrxOf(rows) == {r.trx : r \in rows}

Outcomes(lo, hi, scope) ==
  {o \in outcomeLog : InWindow(o.at, lo, hi) /\ o.trx \in KnownTrx(lo, hi, scope)}

Complaints(lo, hi, scope) ==
  Cardinality(TrxOf({o \in Outcomes(lo, hi, scope) : o.type = "complaint"}))

(* _charging_kpis: failures by reason, whatever the kind of the callback *)
ChargingFailBreakdown(lo, hi, scope) ==
  LET failed == {o \in Outcomes(lo, hi, scope) : o.status = "failed"}
  IN [r \in {IF o.reason = "" THEN "unknown" ELSE o.reason : o \in failed} |->
        Cardinality(TrxOf({o \in failed : r = IF o.reason = "" THEN "unknown" ELSE o.reason}))]

(* slip: `other' counts what has no reason, failed or not *)
IsOtherWithoutStatus(o) == o.reason = ""

IsOther(o) == o.status = "failed" /\ o.reason \notin {"insufficient_balance", "daily_limit_reached"}

ChargingFunnel(lo, hi, scope) ==
  LET subs == {o \in Outcomes(lo, hi, scope) : o.type = "subscription"}
      count(P(_)) == Cardinality(TrxOf({o \in subs : P(o)}))
  IN [registration_success |-> Cardinality(TrxOf(subs)),
      charging_success     |-> count(LAMBDA o : o.status = "success"),
      charging_failed      |-> count(LAMBDA o : o.status = "failed"),
      insufficient_balance |-> count(LAMBDA o : o.status = "failed" /\ o.reason = "insufficient_balance"),
      daily_limit_reached  |-> count(LAMBDA o : o.status = "failed" /\ o.reason = "daily_limit_reached"),
      other                |-> count(IsOther),
      complaints           |-> Complaints(lo, hi, scope)]

FraudSignals ==
  TrxOf({o \in outcomeLog : o.type = "complaint" \/ o.reason = "daily_limit_reached"})
  \cup TrxOf({f \in feedbackLog : f.review = "accepted" /\ f.label = "robot"})

FraudAmong(lo, hi, scope) ==
  TrxOf({e \in Events(lo, hi, scope) : e.decision = "allow"}) \cap FraudSignals

FraudEst(lo, hi, scope) == Cardinality(FraudAmong(lo, hi, scope))

Metric(m, e) ==
  CASE m = "total" -> TRUE
    [] m \in {"allow", "block"} -> e.decision = m
    [] m = "weboptin_failed" -> e.status = "failed"

Count(m, events) == Cardinality({e \in events : Metric(m, e)})

Summary(lo, hi, scope) ==
  LET events == Events(lo, hi, scope)
  IN [total |-> Count("total", events), allow |-> Count("allow", events),
      block |-> Count("block", events), weboptin_failed |-> Count("weboptin_failed", events),
      fraud_est |-> FraudEst(lo, hi, scope), complaints |-> Complaints(lo, hi, scope),
      charging_fail_breakdown |-> ChargingFailBreakdown(lo, hi, scope)]

(* the series' buckets are the instants of the model; an empty bucket has  *)
(* no row                                                                  *)
Timeseries(m, lo, hi, scope) ==
  LET events == Events(lo, hi, scope)
  IN [b \in {e.ts : e \in events} |-> Count(m, {e \in events : e.ts = b})]

DimensionKey(dim, e) ==
  CASE dim = "service" -> ServiceOf[e.trx]
    [] dim = "decision" -> e.decision
    [] dim = "weboptin_status" -> e.status

(* within the limit on the number of keys *)
Breakdown(dim, lo, hi, scope) ==
  LET events == Events(lo, hi, scope)
  IN [k \in {DimensionKey(dim, e) : e \in events} |->
        Cardinality({e \in events : DimensionKey(dim, e) = k})]

(* search's filter on outcomes *)
OutcomeTrxIds(lo, hi, subscribed, status, reason) ==
  TrxOf({o \in outcomeLog :
           /\ InWindow(o.at, lo, hi)
           /\ subscribed => o.type = "subscription"
           /\ status # NULL => o.status = status
           /\ reason = "other" => o.status = "failed" /\ o.reason = ""
           /\ reason \notin {NULL, "other"} => o.reason = reason})

Search(lo, hi, scope, decision, subscribed, status, reason) ==
  {e \in Events(lo, hi, scope) :
     /\ decision # NULL => e.decision = decision
     /\ subscribed \/ status # NULL \/ reason # NULL =>
          e.trx \in OutcomeTrxIds(lo, hi, subscribed, status, reason)}

(* features of the transactions whose event has them (an event is the only *)
(* one of its transaction)                                                 *)
FeaturesByTrx(trxs) ==
  LET rows == {e \in traffic : e.trx \in trxs /\ e.features # NULL}
  IN [t \in TrxOf(rows) |-> (CHOOSE e \in rows : e.trx = t).features]
=============================================================================
