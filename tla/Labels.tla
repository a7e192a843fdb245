------------------------------- MODULE Labels -------------------------------
(***************************************************************************)
(* What billing and reviewers say of a transaction over time, the figures  *)
(* the dashboard draws from the ClickHouse copies (Analytics), and the     *)
(* labels a retraining draws from PostgreSQL (jobs/retrain.py,             *)
(* services/maturation.py, db/oltp/training_repo.py).  The mirror's row of *)
(* an outcome gets the time at which ClickHouse writes it, a backfilled    *)
(* one the time of the stored row, so that an outcome may have two rows of *)
(* different times.  Reviews are copied in one step here; Mirror has that  *)
(* exchange by exchange.  Time is in days, the same for both databases.    *)
(***************************************************************************)
EXTENDS Analytics

CONSTANTS
    MaxTime,      \* bound: the last day
    Says,         \* what billing says: <<trx, type, status, reason>>
    Reports,      \* reports of users: <<trx, label>>
    Days,         \* values of the setting maturation_days
    Config,       \* contents of the configurations put in force
    Observation   \* features of the visits, NULL where the event has none

\* None is neither a decision, nor a row of one, nor a yes or no.
ASSUME AbsentAssumption ==
    /\ NULL \notin {"allow", "block"}
    /\ NULL \notin BOOLEAN
    /\ NULL \notin [at : Nat, decision : {"allow", "block"}]

\* schemas/callback.py: a subscription was charged or not, a complaint says
\* nothing of charging.
ASSUME SaysAssumption ==
    \A k \in Says :
      /\ k[1] \in Trx
      /\ \/ k[2] = "subscription" /\ k[3] \in {"success", "failed"}
         \/ k[2] = "complaint" /\ k[3] = ""

ASSUME TimesAssumption == {MaxTime, Horizon} \cup Days \subseteq Nat

ASSUME ConfigAssumption == \A c \in Config : c.threshold \in Int

ASSUME ObservationAssumption == \A f \in Observation \ {NULL} : f["auto_webdriver"] \in Nat

VARIABLES
    now,
    decisions,   \* decisions: [at, decision], NULL before
    outcomes,    \* outcomes, UNIQUE (callback_type, trx_id)
    unsent,      \* outcomes stored whose row ClickHouse has not written yet
    feedback,    \* feedback reviewed and accepted: [trx, label]
    maturation,  \* settings: maturation_days
    config       \* the active rule_configs row

olap == <<traffic, outcomeLog, feedbackLog>>
vars == <<now, decisions, outcomes, unsent, feedback, maturation, config, olap>>

Init ==
    /\ now = 0
    /\ decisions = [t \in Trx |-> NULL]
    /\ outcomes = {} /\ unsent = {}
    /\ feedback = {}
    /\ maturation \in Days
    /\ config \in Config
    /\ traffic = {} /\ outcomeLog = {} /\ feedbackLog = {}

Tick ==
    /\ now < MaxTime
    /\ now' = now + 1
    /\ UNCHANGED <<decisions, outcomes, unsent, feedback, maturation, config, olap>>

(* a decision and, unless it is lost, its event *)
Decide(t, decision, status, f) ==
    /\ decisions[t] = NULL
    /\ decisions' = [decisions EXCEPT ![t] = [at |-> now, decision |-> decision]]
    /\ \/ UNCHANGED traffic
       \/ traffic' = traffic \cup
            {[trx |-> t, ts |-> now, decision |-> decision, status |-> status, features |-> f]}
    /\ UNCHANGED <<now, outcomes, unsent, feedback, maturation, config, outcomeLog, feedbackLog>>

(* POST /v1/callback/billing for a transaction of Aegis or of another      *)
(* channel; a repeated callback changes nothing                            *)
Callback(t, type, status, reason) ==
    /\ ~\E o \in outcomes : o.trx = t /\ o.type = type
    /\ LET o == [trx |-> t, type |-> type, status |-> status, reason |-> reason, at |-> now]
       IN outcomes' = outcomes \cup {o} /\ unsent' = unsent \cup {o}
    /\ UNCHANGED <<now, decisions, feedback, maturation, config, olap>>

(* the mirror of a callback sends no time: received_at is DEFAULT now()    *)
MirrorOutcome(o) ==
    /\ o \in unsent
    /\ unsent' = unsent \ {o}
    /\ outcomeLog' = outcomeLog \cup {[o EXCEPT !.at = now]}
    /\ UNCHANGED <<now, decisions, outcomes, feedback, maturation, config, traffic, feedbackLog>>

(* the insert raises, or ClickHouse loses the row                          *)
OutcomeLost(o) ==
    /\ o \in unsent
    /\ unsent' = unsent \ {o}
    /\ UNCHANGED <<now, decisions, outcomes, feedback, maturation, config, olap>>

(* the backfill sends a stored outcome with its time, mirrored or not      *)
BackfillOutcome(o) ==
    /\ o \in outcomes
    /\ outcomeLog' = outcomeLog \cup {o}
    /\ UNCHANGED <<now, decisions, outcomes, unsent, feedback, maturation, config, traffic, feedbackLog>>

SameOutcome(o, p) == o.trx = p.trx /\ o.type = p.type

(* ReplacingMergeTree: two rows of one outcome are merged into one, at a   *)
(* time of ClickHouse's choosing and only within a month; queries have no  *)
(* FINAL                                                                   *)
Merge(o) ==
    /\ \E p \in outcomeLog \ {o} : SameOutcome(o, p)
    /\ outcomeLog' = outcomeLog \ {o}
    /\ UNCHANGED <<now, decisions, outcomes, unsent, feedback, maturation, config, traffic, feedbackLog>>

(* an administrator reviews a user's report, again perhaps, and of any     *)
(* transaction; feedback_log FINAL has the last review                     *)
Review(t, label, status) ==
    LET others == {f \in feedbackLog : f.trx # t \/ f.label # label}
        report == [trx |-> t, label |-> label]
    IN /\ feedback' = IF status = "accepted" THEN feedback \cup {report} ELSE feedback \ {report}
       /\ feedbackLog' = others \cup {[trx |-> t, label |-> label, review |-> status]}
       /\ UNCHANGED <<now, decisions, outcomes, unsent, maturation, config, traffic, outcomeLog>>

PutSetting(n) ==
    /\ n # maturation
    /\ maturation' = n
    /\ UNCHANGED <<now, decisions, outcomes, unsent, feedback, config, olap>>

PutConfig(c) ==
    /\ c # config
    /\ config' = c
    /\ UNCHANGED <<now, decisions, outcomes, unsent, feedback, maturation, olap>>

Decisions(t, f) ==
    \/ Decide(t, "allow", "minted", f)
    \/ Decide(t, "allow", "failed", f)
    \/ Decide(t, "block", "na", f)

Mirroring ==
    \/ \E o \in unsent : MirrorOutcome(o) \/ OutcomeLost(o)
    \/ \E o \in outcomes : BackfillOutcome(o)
    \/ \E o \in outcomeLog : Merge(o)

Administration ==
    \/ \E r \in Reports, status \in {"accepted", "rejected"} : Review(r[1], r[2], status)
    \/ \E n \in Days : PutSetting(n)
    \/ \E c \in Config : PutConfig(c)

Next ==
    \/ Tick
    \/ \E t \in Trx, f \in Observation : Decisions(t, f)
    \/ \E k \in Says : Callback(k[1], k[2], k[3], k[4])
    \/ Mirroring
    \/ Administration

Spec == Init /\ [][Next]_vars
-----------------------------------------------------------------------------
(***************************************************************************)
(* The labels of a retraining that runs now.                               *)
(***************************************************************************)
OutcomesOf(t) == {o \in outcomes : o.trx = t}

SubscriptionsOf(t) == {o \in OutcomesOf(t) : o.type = "subscription"}

(* labeled_candidates: decisions that have an outcome *)
Candidates == {t \in Trx : decisions[t] # NULL /\ OutcomesOf(t) # {}}

RefTime(t) ==
  IF SubscriptionsOf(t) = {} THEN decisions[t].at ELSE Min({o.at : o \in SubscriptionsOf(t)})

HasComplaint(t) == \E o \in OutcomesOf(t) : o.type = "complaint"

SubscriptionSuccess(t) == \E o \in SubscriptionsOf(t) : o.status = "success"

LimitReached(t) ==
  \E o \in SubscriptionsOf(t) : o.status # "success" /\ o.reason = "daily_limit_reached"

Matured(t) == now - RefTime(t) >= maturation

(* slip: a charge that succeeded is looked at before the complaint *)
IsHumanLabelSuccessFirst(t) ==
  IF SubscriptionSuccess(t) THEN IF Matured(t) THEN TRUE ELSE NULL
  ELSE IF HasComplaint(t) \/ LimitReached(t) THEN FALSE
  ELSE NULL

(* is_human_label: TRUE human, FALSE robot, NULL not known yet *)
IsHumanLabel(t) ==
  IF HasComplaint(t) THEN FALSE
  ELSE IF ~SubscriptionSuccess(t) THEN IF LimitReached(t) THEN FALSE ELSE NULL
  ELSE IF Matured(t) THEN TRUE ELSE NULL

(* _build_labels.  Accepted reports override; of two that contradict each  *)
(* other the row returned last wins, and the query has no order: all the   *)
(* labels the transaction may get.                                         *)
LabelsOf(t) ==
  LET reports == {f.label : f \in {g \in feedback : g.trx = t}}
  IN IF reports # {} THEN reports
     ELSE IF t \notin Candidates \/ IsHumanLabel(t) = NULL THEN {}
     ELSE {IF IsHumanLabel(t) THEN "human" ELSE "robot"}

(* slip: every human label is trained on *)
NeverDisqualified(f) == FALSE

(* _human_label_disqualified, by the configuration active now.  A          *)
(* malformed one raises here and the run fails; Config has none.           *)
HumanLabelDisqualified(f) ==
  HardTriggers(f, EnabledHardRules(config.params)) # {} \/ SoftScore(f) >= config.threshold

(* gather_training_data: the examples, with the labels they may carry.     *)
(* The configuration is read again for every human label; where reading    *)
(* it fails, in `unread', the label is kept without the examination.       *)
TrainingSet(unread) ==
  LET features == FeaturesByTrx({t \in Trx : LabelsOf(t) # {}})
      excluded(t, l) == l = "human" /\ t \notin unread /\ HumanLabelDisqualified(features[t])
  IN UNION {{[trx |-> t, label |-> l] : l \in {m \in LabelsOf(t) : ~excluded(t, m)}}
            : t \in DOMAIN features}
-----------------------------------------------------------------------------
Window == {w \in (0..MaxTime) \X (1..(MaxTime + 1)) : w[1] < w[2]}
Scopes == Service \cup {NULL}

(* the sum of a column of numbers, as the number of its units *)
SumOf(f) == Cardinality(UNION {{k} \X (1..f[k]) : k \in DOMAIN f})

(* The figures of one page agree, for every window and scope: the          *)
(* breakdowns and the series add up to the totals, estimated fraud is      *)
(* among the allowed, the funnel's failures split without rest, and the    *)
(* two queries on failures count the same.                                 *)
FiguresAgree ==
    \A w \in Window, scope \in Scopes :
      LET s == Summary(w[1], w[2], scope)
          f == ChargingFunnel(w[1], w[2], scope)
      IN /\ s.total = s.allow + s.block
         /\ s.fraud_est <= s.allow
         /\ \A m \in {"total", "block"} : SumOf(Timeseries(m, w[1], w[2], scope)) = s[m]
         /\ SumOf(Breakdown("decision", w[1], w[2], scope)) = s.total
         /\ f.charging_success + f.charging_failed = f.registration_success
         /\ f.insufficient_balance + f.daily_limit_reached + f.other = f.charging_failed
         /\ SumOf(s.charging_fail_breakdown) = f.charging_failed
         /\ Cardinality(Search(w[1], w[2], scope, "allow", FALSE, NULL, NULL)) = s.allow

Seen(scope) == {e.trx : e \in {d \in traffic : InScope(d.trx, scope)}}

(* Billing answered, and the answer was written, no later than the         *)
(* look-back, and not before the decision was logged.                      *)
AnsweredInTime == \A o \in outcomeLog, e \in traffic : o.trx = e.trx => o.at - e.ts \in 0..Horizon

CountedAs(k, o) ==
    CASE k = "registration_success" -> o.type = "subscription"
      [] k = "other" -> o.type = "subscription" /\ IsOther(o)
      [] k = "complaints" -> o.type = "complaint"

(* Outcomes copied by the backfill that also have a row of their callback, *)
(* written on the other side of b.                                         *)
Straddling(a, b, c) ==
    {o \in outcomes \cap outcomeLog :
        /\ InWindow(o.at, a, b)
        /\ \E p \in outcomeLog : SameOutcome(o, p) /\ InWindow(p.at, b, c)}

(* Two adjacent windows count what their union counts, also of outcomes    *)
(* that arrive up to the look-back after the decision (ADR-023): none is   *)
(* lost between two days, and one is counted in both only if the backfill  *)
(* has added a row of an earlier day to the one the mirror wrote, and only *)
(* until the two are merged.                                               *)
WindowsAddUp ==
    \A a \in 0..MaxTime, c \in 2..(MaxTime + 1) : \A b \in (a + 1)..(c - 1) :
      AnsweredInTime =>
        \A scope \in Scopes, k \in {"registration_success", "other", "complaints"} :
           LET twice == {o \in Straddling(a, b, c) : o.trx \in Seen(scope) /\ CountedAs(k, o)}
           IN ChargingFunnel(a, b, scope)[k] + ChargingFunnel(b, c, scope)[k] =
              ChargingFunnel(a, c, scope)[k] + Cardinality(TrxOf(twice))

(* A robot stays a robot: with no new report, time, further callbacks,     *)
(* settings and configurations never turn the label into another; a human  *)
(* label may still be withdrawn.                                           *)
RobotStays ==
    [][\A t \in Trx : LabelsOf(t) = {"robot"} /\ feedback' = feedback => LabelsOf(t)' = {"robot"}]_vars

(* An example labelled human by its charge was charged, has no complaint   *)
(* and has matured; and it is one the active rules would have let through, *)
(* whatever was in force when it was scored, unless the configuration      *)
(* could not be read for it (ADR-020, retrain.py:81-89).                   *)
HumansAreClean ==
    \A unread \in SUBSET Trx : \A x \in TrainingSet(unread) :
      x.label = "human" /\ ~(\E f \in feedback : f.trx = x.trx) =>
      /\ ~\E o \in outcomes : o.trx = x.trx /\ o.type = "complaint"
      /\ \E o \in outcomes : o.trx = x.trx /\ o.status = "success" /\ o.at + maturation <= now
      /\ x.trx \notin unread =>
           \E e \in traffic :
              /\ e.trx = x.trx
              /\ SoftScore(e.features) < config.threshold
              /\ "webdriver" \in EnabledHardRules(config.params) => e.features["auto_webdriver"] = 0
=============================================================================
