------------------------------ MODULE Explain -------------------------------
(***************************************************************************)
(* The audit explanation of a stored decision (scoring/explain.py), and    *)
(* how decision_detail puts it together from the event, the decision's row *)
(* and the configuration's history (db/olap/analytics_repo.py).            *)
(***************************************************************************)
EXTENDS Engine

ExplainRules(f, params) ==
  LET triggered == HardTriggers(f, EnabledHardRules(params))
  IN [mode      |-> IF triggered # {} THEN "hard_rule" ELSE "weighted_formula",
      triggered |-> triggered,
      softSum   |-> SoftSum(f),
      softScore |-> SoftScore(f),
      effective |-> IF triggered # {} THEN 100 ELSE SoftScore(f)]

(* slip: the fallback is recognised by the weights of all components *)
BlendModeByAllWeights(bd, w, reason) ==
  IF reason[1] = "rule" THEN "hard_rule_forced"
  ELSE IF reason[1] = "failsafe" THEN "rules_only_failsafe"
  ELSE IF Total(LAMBDA c : w[c]) <= 0 THEN "simple_average_fallback"
  ELSE "weighted_normalized"

BlendMode(bd, w, reason) ==
  IF reason[1] = "rule" THEN "hard_rule_forced"
  ELSE IF reason[1] = "failsafe" THEN "rules_only_failsafe"
  ELSE IF TotalWeight(bd, w) <= 0 THEN "simple_average_fallback"
  ELSE "weighted_normalized"

(* each component's share of the final score, as fractions of one          *)
(* denominator; a forced or fail-safe decision applies none                *)
ExplainBlend(bd, w, final, threshold, decision, reason) ==
  LET mode   == BlendMode(bd, w, reason)
      normal == mode \in {"simple_average_fallback", "weighted_normalized"}
      used   == IF mode = "simple_average_fallback" THEN UnitWeights ELSE w
  IN [final |-> final, threshold |-> threshold, decision |-> decision, reason |-> reason,
      mode |-> mode, den |-> IF normal THEN TotalWeight(bd, used) ELSE 1,
      contribution |-> [c \in Component |-> IF normal THEN TermOf(bd, used, c) ELSE 0],
      applied |-> {c \in Scored(bd) : normal /\ WeightOf(bd, used, c) > 0}]

(* which of its sentences the rationale is *)
Rationale(rules, blend) ==
  IF rules.mode = "hard_rule" THEN "hard_rule"
  ELSE IF blend.mode = "rules_only_failsafe" THEN "failsafe"
  ELSE "score"

BuildDecisionExplainability(f, cfg, row, ev, source, threshold) ==
  LET rules == ExplainRules(f, cfg.params)
      blend == ExplainBlend(ev.breakdown, cfg.weights, ev.final, threshold, ev.decision, row.reason)
  IN [available |-> TRUE, source |-> source, version |-> row.rulesVersion,
      rules |-> rules, blend |-> blend, rationale |-> Rationale(rules, blend)]

Unavailable == [available |-> FALSE]
-----------------------------------------------------------------------------
(* the usage codes of IP2Proxy are never among these words                 *)
RecomputedIp(ev) ==
  [country |-> NULL, continent |-> NULL, vpn |-> ev.ip.vpn,
   datacenter |-> ev.ip.connection \in {"HOSTING", "DATACENTER"},
   carrier    |-> ev.ip.connection = "MOBILE",
   connection |-> ev.ip.connection]

NoDeviceInfo == [os |-> NULL, type |-> NULL]
NoCampaign   == [home |-> NULL, expectCarrier |-> FALSE, countries |-> {}]

(* features of an event stored before the column existed *)
RecomputeFeatures(ev) ==
  ExtractFeatures(ev.signals, RecomputedIp(ev), NoDeviceInfo, NoCampaign, 0)

(* slip: the newest configuration explains *)
NewestConfig(version, configs) == configs[Len(configs)]

(* get_by_version: the configuration the decision was made with *)
ConfigByVersion(version, configs) == configs[version]

(* _attach_explainability: the configuration the decision was made with.   *)
(* Without an event there are no signals, validating them raises, and the  *)
(* explanation is unavailable; so it is when the rules or the extraction   *)
(* raise again.  An absent configuration would leave the threshold stored. *)
DecisionDetail(row, ev, configs) ==
  IF ev = NULL \/ row = NULL THEN Unavailable
  ELSE LET stored == ev.features # NULL
           f      == IF stored THEN ev.features ELSE RecomputeFeatures(ev)
           cfg    == ConfigByVersion(row.rulesVersion, configs)
       IN IF f = NULL \/ cfg.params = MALFORMED \/ cfg.weights = MALFORMED THEN Unavailable
          ELSE BuildDecisionExplainability(f, cfg, row, ev,
                 IF stored THEN "stored_features" ELSE "recomputed_from_signals", cfg.threshold)
=============================================================================
