------------------------------- MODULE Engine -------------------------------
(***************************************************************************)
(* The scoring pipeline: rules (scoring/rules.py), models                  *)
(* (ml/inference.py), blend (scoring/blend.py) and the layered fail-safe   *)
(* of scoring/engine.py.  Pure operators.  Scores, thresholds and weights  *)
(* are in hundredths; a final score is an exact fraction num/den, where    *)
(* the code has a float.                                                   *)
(***************************************************************************)
EXTENDS Features, Sequences

CONSTANT MALFORMED  \* a value of a configuration's dictionaries that is not of its type

ASSUME NullAssumption == NULL \notin Int

HardOrder == <<"webdriver", "headless", "automation_globals", "isTrusted_false", "software_render">>
HardRule  == {HardOrder[i] : i \in DOMAIN HardOrder}

(* the feature each hard rule looks at (_HARD_SPECS) *)
HardFeature ==
  [webdriver          |-> "auto_webdriver",
   headless           |-> "auto_headless",
   automation_globals |-> "auto_globals_count",
   isTrusted_false    |-> "auto_istrusted_false",
   software_render    |-> "auto_software_render"]

(* SOFT_FACTORS: weights in tenths *)
Weight ==
  [automation_score             |-> 2, webview_risk          |-> 3,
   ip_is_datacenter             |-> 3, ip_is_vpn_proxy_tor   |-> 2,
   no_behavior                  |-> 2, ua_fp_inconsistent    |-> 3,
   campaign_geo_mismatch        |-> 2, ip_tz_geo_mismatch    |-> 2,
   mouse_on_touchless           |-> 2, color_depth_anomaly   |-> 1,
   fp_claims_desktop_but_mobile |-> 3, os_hw_family_mismatch |-> 3,
   low_fp_entropy               |-> 2, behavior_cluster      |-> 5,
   ip_is_mobile_carrier         |-> 0]

Factor == DOMAIN Weight

(* slip: the discount a carrier's address had before ADR-024 *)
WeightCarrierDiscount(n) == IF n = "ip_is_mobile_carrier" THEN -1 ELSE Weight[n]

FactorWeight(n) == Weight[n]

Contribution(f, n) == FactorWeight(n) * f[n]

SoftSum(f) ==
  Contribution(f, "automation_score") + Contribution(f, "webview_risk")
  + Contribution(f, "ip_is_datacenter") + Contribution(f, "ip_is_vpn_proxy_tor")
  + Contribution(f, "no_behavior") + Contribution(f, "ua_fp_inconsistent")
  + Contribution(f, "campaign_geo_mismatch") + Contribution(f, "ip_tz_geo_mismatch")
  + Contribution(f, "mouse_on_touchless") + Contribution(f, "color_depth_anomaly")
  + Contribution(f, "fp_claims_desktop_but_mobile") + Contribution(f, "os_hw_family_mismatch")
  + Contribution(f, "low_fp_entropy") + Contribution(f, "behavior_cluster")
  + Contribution(f, "ip_is_mobile_carrier")

Clamp(x) == IF x \in 0..100 THEN x ELSE IF x > 100 THEN 100 ELSE 0

SoftScore(f) == Clamp(SoftSum(f))

(* a configuration without the key enables every hard rule *)
EnabledHardRules(params) == IF params = NULL THEN HardRule ELSE params

(* the rules triggered, as their places in HardOrder, and the first one    *)
HardTriggers(f, enabled) ==
  {i \in DOMAIN HardOrder : HardOrder[i] \in enabled /\ f[HardFeature[HardOrder[i]]] > 0}

FirstTrigger(triggered) == HardOrder[CHOOSE i \in triggered : \A j \in triggered : i =< j]
-----------------------------------------------------------------------------
Component == {"rules", "isolation_forest", "lightgbm"}

NoScores == [c \in Component |-> NULL]

Scored(bd) == {c \in Component : bd[c] # NULL}

(* the smaller of 1.0 and num/den *)
AtMostOne(num, den) == [num |-> IF num > 100 * den THEN 100 * den ELSE num, den |-> den]

TermOf(bd, w, c) == IF bd[c] = NULL THEN 0 ELSE w[c] * bd[c]
WeightOf(bd, w, c) == IF bd[c] = NULL THEN 0 ELSE w[c]

Total(g(_)) == g("rules") + g("isolation_forest") + g("lightgbm")

(* slip: the weights of absent models count too *)
TotalWeightOfAll(bd, w) == Total(LAMBDA c : w[c])

TotalWeight(bd, w) == Total(LAMBDA c : WeightOf(bd, w, c))

WeightedSum(bd, w) == Total(LAMBDA c : TermOf(bd, w, c))

NoneNegative(w) == \A c \in Component : w[c] >= 0

UnitWeights == [c \in Component |-> 1]

(* components without a score are left out and the rest normalised; when   *)
(* no weight is left, the plain average                                    *)
Blend(bd, w) ==
  LET used == IF TotalWeight(bd, w) <= 0 THEN UnitWeights ELSE w
  IN AtMostOne(WeightedSum(bd, used), TotalWeight(bd, used))

AtLeast(final, threshold) == final.num >= threshold * final.den

Verdict(final, threshold) == IF AtLeast(final, threshold) THEN "block" ELSE "allow"
-----------------------------------------------------------------------------
(* the score of each model that is loaded; a cold start has none *)
Predict(models, scores) ==
  [c \in {"isolation_forest", "lightgbm"} |-> IF c \in models THEN scores[c] ELSE NULL]

Outcome(decision, final, config, reason, bd) ==
  [decision |-> decision, final |-> final, threshold |-> config.threshold,
   reason |-> reason, breakdown |-> bd]

One == [num |-> 100, den |-> 1]

NoReason == <<"none">>

Forced(config, reason, bd) == Outcome("block", One, config, reason, bd)

(* engine.score.  `f' is NULL when the extraction raised, `scores' when a  *)
(* prediction raises.  Weights that are no numbers raise past the          *)
(* fail-safes: the result is NULL and the request fails.                   *)
Score(f, config, models, scores) ==
  IF f = NULL THEN Forced(config, <<"failsafe", "extract_error">>, NoScores)
  ELSE IF config.params = MALFORMED THEN Forced(config, <<"failsafe", "rules_error">>, NoScores)
  ELSE
    LET risk      == SoftScore(f)
        triggered == HardTriggers(f, EnabledHardRules(config.params))
        rulesOnly == [NoScores EXCEPT !["rules"] = risk]
        judge(final, reason, bd) ==
          Outcome(Verdict(final, config.threshold), final, config, reason, bd)
    IN IF triggered # {} THEN Forced(config, <<"rule", FirstTrigger(triggered)>>, rulesOnly)
       ELSE IF scores = NULL
         THEN judge([num |-> risk, den |-> 1], <<"failsafe", "model_error_rules_only">>, rulesOnly)
       ELSE IF config.weights = MALFORMED THEN NULL
       ELSE LET bd == [rulesOnly EXCEPT !["isolation_forest"] = Predict(models, scores)["isolation_forest"],
                                        !["lightgbm"] = Predict(models, scores)["lightgbm"]]
            IN judge(Blend(bd, config.weights), NoReason, bd)

(***************************************************************************)
(* The campaign's country list, before the engine (api/scoring.py): an     *)
(* empty list admits all, an unknown country is in no list.                *)
(***************************************************************************)
(* slip: a lookup that failed is let through *)
CountryAllowedIfUnknown(camp, country) ==
  camp.countries = {} \/ country = NULL \/ country \in camp.countries

CountryAllowed(camp, country) == camp.countries = {} \/ country \in camp.countries

GeoBlock(config) == Forced(config, <<"rule", "country_not_allowed">>, NoScores)
=============================================================================
