----------------------------- MODULE Decisions ------------------------------
(***************************************************************************)
(* A decision over time: the process scores with the configuration and the *)
(* models it loaded when it started (main.py), administrators publish      *)
(* others meanwhile, and an auditor asks for the explanation of a stored   *)
(* decision at any time (Explain).  One transaction; its visit is any of   *)
(* Visit.  Publication is one step here: ConfigVersions and ModelVersions  *)
(* have it exchange by exchange.                                           *)
(***************************************************************************)
EXTENDS Explain

CONSTANTS
    Visit,       \* what a visitor presents: signals, IP answers, campaign, cluster
    Config,      \* contents of a rule_configs row
    Prediction,  \* what the models may answer: a score for each, NULL when one raises
    MaxConfig,   \* bound: versions of the configuration
    MaxModel     \* bound: versions of the models

ASSUME VisitAssumption == \A v \in Visit : v.globals \in Nat

ASSUME PredictionAssumption ==
    \A p \in Prediction \ {NULL} : \A m \in {"isolation_forest", "lightgbm"} : p[m] \in 0..100

\* Nothing checks the weights an administrator sends: numbers may be negative.
ASSUME ConfigAssumption ==
    \A c \in Config : /\ c.threshold \in Int
                      /\ c.weights = MALFORMED \/ c.weights \in [Component -> Int]

ASSUME NoneAssumption == NULL \notin [Component -> 0..100 \cup {NULL}]

Model == {"isolation_forest", "lightgbm"}

VARIABLES
    configs,      \* rule_configs, by version; the last one is active
    artefacts,    \* model_versions, by version: the files that exist
    activeModel,  \* the active one, 0 for none
    proc,         \* app.state of the process, NULL when it is down
    visit,        \* history: what the visitor presented
    row,          \* the row of decisions, NULL before
    event         \* the row of traffic_events, NULL when there is none

vars == <<configs, artefacts, activeModel, proc, visit, row, event>>

NoVisit == NULL

(* the seed of migration 0002: threshold 0.5, rules only *)
Seed == [threshold |-> 50, weights |-> [rules |-> 100, isolation_forest |-> 0, lightgbm |-> 0],
         params |-> NULL]

Init ==
    /\ configs = <<Seed>>
    /\ artefacts = <<>>
    /\ activeModel = 0
    /\ proc = NULL
    /\ visit = NoVisit
    /\ row = NULL
    /\ event = NULL

PutConfig(c) ==
    /\ Len(configs) < MaxConfig
    /\ configs' = Append(configs, c)
    /\ UNCHANGED <<artefacts, activeModel, proc, visit, row, event>>

(* a retraining stores an isolation forest, and a LightGBM model when the  *)
(* labels suffice                                                          *)
Retrain(files) ==
    /\ Len(artefacts) < MaxModel
    /\ artefacts' = Append(artefacts, files)
    /\ UNCHANGED <<configs, activeModel, proc, visit, row, event>>

ActivateModel(n) ==
    /\ n \in DOMAIN artefacts \ {activeModel}
    /\ activeModel' = n
    /\ UNCHANGED <<configs, artefacts, proc, visit, row, event>>

(* ScoringModels.load: a file that does not exist is a missing component *)
LoadModels(n) == IF n = 0 THEN {} ELSE artefacts[n]

(* lifespan.  Reading the configuration may fail (the process is up and    *)
(* answers 503), and so may reading the models' row (a cold start).        *)
(* Bound: what the process does after the decision is of no interest here. *)
Start ==
    /\ proc = NULL /\ row = NULL
    /\ \E c \in {0, Len(configs)}, n \in {0, activeModel} :
         proc' = [config |-> c, model |-> n, models |-> LoadModels(n)]
    /\ UNCHANGED <<configs, artefacts, activeModel, visit, row, event>>

Stop ==
    /\ proc # NULL /\ row = NULL
    /\ proc' = NULL
    /\ UNCHANGED <<configs, artefacts, activeModel, visit, row, event>>
-----------------------------------------------------------------------------
(* slip: the active model is named, not the one loaded *)
ActiveModelVersion == activeModel

ModelVersionUsed == proc.model

FeaturesOf(v) == ExtractFeatures(v, EnrichIp(v), ParseDeviceInfo(v), v, v.cluster)

(* the gate on the country, then the engine *)
OutcomeOf(v, f, scores) ==
    LET config == configs[proc.config]
    IN IF ~CountryAllowed(v, v.country) THEN GeoBlock(config)
       ELSE Score(f, config, proc.models, scores)

RowOf(o) ==
    [decision |-> o.decision, threshold |-> o.threshold, reason |-> o.reason,
     rulesVersion |-> proc.config, modelVersion |-> ModelVersionUsed]

EventOf(v, o, f) ==
    [signals |-> v, ip |-> EnrichIp(v), features |-> f,
     decision |-> o.decision, final |-> o.final, breakdown |-> o.breakdown]

(* score_endpoint from the configuration to the event.  The event may be   *)
(* lost; it is lost when the extraction, called again to write it, raises; *)
(* a release before the column `features' wrote it without them.           *)
Decide(v, scores) ==
    /\ proc # NULL
    /\ proc.config # 0
    /\ row = NULL
    /\ LET f == FeaturesOf(v)
           o == OutcomeOf(v, f, scores)
       IN /\ o # NULL
          /\ visit' = v
          /\ row' = RowOf(o)
          /\ \/ event' = NULL
             \/ f # NULL /\ \E g \in {NULL, f} : event' = EventOf(v, o, g)
    /\ UNCHANGED <<configs, artefacts, activeModel, proc>>

Next ==
    \/ \E c \in Config : PutConfig(c)
    \/ \E files \in {{"isolation_forest"}, Model} : Retrain(files)
    \/ \E n \in 1..MaxModel : ActivateModel(n)
    \/ Start
    \/ Stop
    \/ \E v \in Visit, scores \in Prediction : Decide(v, scores)

Spec == Init /\ [][Next]_vars
-----------------------------------------------------------------------------
Decided == row # NULL

Explanation == DecisionDetail(row, event, configs)

DecidedWith == configs[row.rulesVersion]

(* A visit that shows a sign of automation the configuration forbids, that *)
(* cannot be read, or that comes from a country the campaign does not      *)
(* admit or nobody knows, is blocked, whatever the weights, the threshold  *)
(* and the models say (engine.py: "ekstraksi/rules gagal -> block",        *)
(* scoring.py: fail-closed).  Stated on what the visitor presented.        *)
FailsClosed ==
    Decided /\ \/ visit.malformed
               \/ DecidedWith.params = MALFORMED
               \/ /\ DecidedWith.params # MALFORMED
                  /\ \/ visit.webdriver /\ "webdriver" \in EnabledHardRules(DecidedWith.params)
                     \/ visit.trusted = FALSE /\ "isTrusted_false" \in EnabledHardRules(DecidedWith.params)
                     \/ visit.globals > 0 /\ "automation_globals" \in EnabledHardRules(DecidedWith.params)
               \/ visit.countries # {} /\ visit.country \notin visit.countries
      => row.decision = "block"

(* What the auditor is told is how it was: for a decision of the engine    *)
(* the explanation names the hard rule the row's reason names, shows the   *)
(* rules' score that was blended, and its mode follows from the reason,    *)
(* after any number of newer configurations and restarts.                  *)
ExplanationFaithful ==
    Decided /\ Explanation.available /\ Explanation.source = "stored_features"
            /\ row.reason # <<"rule", "country_not_allowed">>
      => LET e == Explanation IN
         /\ e.blend.threshold = row.threshold
         /\ row.reason[1] = "rule" <=> e.rules.triggered # {}
         /\ e.rules.triggered # {} => row.reason[2] = FirstTrigger(e.rules.triggered)
         /\ e.rules.triggered = {} => e.rules.effective = event.breakdown["rules"]

(* The shares shown for the components add up to the stored final score,   *)
(* and the verdict is where that sum lies against the threshold shown.     *)
(* Negative weights may take the sum beyond 1, where the blend cuts the    *)
(* score and the explanation does not; no other weights do.                *)
SharesAddUp ==
    Decided /\ Explanation.available /\ row.reason = NoReason
      => LET b == Explanation.blend
             sum == Total(LAMBDA c : b.contribution[c])
             cut == sum > 100 * b.den /\ ~ NoneNegative(DecidedWith.weights)
             shown == IF cut THEN 100 * b.den ELSE sum
         IN /\ shown * event.final.den = event.final.num * b.den
            /\ row.decision = "block" <=> shown >= b.threshold * b.den

(* The final score lies between the least and the greatest score of the    *)
(* components that were there, and the verdict is where it lies against    *)
(* the threshold: a missing model, a model that raises or a zero weight    *)
(* never pushes it outside, and without models the rules' score alone      *)
(* decides, whatever the weights, as long as none is negative (blend.py,   *)
(* engine.py's fail-safes).                                                *)
BlendInside ==
    event # NULL /\ Scored(event.breakdown) # {} /\ row.reason[1] # "rule"
      /\ (row.reason = NoReason => NoneNegative(DecidedWith.weights))
      => LET scores == {event.breakdown[c] : c \in Scored(event.breakdown)}
             num == event.final.num
             den == event.final.den
         IN /\ \E s \in scores : s * den <= num
            /\ \E s \in scores : s * den >= num
            /\ row.decision = "block" <=> num >= row.threshold * den

(* the visit's features with a factor raised *)
Raised(f, n) == [f EXCEPT ![n] = @ + 10]

(* One more suspicious sign never turns a block into an allow, with the    *)
(* same models' scores: no factor of the formula counts in the visitor's   *)
(* favour (ADR-024 took the carrier's discount away).  A negative weight   *)
(* would make them all count so.                                           *)
SuspicionNeverAllows ==
    event # NULL /\ event.features # NULL /\ row.decision = "block"
      /\ row.reason = NoReason /\ NoneNegative(DecidedWith.weights)
      => \A n \in Factor :
           Score(Raised(event.features, n), DecidedWith, Scored(event.breakdown), event.breakdown).decision
             = "block"

(* The versions a decision names are those it was made with: its threshold *)
(* is that version's, and a model's score in the breakdown comes from a    *)
(* file of that model version.                                             *)
VersionsTruthful ==
    Decided =>
      /\ row.threshold = DecidedWith.threshold
      /\ event # NULL =>
           \A m \in Model : event.breakdown[m] # NULL =>
             row.modelVersion # 0 /\ m \in artefacts[row.modelVersion]

(* explain.py:5: the explanation "tak pernah melenceng dari skor           *)
(* sebenarnya", and an effective score is one that was used (line 44).  A  *)
(* block by the country list is shown as a forced block and as a weighted  *)
(* score at once.                                                          *)
ModesAgree ==
    Decided /\ Explanation.available =>
      (Explanation.blend.mode = "hard_rule_forced" <=> Explanation.rules.mode = "hard_rule")
=============================================================================
