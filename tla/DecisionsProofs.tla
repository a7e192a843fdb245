-------------------------- MODULE DecisionsProofs ---------------------------
(***************************************************************************)
(* Proofs about Decisions, for any visits, configurations, predictions and *)
(* numbers of publications: the gate fails closed, the versions a decision *)
(* names are those it was made with, the blend stays among the scores, and *)
(* the explanation of a decision tells how it was made, whenever it is     *)
(* asked for.                                                              *)
(***************************************************************************)
EXTENDS Decisions, TLAPS

(***************************************************************************)
(* Versions are only ever appended, and the process names versions that    *)
(* existed when it started.                                                *)
(***************************************************************************)
TypeOK ==
    /\ configs \in Seq(Config \cup {Seed})
    /\ artefacts \in Seq(SUBSET Model)
    /\ activeModel \in 0..Len(artefacts)

ProcTruthful ==
    proc # NULL =>
      /\ proc.config \in 0..Len(configs)
      /\ proc.model \in 0..Len(artefacts)
      /\ \A m \in proc.models : proc.model # 0 /\ m \in artefacts[proc.model]

RowTruthful == Decided => row.rulesVersion \in 1..Len(configs) /\ row.modelVersion \in 0..Len(artefacts)

IInv == TypeOK /\ ProcTruthful /\ RowTruthful /\ FailsClosed /\ VersionsTruthful

-----------------------------------------------------------------------------
(***************************************************************************)
(* The engine.                                                             *)
(***************************************************************************)
LEMMA ForcedBlocks ==
    ASSUME NEW config, NEW reason, NEW bd
    PROVE  /\ Forced(config, reason, bd).decision = "block"
           /\ Forced(config, reason, bd).threshold = config.threshold
           /\ Forced(config, reason, bd).breakdown = bd
BY DEF Forced, Outcome

(* A hard rule that is enabled and whose feature is raised triggers.       *)
LEMMA Triggers ==
    ASSUME NEW f, NEW enabled, NEW i \in 1..5, HardOrder[i] \in enabled,
           f[HardFeature[HardOrder[i]]] > 0
    PROVE  HardTriggers(f, enabled) # {}
<1>1. i \in DOMAIN HardOrder
  BY DEF HardOrder
<1> QED
  BY <1>1 DEF HardTriggers

(* Each layer of the engine that fails, and each hard rule, blocks.        *)
LEMMA EngineBlocks ==
    ASSUME NEW f, NEW config, NEW models, NEW scores,
           \/ f = NULL
           \/ config.params = MALFORMED
           \/ HardTriggers(f, EnabledHardRules(config.params)) # {}
    PROVE  Score(f, config, models, scores).decision = "block"
<1> DEFINE rulesOnly == [NoScores EXCEPT !["rules"] = SoftScore(f)]
           first == FirstTrigger(HardTriggers(f, EnabledHardRules(config.params)))
<1>1. CASE f = NULL
  <2>1. Score(f, config, models, scores) = Forced(config, <<"failsafe", "extract_error">>, NoScores)
    BY <1>1 DEF Score
  <2> QED
    BY <2>1, ForcedBlocks
<1>2. CASE f # NULL /\ config.params = MALFORMED
  <2>1. Score(f, config, models, scores) = Forced(config, <<"failsafe", "rules_error">>, NoScores)
    BY <1>2 DEF Score
  <2> QED
    BY <2>1, ForcedBlocks
<1>3. CASE f # NULL /\ config.params # MALFORMED
  <2>1. Score(f, config, models, scores) = Forced(config, <<"rule", first>>, rulesOnly)
    BY <1>3 DEF Score
  <2> QED
    BY <2>1, ForcedBlocks
<1> QED
  BY <1>1, <1>2, <1>3

(* An outcome has its configuration's threshold, and a model's score only  *)
(* when the model was loaded.                                              *)
LEMMA EngineTruthful ==
    ASSUME NEW f, NEW config, NEW models, NEW scores, Score(f, config, models, scores) # NULL
    PROVE  /\ Score(f, config, models, scores).threshold = config.threshold
           /\ \A m \in Model : Score(f, config, models, scores).breakdown[m] # NULL => m \in models
<1> DEFINE rulesOnly == [NoScores EXCEPT !["rules"] = SoftScore(f)]
           first == FirstTrigger(HardTriggers(f, EnabledHardRules(config.params)))
           full == [rulesOnly EXCEPT !["isolation_forest"] = Predict(models, scores)["isolation_forest"],
                                     !["lightgbm"] = Predict(models, scores)["lightgbm"]]
           o == Score(f, config, models, scores)
<1>1. \A m \in Model : NoScores[m] = NULL /\ rulesOnly[m] = NULL
  BY DEF Model, NoScores, Component
<1>2. \A m \in Model : full[m] # NULL => m \in models
  BY DEF Model, NoScores, Component, Predict
<1>3. CASE f = NULL
  <2>1. o = Forced(config, <<"failsafe", "extract_error">>, NoScores)
    BY <1>3 DEF Score
  <2> QED
    BY <1>1, <2>1, ForcedBlocks
<1>4. CASE f # NULL /\ config.params = MALFORMED
  <2>1. o = Forced(config, <<"failsafe", "rules_error">>, NoScores)
    BY <1>4 DEF Score
  <2> QED
    BY <1>1, <2>1, ForcedBlocks
<1>5. CASE f # NULL /\ config.params # MALFORMED
  <2> DEFINE triggered == HardTriggers(f, EnabledHardRules(config.params))
             alone == [num |-> SoftScore(f), den |-> 1]
             blended == Blend(full, config.weights)
             judge(final, reason, bd) ==
                 Outcome(Verdict(final, config.threshold), final, config, reason, bd)
  <2>1. o = IF triggered # {} THEN Forced(config, <<"rule", first>>, rulesOnly)
            ELSE IF scores = NULL
              THEN judge(alone, <<"failsafe", "model_error_rules_only">>, rulesOnly)
            ELSE IF config.weights = MALFORMED THEN NULL
            ELSE judge(blended, NoReason, full)
    BY <1>5 DEF Score
  <2> HIDE DEF rulesOnly, full, first, triggered, alone, blended
  <2>2. /\ \A final, reason : judge(final, reason, rulesOnly).threshold = config.threshold
        /\ \A final, reason : judge(final, reason, rulesOnly).breakdown = rulesOnly
        /\ \A final, reason : judge(final, reason, full).threshold = config.threshold
        /\ \A final, reason : judge(final, reason, full).breakdown = full
    BY DEF Outcome
  <2> HIDE DEF judge
  <2>3. CASE triggered # {}
    BY <1>1, <2>1, <2>3, ForcedBlocks
  <2>4. CASE triggered = {} /\ scores = NULL
    BY <1>1, <2>1, <2>2, <2>4
  <2>5. CASE triggered = {} /\ scores # NULL
    BY <1>2, <2>1, <2>2, <2>5
  <2> QED
    BY <2>3, <2>4, <2>5
<1> QED
  BY <1>3, <1>4, <1>5

-----------------------------------------------------------------------------
(***************************************************************************)
(* A decision.                                                             *)
(***************************************************************************)
LEMMA SignsRaiseFeatures ==
    ASSUME NEW v \in Visit, ~ v.malformed
    PROVE  /\ v.webdriver => FeaturesOf(v)["auto_webdriver"] > 0
           /\ v.trusted = FALSE => FeaturesOf(v)["auto_istrusted_false"] > 0
           /\ v.globals > 0 => FeaturesOf(v)["auto_globals_count"] > 0
<1> DEFINE f == FeaturesOf(v)
<1>1. /\ f["auto_webdriver"] = B(v.webdriver)
      /\ f["auto_istrusted_false"] = B(v.trusted = FALSE)
      /\ f["auto_globals_count"] = 10 * v.globals
  BY DEF FeaturesOf, ExtractFeatures
<1>2. v.webdriver => B(v.webdriver) = 10
  BY DEF B
<1>3. v.trusted = FALSE => B(v.trusted = FALSE) = 10
  BY DEF B
<1>4. v.globals > 0 => 10 * v.globals > 0
  BY VisitAssumption
<1> HIDE DEF f
<1> QED
  BY <1>1, <1>2, <1>3, <1>4 DEF f

(* What a visit or its configuration must show for FailsClosed to apply.   *)
Suspect(v, params) ==
    \/ v.malformed
    \/ params = MALFORMED
    \/ /\ params # MALFORMED
       /\ \/ v.webdriver /\ "webdriver" \in EnabledHardRules(params)
          \/ v.trusted = FALSE /\ "isTrusted_false" \in EnabledHardRules(params)
          \/ v.globals > 0 /\ "automation_globals" \in EnabledHardRules(params)

LEMMA SuspectBlocked ==
    ASSUME NEW v \in Visit, NEW config, Suspect(v, config.params), NEW models, NEW scores
    PROVE  Score(FeaturesOf(v), config, models, scores).decision = "block"
<1> DEFINE f == FeaturesOf(v)
           enabled == EnabledHardRules(config.params)
<1>1. CASE v.malformed
  <2>1. f = NULL
    BY <1>1 DEF FeaturesOf, ExtractFeatures
  <2> QED
    BY <2>1, EngineBlocks
<1>2. CASE config.params = MALFORMED
  BY <1>2, EngineBlocks
<1>3. CASE ~ v.malformed /\ config.params # MALFORMED
  <2>1. /\ HardOrder[1] = "webdriver" /\ HardFeature["webdriver"] = "auto_webdriver"
        /\ HardOrder[3] = "automation_globals" /\ HardFeature["automation_globals"] = "auto_globals_count"
        /\ HardOrder[4] = "isTrusted_false" /\ HardFeature["isTrusted_false"] = "auto_istrusted_false"
    BY DEF HardOrder, HardFeature
  <2>2. /\ v.webdriver => f["auto_webdriver"] > 0
        /\ v.trusted = FALSE => f["auto_istrusted_false"] > 0
        /\ v.globals > 0 => f["auto_globals_count"] > 0
    BY <1>3, SignsRaiseFeatures
  <2> HIDE DEF f, enabled
  <2>3. CASE v.webdriver /\ "webdriver" \in enabled
    <3>1. HardTriggers(f, enabled) # {}
      BY <2>1, <2>2, <2>3, Triggers
    <3> QED
      BY <3>1, EngineBlocks DEF f, enabled
  <2>4. CASE v.trusted = FALSE /\ "isTrusted_false" \in enabled
    <3>1. HardTriggers(f, enabled) # {}
      BY <2>1, <2>2, <2>4, Triggers
    <3> QED
      BY <3>1, EngineBlocks DEF f, enabled
  <2>5. CASE v.globals > 0 /\ "automation_globals" \in enabled
    <3>1. HardTriggers(f, enabled) # {}
      BY <2>1, <2>2, <2>5, Triggers
    <3> QED
      BY <3>1, EngineBlocks DEF f, enabled
  <2> QED
    BY <1>3, <2>3, <2>4, <2>5 DEF Suspect, enabled
<1> QED
  BY <1>1, <1>2, <1>3

LEMMA DecideFailsClosed ==
    ASSUME NEW v \in Visit, NEW scores, Decide(v, scores)
    PROVE  FailsClosed'
<1> DEFINE config == configs[proc.config]
           f == FeaturesOf(v)
           o == OutcomeOf(v, f, scores)
<1>1. visit' = v /\ row' = RowOf(o) /\ configs' = configs
  BY DEF Decide
<1>2. row'.decision = o.decision /\ row'.rulesVersion = proc.config
  BY <1>1 DEF RowOf
<1>3. CASE ~ CountryAllowed(v, v.country)
  <2>1. o.decision = "block"
    BY <1>3, ForcedBlocks DEF OutcomeOf, GeoBlock
  <2> QED
    BY <1>2, <2>1 DEF FailsClosed
<1>4. CASE CountryAllowed(v, v.country)
  <2>1. o = Score(f, config, proc.models, scores)
    BY <1>4 DEF OutcomeOf
  <2>2. ~ (v.countries # {} /\ v.country \notin v.countries)
    BY <1>4 DEF CountryAllowed
  <2>3. DecidedWith' = config
    BY <1>1, <1>2 DEF DecidedWith
  <2>4. Suspect(v, config.params) => row'.decision = "block"
    BY <1>2, <2>1, SuspectBlocked
  <2> HIDE DEF config
  <2> QED
    BY <1>1, <2>2, <2>3, <2>4 DEF FailsClosed, Suspect
<1> QED
  BY <1>3, <1>4

LEMMA DecideTruthful ==
    ASSUME ProcTruthful, NEW v \in Visit, NEW scores, Decide(v, scores)
    PROVE  RowTruthful' /\ VersionsTruthful'
<1> DEFINE config == configs[proc.config]
           f == FeaturesOf(v)
           o == OutcomeOf(v, f, scores)
<1>1. /\ row' = RowOf(o) /\ UNCHANGED <<configs, artefacts>> /\ o # NULL
      /\ proc # NULL /\ proc.config # 0
  BY DEF Decide
<1>2. /\ row'.threshold = o.threshold /\ row'.rulesVersion = proc.config
      /\ row'.modelVersion = proc.model
  BY <1>1 DEF RowOf, ModelVersionUsed
<1>3. event' # NULL => event'.breakdown = o.breakdown
  BY DEF Decide, EventOf
<1>4. o.threshold = config.threshold /\ \A m \in Model : o.breakdown[m] # NULL => m \in proc.models
  <2>1. CASE ~ CountryAllowed(v, v.country)
    <3>1. o = Forced(config, <<"rule", "country_not_allowed">>, NoScores)
      BY <2>1 DEF OutcomeOf, GeoBlock
    <3>2. \A m \in Model : NoScores[m] = NULL
      BY DEF Model, NoScores, Component
    <3> QED
      BY <3>1, <3>2, ForcedBlocks
  <2>2. CASE CountryAllowed(v, v.country)
    <3>1. o = Score(f, config, proc.models, scores)
      BY <2>2 DEF OutcomeOf
    <3> QED
      BY <1>1, <3>1, EngineTruthful
  <2> QED
    BY <2>1, <2>2
<1>5. RowTruthful'
  BY <1>1, <1>2 DEF RowTruthful, ProcTruthful
<1>6. DecidedWith' = config
  BY <1>1, <1>2 DEF DecidedWith
<1> HIDE DEF config, o
<1>7. row'.threshold = DecidedWith'.threshold
  BY <1>2, <1>4, <1>6
<1>8. ASSUME event' # NULL, NEW m \in Model, event'.breakdown[m] # NULL
      PROVE  row'.modelVersion # 0 /\ m \in artefacts'[row'.modelVersion]
  BY <1>1, <1>2, <1>3, <1>4, <1>8 DEF ProcTruthful
<1> QED
  BY <1>5, <1>7, <1>8 DEF VersionsTruthful

-----------------------------------------------------------------------------
(***************************************************************************)
(* The other steps: what is appended leaves the older versions as they are. *)
(***************************************************************************)
LEMMA Appended ==
    ASSUME NEW S, NEW s \in Seq(S), NEW e \in S
    PROVE  /\ Append(s, e) \in Seq(S) /\ Len(Append(s, e)) = Len(s) + 1 /\ Len(s) \in Nat
           /\ \A i \in 1..Len(s) : Append(s, e)[i] = s[i]
OBVIOUS

VersionsGrow ==
    /\ Len(configs) =< Len(configs') /\ \A i \in 1..Len(configs) : configs'[i] = configs[i]
    /\ Len(artefacts) =< Len(artefacts') /\ \A i \in 1..Len(artefacts) : artefacts'[i] = artefacts[i]

LEMMA RowStays ==
    ASSUME IInv, TypeOK', VersionsGrow, UNCHANGED <<visit, row, event>>
    PROVE  RowTruthful' /\ FailsClosed' /\ VersionsTruthful'
<1>0. Len(configs) \in Nat /\ Len(configs') \in Nat /\ Len(artefacts) \in Nat /\ Len(artefacts') \in Nat
  BY DEF IInv, TypeOK
<1>1. RowTruthful'
  BY <1>0 DEF IInv, RowTruthful, VersionsGrow, Decided
<1>2. Decided => DecidedWith' = DecidedWith
  BY DEF IInv, RowTruthful, VersionsGrow, DecidedWith
<1>3. Decided' = Decided
  BY DEF Decided
<1>4. FailsClosed'
  BY <1>2, <1>3 DEF IInv, FailsClosed
<1>5. ASSUME Decided, row.modelVersion # 0
      PROVE  artefacts'[row.modelVersion] = artefacts[row.modelVersion]
  BY <1>0, <1>5 DEF IInv, RowTruthful, VersionsGrow
<1>6. VersionsTruthful'
  BY <1>2, <1>3, <1>5 DEF IInv, VersionsTruthful
<1> QED
  BY <1>1, <1>4, <1>6

LEMMA ProcStays ==
    ASSUME IInv, TypeOK', VersionsGrow, UNCHANGED proc
    PROVE  ProcTruthful'
<1>0. Len(configs) \in Nat /\ Len(configs') \in Nat /\ Len(artefacts) \in Nat /\ Len(artefacts') \in Nat
  BY DEF IInv, TypeOK
<1> QED
  BY <1>0 DEF IInv, ProcTruthful, VersionsGrow

LEMMA InitIInv == Init => IInv
<1> SUFFICES ASSUME Init PROVE IInv
  OBVIOUS
<1>1. TypeOK
  BY DEF Init, TypeOK
<1>2. ProcTruthful /\ RowTruthful /\ FailsClosed /\ VersionsTruthful
  BY DEF Init, ProcTruthful, RowTruthful, FailsClosed, VersionsTruthful, Decided
<1> QED
  BY <1>1, <1>2 DEF IInv

LEMMA StepIInv == IInv /\ [Next]_vars => IInv'
<1> SUFFICES ASSUME IInv, [Next]_vars PROVE IInv'
  OBVIOUS
<1>1. ASSUME NEW c \in Config, PutConfig(c) PROVE IInv'
  <2>1. configs' = Append(configs, c) /\ UNCHANGED <<artefacts, activeModel, proc, visit, row, event>>
    BY <1>1 DEF PutConfig
  <2>2. TypeOK' /\ VersionsGrow
    BY <2>1, Appended DEF IInv, TypeOK, VersionsGrow
  <2> QED
    BY <2>1, <2>2, RowStays, ProcStays DEF IInv
<1>2. ASSUME NEW files \in {{"isolation_forest"}, Model}, Retrain(files) PROVE IInv'
  <2>1. artefacts' = Append(artefacts, files) /\ UNCHANGED <<configs, activeModel, proc, visit, row, event>>
    BY <1>2 DEF Retrain
  <2>2. files \in SUBSET Model
    BY DEF Model
  <2>3. TypeOK' /\ VersionsGrow
    BY <2>1, <2>2, Appended DEF IInv, TypeOK, VersionsGrow
  <2> QED
    BY <2>1, <2>3, RowStays, ProcStays DEF IInv
<1>3. ASSUME NEW n \in 1..MaxModel, ActivateModel(n) PROVE IInv'
  <2>1. activeModel' = n /\ n \in DOMAIN artefacts /\ UNCHANGED <<configs, artefacts, proc, visit, row, event>>
    BY <1>3 DEF ActivateModel
  <2>2. TypeOK' /\ VersionsGrow
    BY <2>1 DEF IInv, TypeOK, VersionsGrow
  <2> QED
    BY <2>1, <2>2, RowStays, ProcStays DEF IInv
<1>4. ASSUME Start PROVE IInv'
  <2>1. UNCHANGED <<configs, artefacts, activeModel, visit, row, event>>
    BY <1>4 DEF Start
  <2>2. TypeOK' /\ VersionsGrow
    BY <2>1 DEF IInv, TypeOK, VersionsGrow
  <2>3. PICK c \in {0, Len(configs)}, n \in {0, activeModel} :
             proc' = [config |-> c, model |-> n, models |-> LoadModels(n)]
    BY <1>4 DEF Start
  <2>4. c \in 0..Len(configs) /\ n \in 0..Len(artefacts)
    BY DEF IInv, TypeOK
  <2>5. \A m \in LoadModels(n) : n # 0 /\ m \in artefacts[n]
    BY DEF LoadModels
  <2>6. ProcTruthful'
    BY <2>1, <2>3, <2>4, <2>5 DEF ProcTruthful
  <2> QED
    BY <2>1, <2>2, <2>6, RowStays DEF IInv
<1>5. ASSUME Stop PROVE IInv'
  <2>1. UNCHANGED <<configs, artefacts, activeModel, visit, row, event>> /\ proc' = NULL
    BY <1>5 DEF Stop
  <2>2. TypeOK' /\ VersionsGrow /\ ProcTruthful'
    BY <2>1 DEF IInv, TypeOK, VersionsGrow, ProcTruthful
  <2> QED
    BY <2>1, <2>2, RowStays DEF IInv
<1>6. ASSUME NEW v \in Visit, NEW scores \in Prediction, Decide(v, scores) PROVE IInv'
  <2>1. UNCHANGED <<configs, artefacts, activeModel, proc>>
    BY <1>6 DEF Decide
  <2>2. TypeOK' /\ ProcTruthful'
    BY <2>1 DEF IInv, TypeOK, ProcTruthful
  <2> QED
    BY <1>6, <2>2, DecideFailsClosed, DecideTruthful DEF IInv
<1>7. CASE UNCHANGED vars
  <2>1. UNCHANGED <<configs, artefacts, activeModel, proc, visit, row, event>>
    BY <1>7 DEF vars
  <2>2. TypeOK' /\ VersionsGrow
    BY <2>1 DEF IInv, TypeOK, VersionsGrow
  <2> QED
    BY <2>1, <2>2, RowStays, ProcStays DEF IInv
<1> QED
  BY <1>1, <1>2, <1>3, <1>4, <1>5, <1>6, <1>7 DEF Next

LEMMA AlwaysIInv == Spec => []IInv
BY InitIInv, StepIInv, PTL DEF Spec

(***************************************************************************)
(* A visit that shows a forbidden sign of automation, that cannot be read  *)
(* or that comes from a country not admitted is blocked, whatever the      *)
(* weights, the threshold and the models (engine.py's fail-safes).         *)
(***************************************************************************)
THEOREM GateFailsClosed == Spec => []FailsClosed
BY AlwaysIInv, PTL DEF IInv

(***************************************************************************)
(* The versions a decision names are those it was made with.               *)
(***************************************************************************)
THEOREM NamesItsVersions == Spec => []VersionsTruthful
BY AlwaysIInv, PTL DEF IInv

-----------------------------------------------------------------------------
(***************************************************************************)
(* The blend is a weighted mean, of the components that have a score.      *)
(***************************************************************************)
Breakdown == [Component -> 0..100 \cup {NULL}]

Weights == [Component -> Nat]

AnyWeights == [Component -> Int]

LEMMA MoreOfMore ==
    ASSUME NEW w \in Nat, NEW x \in Int, NEW y \in Int, x =< y
    PROVE  w * x =< w * y
OBVIOUS

LEMMA TermType ==
    ASSUME NEW bd \in Breakdown, NEW w \in Weights, NEW c \in Component
    PROVE  TermOf(bd, w, c) \in Nat /\ WeightOf(bd, w, c) \in Nat
<1>1. CASE bd[c] = NULL
  BY <1>1 DEF TermOf, WeightOf
<1>2. CASE bd[c] # NULL
  <2>1. bd[c] \in Nat /\ w[c] \in Nat
    BY <1>2 DEF Breakdown, Weights
  <2>2. w[c] * bd[c] \in Nat
    BY <2>1
  <2> QED
    BY <1>2, <2>1, <2>2 DEF TermOf, WeightOf
<1> QED
  BY <1>1, <1>2

(* A score that bounds the others bounds every weighted term.              *)
LEMMA TermBounds ==
    ASSUME NEW bd \in Breakdown, NEW w \in Weights, NEW c \in Component, NEW s \in Nat
    PROVE  /\ (bd[c] # NULL => s =< bd[c]) => WeightOf(bd, w, c) * s =< TermOf(bd, w, c)
           /\ (bd[c] # NULL => bd[c] =< s) => TermOf(bd, w, c) =< WeightOf(bd, w, c) * s
<1>1. CASE bd[c] = NULL
  BY <1>1 DEF TermOf, WeightOf
<1>2. CASE bd[c] # NULL
  <2>1. bd[c] \in Nat /\ w[c] \in Nat
    BY <1>2 DEF Breakdown, Weights
  <2> QED
    BY <1>2, <2>1, MoreOfMore DEF TermOf, WeightOf
<1> QED
  BY <1>1, <1>2

LEMMA SumBounds ==
    ASSUME NEW bd \in Breakdown, NEW w \in Weights, NEW s \in Nat
    PROVE  /\ (\A c \in Scored(bd) : s =< bd[c]) => TotalWeight(bd, w) * s =< WeightedSum(bd, w)
           /\ (\A c \in Scored(bd) : bd[c] =< s) => WeightedSum(bd, w) =< TotalWeight(bd, w) * s
           /\ TotalWeight(bd, w) \in Nat /\ WeightedSum(bd, w) \in Nat
<1> DEFINE a == WeightOf(bd, w, "rules")
           b == WeightOf(bd, w, "isolation_forest")
           c == WeightOf(bd, w, "lightgbm")
           x == TermOf(bd, w, "rules")
           y == TermOf(bd, w, "isolation_forest")
           z == TermOf(bd, w, "lightgbm")
<1>1. TotalWeight(bd, w) = a + b + c /\ WeightedSum(bd, w) = x + y + z
  BY DEF TotalWeight, WeightedSum, Total
<1>2. a \in Nat /\ b \in Nat /\ c \in Nat /\ x \in Nat /\ y \in Nat /\ z \in Nat
  BY TermType DEF Component
<1>3. (\A k \in Scored(bd) : s =< bd[k]) => a * s =< x /\ b * s =< y /\ c * s =< z
  BY TermBounds DEF Component, Scored
<1>4. (\A k \in Scored(bd) : bd[k] =< s) => x =< a * s /\ y =< b * s /\ z =< c * s
  BY TermBounds DEF Component, Scored
<1> HIDE DEF a, b, c, x, y, z
<1>5. (a + b + c) * s = a * s + b * s + c * s
  BY <1>2
<1>6. a * s \in Nat /\ b * s \in Nat /\ c * s \in Nat
  BY <1>2
<1> QED
  BY <1>1, <1>2, <1>3, <1>4, <1>5, <1>6

LEMMA ExtremesExist ==
    ASSUME NEW bd \in Breakdown, Scored(bd) # {}
    PROVE  /\ \E k \in Scored(bd) : \A c \in Scored(bd) : bd[k] =< bd[c]
           /\ \E k \in Scored(bd) : \A c \in Scored(bd) : bd[c] =< bd[k]
<1> DEFINE r == bd["rules"]
           i == bd["isolation_forest"]
           l == bd["lightgbm"]
<1>1. /\ r \in Nat \cup {NULL} /\ i \in Nat \cup {NULL} /\ l \in Nat \cup {NULL}
  BY DEF Breakdown, Component
<1>2. Scored(bd) \subseteq {"rules", "isolation_forest", "lightgbm"}
      /\ ("rules" \in Scored(bd) <=> r # NULL)
      /\ ("isolation_forest" \in Scored(bd) <=> i # NULL)
      /\ ("lightgbm" \in Scored(bd) <=> l # NULL)
  BY DEF Scored, Component
<1> HIDE DEF r, i, l
<1>3. \E k \in Scored(bd) : \A c \in Scored(bd) : bd[k] =< bd[c]
  BY <1>1, <1>2, NullAssumption DEF r, i, l
<1>4. \E k \in Scored(bd) : \A c \in Scored(bd) : bd[c] =< bd[k]
  BY <1>1, <1>2, NullAssumption DEF r, i, l
<1> QED
  BY <1>3, <1>4

LEMMA BlendBetween ==
    ASSUME NEW bd \in Breakdown, Scored(bd) # {}, NEW w \in Weights
    PROVE  LET final == Blend(bd, w)
           IN /\ \E k \in Scored(bd) : bd[k] * final.den =< final.num
              /\ \E k \in Scored(bd) : bd[k] * final.den >= final.num
<1> DEFINE used == IF TotalWeight(bd, w) <= 0 THEN UnitWeights ELSE w
           num == WeightedSum(bd, used)
           den == TotalWeight(bd, used)
<1>1. used \in Weights
  BY DEF Weights, UnitWeights
<1> HIDE DEF used
<1>2. den \in Nat /\ num \in Nat
  BY <1>1, SumBounds
<1>3. PICK k \in Scored(bd) : \A c \in Scored(bd) : bd[k] =< bd[c]
  BY ExtremesExist
<1>4. PICK j \in Scored(bd) : \A c \in Scored(bd) : bd[c] =< bd[j]
  BY ExtremesExist
<1>5. bd[k] \in 0..100 /\ bd[j] \in 0..100
  BY DEF Scored, Breakdown
<1>6. den * bd[k] =< num /\ num =< den * bd[j]
  <2>1. bd[k] \in Nat /\ bd[j] \in Nat
    BY <1>5
  <2>2. TotalWeight(bd, used) * bd[k] =< WeightedSum(bd, used)
    BY <1>1, <1>3, <2>1, SumBounds
  <2>3. WeightedSum(bd, used) =< TotalWeight(bd, used) * bd[j]
    BY <1>1, <1>4, <2>1, SumBounds
  <2> QED
    BY <2>2, <2>3
<1>7. /\ Blend(bd, w).num = IF num > 100 * den THEN 100 * den ELSE num
      /\ Blend(bd, w).den = den
  BY DEF Blend, AtMostOne, used
<1> HIDE DEF num, den
<1>8. bd[k] * den = den * bd[k] /\ bd[j] * den = den * bd[j]
  BY <1>2, <1>5
<1>9. den * bd[k] =< den * 100 /\ den * 100 = 100 * den
  BY <1>2, <1>5, MoreOfMore
<1>10. bd[k] * den =< Blend(bd, w).num /\ bd[j] * den >= Blend(bd, w).num
  <2>1. den * bd[k] \in Int /\ den * bd[j] \in Int /\ 100 * den \in Int
    BY <1>2, <1>5
  <2> QED
    BY <1>2, <1>6, <1>7, <1>8, <1>9, <2>1
<1> QED
  BY <1>7, <1>10

(***************************************************************************)
(* What the engine answers, by layer.                                      *)
(***************************************************************************)
RulesOnly(f) == [NoScores EXCEPT !["rules"] = SoftScore(f)]

Full(f, models, scores) ==
    [RulesOnly(f) EXCEPT !["isolation_forest"] = Predict(models, scores)["isolation_forest"],
                         !["lightgbm"] = Predict(models, scores)["lightgbm"]]

LEMMA EngineCases ==
    ASSUME NEW f, NEW config, NEW models, NEW scores, Score(f, config, models, scores) # NULL
    PROVE  LET o == Score(f, config, models, scores)
           IN \/ /\ o = Forced(config, o.reason, o.breakdown)
                 /\ o.reason[1] = "rule" \/ (o.reason[1] = "failsafe" /\ o.breakdown = NoScores)
              \/ /\ o = Outcome(Verdict(o.final, config.threshold), o.final, config, o.reason, o.breakdown)
                 /\ o.final = [num |-> SoftScore(f), den |-> 1]
                 /\ o.breakdown = RulesOnly(f)
                 /\ o.reason = <<"failsafe", "model_error_rules_only">>
              \/ /\ f # NULL /\ scores # NULL /\ config.params # MALFORMED /\ config.weights # MALFORMED
                 /\ o = Outcome(Verdict(o.final, config.threshold), o.final, config, NoReason, o.breakdown)
                 /\ o.final = Blend(o.breakdown, config.weights)
                 /\ o.breakdown = Full(f, models, scores)
<1> DEFINE o == Score(f, config, models, scores)
           triggered == HardTriggers(f, EnabledHardRules(config.params))
           alone == [num |-> SoftScore(f), den |-> 1]
           blended == Blend(Full(f, models, scores), config.weights)
           judge(final, reason, bd) ==
               Outcome(Verdict(final, config.threshold), final, config, reason, bd)
<1>1. CASE f = NULL
  <2>1. o = Forced(config, <<"failsafe", "extract_error">>, NoScores)
    BY <1>1 DEF Score
  <2> QED
    BY <2>1 DEF Forced, Outcome
<1>2. CASE f # NULL /\ config.params = MALFORMED
  <2>1. o = Forced(config, <<"failsafe", "rules_error">>, NoScores)
    BY <1>2 DEF Score
  <2> QED
    BY <2>1 DEF Forced, Outcome
<1>3. CASE f # NULL /\ config.params # MALFORMED
  <2>1. o = IF triggered # {} THEN Forced(config, <<"rule", FirstTrigger(triggered)>>, RulesOnly(f))
            ELSE IF scores = NULL
              THEN judge(alone, <<"failsafe", "model_error_rules_only">>, RulesOnly(f))
            ELSE IF config.weights = MALFORMED THEN NULL
            ELSE judge(blended, NoReason, Full(f, models, scores))
    BY <1>3 DEF Score, RulesOnly, Full
  <2> HIDE DEF triggered, alone, blended
  <2>2. CASE triggered # {}
    <3>1. o = Forced(config, <<"rule", FirstTrigger(triggered)>>, RulesOnly(f))
      BY <2>1, <2>2
    <3> QED
      BY <3>1 DEF Forced, Outcome
  <2>3. CASE triggered = {} /\ scores = NULL
    <3>1. o = judge(alone, <<"failsafe", "model_error_rules_only">>, RulesOnly(f))
      BY <2>1, <2>3
    <3> QED
      BY <3>1 DEF Outcome, alone
  <2>4. CASE triggered = {} /\ scores # NULL
    <3>1. o = judge(blended, NoReason, Full(f, models, scores)) /\ config.weights # MALFORMED
      BY <2>1, <2>4
    <3> QED
      BY <1>3, <2>4, <3>1 DEF Outcome, blended
  <2> QED
    BY <2>2, <2>3, <2>4
<1> QED
  BY <1>1, <1>2, <1>3

LEMMA SoftScoreType == ASSUME NEW f PROVE SoftScore(f) \in 0..100
BY DEF SoftScore, Clamp

LEMMA RulesOnlyType ==
    ASSUME NEW f
    PROVE  /\ RulesOnly(f) \in Breakdown /\ Scored(RulesOnly(f)) = {"rules"}
           /\ RulesOnly(f)["rules"] = SoftScore(f)
<1> DEFINE risk == SoftScore(f)
<1>1. risk \in 0..100 /\ risk # NULL
  BY SoftScoreType, NullAssumption
<1>2. RulesOnly(f) = [NoScores EXCEPT !["rules"] = risk]
  BY DEF RulesOnly
<1> HIDE DEF risk
<1> QED
  BY <1>1, <1>2 DEF NoScores, Component, Breakdown, Scored, risk

LEMMA FullType ==
    ASSUME NEW f, NEW models, NEW scores \in Prediction \ {NULL}
    PROVE  /\ Full(f, models, scores) \in Breakdown /\ "rules" \in Scored(Full(f, models, scores))
           /\ Full(f, models, scores)["rules"] = SoftScore(f)
<1> DEFINE i == Predict(models, scores)["isolation_forest"]
           l == Predict(models, scores)["lightgbm"]
<1>1. SoftScore(f) # NULL
  BY SoftScoreType, NullAssumption
<1>2. i \in 0..100 \cup {NULL} /\ l \in 0..100 \cup {NULL}
  BY PredictionAssumption DEF Predict
<1>3. Full(f, models, scores) = [RulesOnly(f) EXCEPT !["isolation_forest"] = i, !["lightgbm"] = l]
  BY DEF Full
<1> HIDE DEF i, l
<1> QED
  BY <1>1, <1>2, <1>3, RulesOnlyType DEF Component, Breakdown, Scored

LEMMA VerdictIs ==
    ASSUME NEW final, NEW threshold
    PROVE  Verdict(final, threshold) = "block" <=> final.num >= threshold * final.den
BY DEF Verdict, AtLeast

LEMMA ConfigType ==
    ASSUME TypeOK, NEW i \in 1..Len(configs)
    PROVE  configs[i].threshold \in Int /\ (configs[i].weights # MALFORMED => configs[i].weights \in AnyWeights)
<1>1. configs[i] \in Config \cup {Seed}
  BY DEF TypeOK
<1>2. Seed.weights \in AnyWeights /\ Seed.threshold \in Int
  BY DEF Seed, AnyWeights, Component
<1> QED
  BY <1>1, <1>2, ConfigAssumption DEF AnyWeights

LEMMA NaturalWeights ==
    ASSUME NEW w \in AnyWeights, NoneNegative(w)
    PROVE  w \in Weights
BY DEF AnyWeights, Weights, NoneNegative

(* The version an event's row names is still there.                        *)
EventNamed == event # NULL => row.rulesVersion \in 1..Len(configs)

LEMMA StepGrows ==
    ASSUME IInv, Next
    PROVE  VersionsGrow /\ (UNCHANGED <<row, event>> \/ \E v \in Visit, scores \in Prediction : Decide(v, scores))
<1>1. ASSUME NEW c \in Config, PutConfig(c) PROVE VersionsGrow /\ UNCHANGED <<row, event>>
  BY <1>1, Appended DEF IInv, TypeOK, VersionsGrow, PutConfig
<1>2. ASSUME NEW files \in {{"isolation_forest"}, Model}, Retrain(files)
      PROVE  VersionsGrow /\ UNCHANGED <<row, event>>
  <2>1. files \in SUBSET Model
    BY DEF Model
  <2> QED
    BY <1>2, <2>1, Appended DEF IInv, TypeOK, VersionsGrow, Retrain
<1>3. ASSUME UNCHANGED <<configs, artefacts>> PROVE VersionsGrow
  BY <1>3 DEF IInv, TypeOK, VersionsGrow
<1> QED
  BY <1>1, <1>2, <1>3 DEF Next, ActivateModel, Start, Stop, Decide

(* A step decides, or leaves the decision and its configuration as they are. *)
LEMMA StepNamed ==
    ASSUME IInv, EventNamed, [Next]_vars
    PROVE  /\ EventNamed'
           /\ \/ \E v \in Visit, scores \in Prediction : Decide(v, scores)
              \/ UNCHANGED <<row, event>> /\ (event # NULL => DecidedWith' = DecidedWith)
<1>1. CASE UNCHANGED vars
  BY <1>1 DEF vars, EventNamed, DecidedWith
<1>2. CASE \E v \in Visit, scores \in Prediction : Decide(v, scores)
  <2>1. row'.rulesVersion = proc.config /\ proc.config \in 1..Len(configs) /\ configs' = configs
    BY <1>2 DEF Decide, RowOf, IInv, ProcTruthful, TypeOK
  <2> QED
    BY <1>2, <2>1 DEF EventNamed
<1>3. CASE VersionsGrow /\ UNCHANGED <<row, event>>
  <2>1. Len(configs) \in Nat
    BY DEF IInv, TypeOK
  <2>2. Len(configs') \in Nat
    BY StepIInv DEF IInv, TypeOK
  <2> QED
    BY <1>3, <2>1, <2>2 DEF EventNamed, VersionsGrow, DecidedWith
<1> QED
  BY <1>1, <1>2, <1>3, StepGrows

LEMMA AlwaysNamed == Spec => []EventNamed
<1>1. Init => EventNamed
  BY DEF Init, EventNamed
<1>2. IInv /\ EventNamed /\ [Next]_vars => EventNamed'
  BY StepNamed
<1> QED
  BY <1>1, <1>2, AlwaysIInv, PTL DEF Spec

LEMMA DecideBlendInside ==
    ASSUME TypeOK, ProcTruthful, NEW v \in Visit, NEW scores \in Prediction, Decide(v, scores)
    PROVE  BlendInside'
<1> DEFINE config == configs[proc.config]
           f == FeaturesOf(v)
           o == OutcomeOf(v, f, scores)
           bd == o.breakdown
<1>1. /\ row' = RowOf(o) /\ o # NULL /\ proc # NULL /\ proc.config # 0 /\ configs' = configs
  BY DEF Decide
<1>2. /\ row'.threshold = o.threshold /\ row'.decision = o.decision /\ row'.reason = o.reason
      /\ DecidedWith' = config
  BY <1>1 DEF RowOf, DecidedWith
<1>3. event' # NULL => event'.breakdown = bd /\ event'.final = o.final
  BY DEF Decide, EventOf
<1> SUFFICES ASSUME Scored(bd) # {}, o.reason[1] # "rule",
                    o.reason = NoReason => NoneNegative(config.weights)
             PROVE  /\ \E k \in Scored(bd) : bd[k] * o.final.den =< o.final.num
                    /\ \E k \in Scored(bd) : bd[k] * o.final.den >= o.final.num
                    /\ o.decision = "block" <=> o.final.num >= o.threshold * o.final.den
  BY <1>2, <1>3 DEF BlendInside
<1>4. CountryAllowed(v, v.country)
  <2> SUFFICES ASSUME ~ CountryAllowed(v, v.country) PROVE FALSE
    OBVIOUS
  <2>1. o = Forced(config, <<"rule", "country_not_allowed">>, NoScores)
    BY DEF OutcomeOf, GeoBlock
  <2> QED
    BY <2>1 DEF Forced, Outcome
<1>5. o = Score(f, config, proc.models, scores)
  BY <1>4 DEF OutcomeOf
<1>6. Scored(NoScores) = {}
  BY DEF Scored, NoScores
<1> HIDE DEF o, config, f
<1>7. CASE /\ o = Outcome(Verdict(o.final, config.threshold), o.final, config, o.reason, bd)
           /\ o.final = [num |-> SoftScore(f), den |-> 1]
           /\ bd = RulesOnly(f)
  <2>1. o.decision = Verdict(o.final, config.threshold) /\ o.threshold = config.threshold
    BY <1>7 DEF Outcome
  <2>2. o.final.num = SoftScore(f) /\ o.final.den = 1 /\ SoftScore(f) \in 0..100
    BY <1>7, SoftScoreType
  <2>3. "rules" \in Scored(bd) /\ bd["rules"] * o.final.den = o.final.num
    BY <1>7, <2>2, RulesOnlyType
  <2> QED
    BY <2>1, <2>2, <2>3, VerdictIs
<1>8. CASE /\ f # NULL /\ scores # NULL /\ config.params # MALFORMED /\ config.weights # MALFORMED
           /\ o = Outcome(Verdict(o.final, config.threshold), o.final, config, NoReason, bd)
           /\ o.final = Blend(bd, config.weights)
           /\ bd = Full(f, proc.models, scores)
  <2>1. o.decision = Verdict(o.final, config.threshold) /\ o.threshold = config.threshold
    BY <1>8 DEF Outcome
  <2>2. config.weights \in Weights
    <3>1. config.weights \in AnyWeights
      BY <1>1, <1>8, ConfigType DEF ProcTruthful, config
    <3>2. o.reason = NoReason
      BY <1>8 DEF Outcome
    <3> QED
      BY <3>1, <3>2, NaturalWeights
  <2>3. bd \in Breakdown
    BY <1>8, FullType
  <2>4. /\ \E k \in Scored(bd) : bd[k] * o.final.den =< o.final.num
        /\ \E k \in Scored(bd) : bd[k] * o.final.den >= o.final.num
    BY <1>8, <2>2, <2>3, BlendBetween
  <2> QED
    BY <2>1, <2>4, VerdictIs
<1>9. CASE o.reason[1] = "rule" \/ (o.reason[1] = "failsafe" /\ bd = NoScores)
  BY <1>6, <1>9
<1> QED
  BY <1>1, <1>5, <1>7, <1>8, <1>9, EngineCases

(***************************************************************************)
(* The final score of every decision of the engine lies among the scores   *)
(* it was made of, for any weights none of which is negative, and the      *)
(* verdict is where it lies against the threshold (blend.py, engine.py).   *)
(***************************************************************************)
THEOREM BlendStaysInside == Spec => []BlendInside
<1>1. Init => BlendInside
  BY DEF Init, BlendInside
<1>2. IInv /\ EventNamed /\ BlendInside /\ [Next]_vars => BlendInside'
  <2> SUFFICES ASSUME IInv, EventNamed, BlendInside, [Next]_vars PROVE BlendInside'
    OBVIOUS
  <2>1. CASE \E v \in Visit, scores \in Prediction : Decide(v, scores)
    BY <2>1, DecideBlendInside DEF IInv
  <2>2. CASE UNCHANGED <<row, event>> /\ (event # NULL => DecidedWith' = DecidedWith)
    BY <2>2 DEF BlendInside
  <2> QED
    BY <2>1, <2>2, StepNamed
<1> QED
  BY <1>1, <1>2, AlwaysIInv, AlwaysNamed, PTL DEF Spec

-----------------------------------------------------------------------------
(***************************************************************************)
(* One more sign raises the rules' score, and with it the blend.           *)
(***************************************************************************)
LEMMA FactorsAreWeighted == \A m \in Factor : FactorWeight(m) \in Nat
BY DEF Factor, FactorWeight, Weight

LEMMA FeaturesType ==
    ASSUME NEW v \in Visit, ~ v.malformed
    PROVE  Factor \subseteq DOMAIN FeaturesOf(v) /\ \A m \in Factor : FeaturesOf(v)[m] \in Nat
<1>1. WebviewRisk(v) \in Nat
  BY DEF WebviewRisk
<1>2. AutomationScore(v) \in Nat
  BY DEF AutomationScore, B
<1> QED
  BY <1>1, <1>2 DEF FeaturesOf, ExtractFeatures, B, Factor, Weight

LEMMA SoftSumRises ==
    ASSUME NEW f, NEW g, \A m \in Factor : f[m] \in Nat /\ g[m] \in Nat /\ f[m] =< g[m]
    PROVE  SoftSum(f) \in Nat /\ SoftSum(g) \in Nat /\ SoftSum(f) =< SoftSum(g)
<1>1. ASSUME NEW m \in Factor
      PROVE  /\ Contribution(f, m) \in Nat /\ Contribution(g, m) \in Nat
             /\ Contribution(f, m) =< Contribution(g, m)
  <2>1. FactorWeight(m) \in Nat /\ f[m] \in Nat /\ g[m] \in Nat /\ f[m] =< g[m]
    BY FactorsAreWeighted
  <2> QED
    BY <2>1, MoreOfMore DEF Contribution
<1>2. {"automation_score", "webview_risk", "ip_is_datacenter", "ip_is_vpn_proxy_tor", "no_behavior",
       "ua_fp_inconsistent", "campaign_geo_mismatch", "ip_tz_geo_mismatch", "mouse_on_touchless",
       "color_depth_anomaly", "fp_claims_desktop_but_mobile", "os_hw_family_mismatch", "low_fp_entropy",
       "behavior_cluster", "ip_is_mobile_carrier"} \subseteq Factor
  BY DEF Factor, Weight
<1> QED
  BY <1>1, <1>2 DEF SoftSum

LEMMA SoftScoreRises ==
    ASSUME NEW f, NEW g, \A m \in Factor : f[m] \in Nat /\ g[m] \in Nat /\ f[m] =< g[m]
    PROVE  SoftScore(f) =< SoftScore(g)
BY SoftSumRises DEF SoftScore, Clamp

LEMMA RaisedRises ==
    ASSUME NEW v \in Visit, ~ v.malformed, NEW n \in Factor
    PROVE  SoftScore(FeaturesOf(v)) =< SoftScore(Raised(FeaturesOf(v), n))
<1> DEFINE f == FeaturesOf(v)
           g == Raised(f, n)
<1>1. Factor \subseteq DOMAIN f /\ \A m \in Factor : f[m] \in Nat
  BY FeaturesType
<1> HIDE DEF f
<1>2. \A m \in Factor : g[m] = IF m = n THEN f[m] + 10 ELSE f[m]
  BY <1>1 DEF Raised
<1>3. \A m \in Factor : f[m] \in Nat /\ g[m] \in Nat /\ f[m] =< g[m]
  BY <1>1, <1>2
<1> HIDE DEF g
<1>4. SoftScore(f) =< SoftScore(g)
  BY <1>3, SoftScoreRises
<1> QED
  BY <1>4 DEF f, g

(* With the other scores as they are, a higher score of the rules gives a  *)
(* higher blend: the same denominator and no smaller a numerator.          *)
LEMMA BlendRises ==
    ASSUME NEW bd \in Breakdown, NEW up \in Breakdown, NEW w \in Weights,
           bd["rules"] # NULL, up["rules"] # NULL, bd["rules"] =< up["rules"],
           \A m \in Model : up[m] = bd[m]
    PROVE  /\ Blend(up, w).den = Blend(bd, w).den
           /\ Blend(bd, w).num =< Blend(up, w).num
           /\ Blend(bd, w).num \in Int /\ Blend(up, w).num \in Int /\ Blend(bd, w).den \in Int
<1>1. ASSUME NEW u \in Weights
      PROVE  /\ TotalWeight(up, u) = TotalWeight(bd, u)
             /\ WeightedSum(bd, u) =< WeightedSum(up, u)
             /\ WeightedSum(bd, u) \in Nat /\ WeightedSum(up, u) \in Nat /\ TotalWeight(bd, u) \in Nat
  <2>1. \A m \in Model : TermOf(up, u, m) = TermOf(bd, u, m) /\ WeightOf(up, u, m) = WeightOf(bd, u, m)
    BY DEF TermOf, WeightOf
  <2>2. WeightOf(up, u, "rules") = WeightOf(bd, u, "rules")
    BY DEF WeightOf
  <2>3. TermOf(bd, u, "rules") =< TermOf(up, u, "rules")
    <3>1. u["rules"] \in Nat /\ bd["rules"] \in Int /\ up["rules"] \in Int
      BY DEF Weights, Breakdown, Component
    <3> QED
      BY <3>1, MoreOfMore DEF TermOf
  <2>4. \A c \in Component : TermOf(bd, u, c) \in Nat /\ TermOf(up, u, c) \in Nat
    BY TermType
  <2>5. TotalWeight(up, u) = TotalWeight(bd, u)
    BY <2>1, <2>2 DEF TotalWeight, Total, Model
  <2>6. WeightedSum(bd, u) =< WeightedSum(up, u)
    BY <2>1, <2>3, <2>4 DEF WeightedSum, Total, Model, Component
  <2>7. /\ WeightedSum(bd, u) \in Nat /\ WeightedSum(up, u) \in Nat /\ TotalWeight(bd, u) \in Nat
    BY SumBounds
  <2> QED
    BY <2>5, <2>6, <2>7
<1> DEFINE used == IF TotalWeight(bd, w) <= 0 THEN UnitWeights ELSE w
<1>2. used \in Weights /\ TotalWeight(up, w) = TotalWeight(bd, w)
  BY <1>1 DEF Weights, UnitWeights
<1>3. /\ Blend(bd, w) = AtMostOne(WeightedSum(bd, used), TotalWeight(bd, used))
      /\ Blend(up, w) = AtMostOne(WeightedSum(up, used), TotalWeight(up, used))
  BY <1>2 DEF Blend
<1> HIDE DEF used
<1>4. /\ TotalWeight(up, used) = TotalWeight(bd, used)
      /\ WeightedSum(bd, used) =< WeightedSum(up, used)
      /\ WeightedSum(bd, used) \in Nat /\ WeightedSum(up, used) \in Nat /\ TotalWeight(bd, used) \in Nat
  BY <1>1, <1>2
<1> QED
  BY <1>3, <1>4 DEF AtMostOne

(* The engine on features with a higher rules' score, and the same models' *)
(* scores, when it blocked.                                                *)
LEMMA StillBlocks ==
    ASSUME NEW config, config.threshold \in Int, config.weights \in Weights,
           config.weights # MALFORMED,
           NEW f, NEW g, SoftScore(f) =< SoftScore(g),
           NEW bd \in Breakdown, bd["rules"] = SoftScore(f),
           Blend(bd, config.weights).num >= config.threshold * Blend(bd, config.weights).den
    PROVE  Score(g, config, Scored(bd), bd).decision = "block"
<1> DEFINE up == Full(g, Scored(bd), bd)
           w == config.weights
           o == Score(g, config, Scored(bd), bd)
<1>1. bd # NULL
  BY NoneAssumption DEF Breakdown
<1>2. /\ SoftScore(f) \in 0..100 /\ SoftScore(g) \in 0..100
      /\ SoftScore(f) # NULL /\ SoftScore(g) # NULL
  BY SoftScoreType, NullAssumption
<1>3. \A m \in Model : Predict(Scored(bd), bd)[m] = bd[m]
  BY DEF Predict, Scored, Model, Component
<1>4. /\ up \in Breakdown /\ up["rules"] = SoftScore(g)
      /\ \A m \in Model : up[m] = bd[m]
  <2> DEFINE i == Predict(Scored(bd), bd)["isolation_forest"]
             l == Predict(Scored(bd), bd)["lightgbm"]
  <2>1. i = bd["isolation_forest"] /\ l = bd["lightgbm"]
    BY <1>3 DEF Model
  <2>2. up = [RulesOnly(g) EXCEPT !["isolation_forest"] = i, !["lightgbm"] = l]
    BY DEF Full
  <2>3. RulesOnly(g) \in Breakdown /\ RulesOnly(g)["rules"] = SoftScore(g)
    BY RulesOnlyType
  <2> HIDE DEF up, i, l
  <2> QED
    BY <2>1, <2>2, <2>3 DEF Breakdown, Model, Component
<1> HIDE DEF up
<1>5. /\ Blend(up, w).den = Blend(bd, w).den
      /\ Blend(bd, w).num =< Blend(up, w).num
      /\ Blend(bd, w).num \in Int /\ Blend(up, w).num \in Int /\ Blend(bd, w).den \in Int
  BY <1>2, <1>4, BlendRises
<1>6. Blend(up, w).num >= config.threshold * Blend(up, w).den
  <2>1. config.threshold * Blend(bd, w).den \in Int
    BY <1>5
  <2> QED
    BY <1>5, <2>1
<1>7. Verdict(Blend(up, w), config.threshold) = "block"
  BY <1>6, VerdictIs
<1>8. CASE \/ g = NULL
           \/ config.params = MALFORMED
           \/ HardTriggers(g, EnabledHardRules(config.params)) # {}
  BY <1>8, EngineBlocks
<1>9. CASE /\ g # NULL
           /\ config.params # MALFORMED
           /\ HardTriggers(g, EnabledHardRules(config.params)) = {}
  <2>1. o = Outcome(Verdict(Blend(up, w), config.threshold), Blend(up, w), config, NoReason, up)
    BY <1>1, <1>9 DEF Score, Full, RulesOnly, up
  <2> QED
    BY <1>7, <2>1 DEF Outcome
<1> QED
  BY <1>8, <1>9

LEMMA DecideSuspicion ==
    ASSUME TypeOK, ProcTruthful, NEW v \in Visit, NEW scores \in Prediction, Decide(v, scores)
    PROVE  SuspicionNeverAllows'
<1> DEFINE config == configs[proc.config]
           f == FeaturesOf(v)
           o == OutcomeOf(v, f, scores)
           bd == o.breakdown
<1>1. /\ row' = RowOf(o) /\ o # NULL /\ proc # NULL /\ proc.config # 0 /\ configs' = configs
  BY DEF Decide
<1>2. /\ row'.decision = o.decision /\ row'.reason = o.reason /\ row'.rulesVersion = proc.config
  BY <1>1 DEF RowOf
<1>3. event' # NULL /\ event'.features # NULL =>
         event'.breakdown = bd /\ event'.features = f /\ f # NULL
  BY DEF Decide, EventOf
<1>4. DecidedWith' = config
  BY <1>1, <1>2 DEF DecidedWith
<1> SUFFICES ASSUME f # NULL, o.decision = "block", o.reason = NoReason,
                    NoneNegative(config.weights), NEW n \in Factor
             PROVE  Score(Raised(f, n), config, Scored(bd), bd).decision = "block"
  BY <1>2, <1>3, <1>4 DEF SuspicionNeverAllows
<1>5. o.reason[1] = "none"
  BY DEF NoReason
<1>6. CountryAllowed(v, v.country)
  <2> SUFFICES ASSUME ~ CountryAllowed(v, v.country) PROVE FALSE
    OBVIOUS
  <2>1. o = Forced(config, <<"rule", "country_not_allowed">>, NoScores)
    BY DEF OutcomeOf, GeoBlock
  <2> QED
    BY <1>5, <2>1 DEF Forced, Outcome
<1>7. o = Score(f, config, proc.models, scores)
  BY <1>6 DEF OutcomeOf
<1>8. ~ v.malformed
  BY DEF FeaturesOf, ExtractFeatures
<1>9. SoftScore(f) =< SoftScore(Raised(f, n))
  BY <1>8, RaisedRises
<1> HIDE DEF o, config, f
<1>10. /\ scores # NULL /\ config.weights # MALFORMED
       /\ o = Outcome(Verdict(o.final, config.threshold), o.final, config, NoReason, bd)
       /\ o.final = Blend(bd, config.weights)
       /\ bd = Full(f, proc.models, scores)
  <2>1. \/ /\ o = Forced(config, o.reason, bd)
           /\ o.reason[1] = "rule" \/ (o.reason[1] = "failsafe" /\ bd = NoScores)
        \/ /\ o = Outcome(Verdict(o.final, config.threshold), o.final, config, o.reason, bd)
           /\ o.final = [num |-> SoftScore(f), den |-> 1]
           /\ bd = RulesOnly(f)
           /\ o.reason = <<"failsafe", "model_error_rules_only">>
        \/ /\ f # NULL /\ scores # NULL /\ config.params # MALFORMED /\ config.weights # MALFORMED
           /\ o = Outcome(Verdict(o.final, config.threshold), o.final, config, NoReason, bd)
           /\ o.final = Blend(bd, config.weights)
           /\ bd = Full(f, proc.models, scores)
    BY <1>1, <1>7, EngineCases
  <2>2. <<"failsafe", "model_error_rules_only">>[1] = "failsafe"
    OBVIOUS
  <2> QED
    BY <1>5, <2>1, <2>2
<1>11. bd \in Breakdown /\ bd["rules"] = SoftScore(f)
  BY <1>10, FullType
<1>12. config.threshold \in Int /\ config.weights \in Weights
  BY <1>1, <1>10, ConfigType, NaturalWeights DEF ProcTruthful, config
<1>13. Verdict(Blend(bd, config.weights), config.threshold) = "block"
  BY <1>10 DEF Outcome
<1>14. Blend(bd, config.weights).num >= config.threshold * Blend(bd, config.weights).den
  BY <1>13, VerdictIs
<1> QED
  BY <1>9, <1>10, <1>11, <1>12, <1>14, StillBlocks

(***************************************************************************)
(* No factor of the formula counts in the visitor's favour: with the same  *)
(* models' scores, one more suspicious sign leaves a block a block (rules. *)
(* py:26-47, ADR-024).                                                     *)
(***************************************************************************)
THEOREM SignsNeverHelp == Spec => []SuspicionNeverAllows
<1>1. Init => SuspicionNeverAllows
  BY DEF Init, SuspicionNeverAllows
<1>2. IInv /\ EventNamed /\ SuspicionNeverAllows /\ [Next]_vars => SuspicionNeverAllows'
  <2> SUFFICES ASSUME IInv, EventNamed, SuspicionNeverAllows, [Next]_vars
               PROVE  SuspicionNeverAllows'
    OBVIOUS
  <2>1. CASE \E v \in Visit, scores \in Prediction : Decide(v, scores)
    BY <2>1, DecideSuspicion DEF IInv
  <2>2. CASE UNCHANGED <<row, event>> /\ (event # NULL => DecidedWith' = DecidedWith)
    BY <2>2 DEF SuspicionNeverAllows
  <2> QED
    BY <2>1, <2>2, StepNamed
<1> QED
  BY <1>1, <1>2, AlwaysIInv, AlwaysNamed, PTL DEF Spec

-----------------------------------------------------------------------------
(***************************************************************************)
(* The explanation.  It runs the rules again, on the features stored, with *)
(* the configuration the row names: what the engine did then.              *)
(***************************************************************************)
LEMMA EngineExplains ==
    ASSUME NEW f, f # NULL, NEW config, config.params # MALFORMED, config.weights # MALFORMED,
           NEW models, NEW scores \in Prediction
    PROVE  LET o == Score(f, config, models, scores)
               triggered == HardTriggers(f, EnabledHardRules(config.params))
           IN /\ o.threshold = config.threshold
              /\ o.reason[1] = "rule" <=> triggered # {}
              /\ triggered # {} => o.reason[2] = FirstTrigger(triggered)
              /\ triggered = {} => o.breakdown["rules"] = SoftScore(f)
<1> DEFINE o == Score(f, config, models, scores)
           triggered == HardTriggers(f, EnabledHardRules(config.params))
           alone == [num |-> SoftScore(f), den |-> 1]
           blended == Blend(Full(f, models, scores), config.weights)
           judge(final, reason, bd) ==
               Outcome(Verdict(final, config.threshold), final, config, reason, bd)
<1>1. o = IF triggered # {} THEN Forced(config, <<"rule", FirstTrigger(triggered)>>, RulesOnly(f))
          ELSE IF scores = NULL
            THEN judge(alone, <<"failsafe", "model_error_rules_only">>, RulesOnly(f))
          ELSE judge(blended, NoReason, Full(f, models, scores))
  BY DEF Score, RulesOnly, Full
<1> HIDE DEF triggered, alone, blended, o
<1>2. CASE triggered # {}
  <2>1. o = Forced(config, <<"rule", FirstTrigger(triggered)>>, RulesOnly(f))
    BY <1>1, <1>2
  <2>2. o.threshold = config.threshold /\ o.reason = <<"rule", FirstTrigger(triggered)>>
    BY <2>1 DEF Forced, Outcome
  <2> QED
    BY <1>2, <2>2 DEF o, triggered
<1>3. CASE triggered = {} /\ scores = NULL
  <2>1. o = judge(alone, <<"failsafe", "model_error_rules_only">>, RulesOnly(f))
    BY <1>1, <1>3
  <2>2. /\ o.threshold = config.threshold /\ o.reason = <<"failsafe", "model_error_rules_only">>
        /\ o.breakdown = RulesOnly(f)
    BY <2>1 DEF Outcome
  <2>3. o.reason[1] # "rule" /\ o.breakdown["rules"] = SoftScore(f)
    BY <2>2, RulesOnlyType
  <2> QED
    BY <1>3, <2>2, <2>3 DEF o, triggered
<1>4. CASE triggered = {} /\ scores # NULL
  <2>1. o = judge(blended, NoReason, Full(f, models, scores))
    BY <1>1, <1>4
  <2>2. /\ o.threshold = config.threshold /\ o.reason = <<"none">>
        /\ o.breakdown = Full(f, models, scores)
    BY <2>1 DEF Outcome, NoReason
  <2>3. o.reason[1] # "rule" /\ o.breakdown["rules"] = SoftScore(f)
    BY <1>4, <2>2, FullType
  <2> QED
    BY <1>4, <2>2, <2>3 DEF o, triggered
<1> QED
  BY <1>2, <1>3, <1>4

(* What an explanation that is available is made of.                       *)
ExplanationParts ==
    Explanation.available =>
      /\ event # NULL /\ row # NULL
      /\ DecidedWith.params # MALFORMED /\ DecidedWith.weights # MALFORMED
      /\ Explanation.blend =
           ExplainBlend(event.breakdown, DecidedWith.weights, event.final, DecidedWith.threshold,
                        event.decision, row.reason)
      /\ Explanation.source = "stored_features" =>
           /\ event.features # NULL
           /\ Explanation.rules = ExplainRules(event.features, DecidedWith.params)

LEMMA ExplanationNow == ExplanationParts
<1> SUFFICES ASSUME Explanation.available PROVE ExplanationParts
  BY DEF ExplanationParts
<1> DEFINE stored == event.features # NULL
           f == IF stored THEN event.features ELSE RecomputeFeatures(event)
           source == IF stored THEN "stored_features" ELSE "recomputed_from_signals"
           cfg == DecidedWith
<1>1. Unavailable.available = FALSE
  BY DEF Unavailable
<1>2. event # NULL /\ row # NULL
  BY <1>1 DEF Explanation, DecisionDetail
<1>3. Explanation = IF f = NULL \/ cfg.params = MALFORMED \/ cfg.weights = MALFORMED THEN Unavailable
                    ELSE BuildDecisionExplainability(f, cfg, row, event, source, cfg.threshold)
  BY <1>2 DEF Explanation, DecisionDetail, DecidedWith, ConfigByVersion
<1> HIDE DEF f, cfg, source
<1>4. /\ cfg.params # MALFORMED /\ cfg.weights # MALFORMED
      /\ Explanation = BuildDecisionExplainability(f, cfg, row, event, source, cfg.threshold)
  BY <1>1, <1>3
<1>5. /\ Explanation.source = source
      /\ Explanation.rules = ExplainRules(f, cfg.params)
      /\ Explanation.blend = ExplainBlend(event.breakdown, cfg.weights, event.final, cfg.threshold,
                                         event.decision, row.reason)
  BY <1>4 DEF BuildDecisionExplainability
<1>6. source = "stored_features" => event.features # NULL /\ f = event.features
  BY DEF source, f
<1> QED
  BY <1>2, <1>4, <1>5, <1>6 DEF cfg, ExplanationParts

LEMMA ExplanationThen == ExplanationParts'
BY ExplanationNow, PTL

(* What a decision of the engine leaves in its row and its event.          *)
LEMMA DecideIs ==
    ASSUME TypeOK, ProcTruthful, NEW v \in Visit, NEW scores \in Prediction, Decide(v, scores),
           row'.reason # <<"rule", "country_not_allowed">>
    PROVE  LET config == configs[proc.config]
               f == FeaturesOf(v)
               o == Score(f, config, proc.models, scores)
           IN /\ DecidedWith' = config /\ row'.rulesVersion \in 1..Len(configs)
              /\ o # NULL
              /\ row'.reason = o.reason /\ row'.threshold = o.threshold /\ row'.decision = o.decision
              /\ event' # NULL => /\ f # NULL
                                 /\ event'.features \in {NULL, f}
                                 /\ event'.breakdown = o.breakdown /\ event'.final = o.final
<1> DEFINE config == configs[proc.config]
           f == FeaturesOf(v)
           o == OutcomeOf(v, f, scores)
<1>1. /\ row' = RowOf(o) /\ o # NULL /\ proc # NULL /\ proc.config # 0 /\ configs' = configs
      /\ event' # NULL => f # NULL /\ \E g \in {NULL, f} : event' = EventOf(v, o, g)
  BY DEF Decide
<1>2. /\ row'.reason = o.reason /\ row'.threshold = o.threshold /\ row'.decision = o.decision
      /\ row'.rulesVersion = proc.config
  BY <1>1 DEF RowOf
<1>3. CountryAllowed(v, v.country)
  <2> SUFFICES ASSUME ~ CountryAllowed(v, v.country) PROVE FALSE
    OBVIOUS
  <2>1. o = Forced(config, <<"rule", "country_not_allowed">>, NoScores)
    BY DEF OutcomeOf, GeoBlock
  <2> QED
    BY <1>2, <2>1 DEF Forced, Outcome
<1>4. o = Score(f, config, proc.models, scores)
  BY <1>3 DEF OutcomeOf
<1>5. DecidedWith' = config /\ row'.rulesVersion \in 1..Len(configs)
  BY <1>1, <1>2 DEF DecidedWith, ProcTruthful
<1>6. event' # NULL => /\ f # NULL
                      /\ event'.features \in {NULL, f}
                      /\ event'.breakdown = o.breakdown /\ event'.final = o.final
  <2> HIDE DEF f, o
  <2> QED
    BY <1>1 DEF EventOf
<1> HIDE DEF config, f, o
<1> QED
  BY <1>1, <1>2, <1>4, <1>5, <1>6 DEF config, f, o

LEMMA DecideFaithful ==
    ASSUME TypeOK, ProcTruthful, NEW v \in Visit, NEW scores \in Prediction, Decide(v, scores)
    PROVE  ExplanationFaithful'
<1> DEFINE config == configs[proc.config]
           f == FeaturesOf(v)
           o == Score(f, config, proc.models, scores)
           e == Explanation'
           triggered == HardTriggers(f, EnabledHardRules(config.params))
<1> SUFFICES ASSUME e.available, e.source = "stored_features",
                    row'.reason # <<"rule", "country_not_allowed">>
             PROVE  /\ e.blend.threshold = row'.threshold
                    /\ row'.reason[1] = "rule" <=> e.rules.triggered # {}
                    /\ e.rules.triggered # {} => row'.reason[2] = FirstTrigger(e.rules.triggered)
                    /\ e.rules.triggered = {} => e.rules.effective = event'.breakdown["rules"]
  BY DEF ExplanationFaithful
<1>1. /\ event' # NULL /\ event'.features # NULL
      /\ DecidedWith'.params # MALFORMED /\ DecidedWith'.weights # MALFORMED
      /\ e.blend = ExplainBlend(event'.breakdown, DecidedWith'.weights, event'.final,
                              DecidedWith'.threshold, event'.decision, row'.reason)
      /\ e.rules = ExplainRules(event'.features, DecidedWith'.params)
  BY ExplanationThen DEF ExplanationParts
<1>2. /\ DecidedWith' = config
      /\ row'.reason = o.reason /\ row'.threshold = o.threshold
      /\ f # NULL /\ event'.features = f
      /\ event'.breakdown = o.breakdown
  BY <1>1, DecideIs
<1>3. e.blend.threshold = config.threshold
  BY <1>1, <1>2 DEF ExplainBlend
<1>4. e.rules.triggered = triggered /\ (triggered = {} => e.rules.effective = SoftScore(f))
  BY <1>1, <1>2 DEF ExplainRules
<1>5. /\ o.threshold = config.threshold
      /\ o.reason[1] = "rule" <=> triggered # {}
      /\ triggered # {} => o.reason[2] = FirstTrigger(triggered)
      /\ triggered = {} => o.breakdown["rules"] = SoftScore(f)
  <2>1. f # NULL /\ config.params # MALFORMED /\ config.weights # MALFORMED
    BY <1>1, <1>2
  <2> HIDE DEF config, f, e
  <2> QED
    BY <2>1, EngineExplains
<1> HIDE DEF config, f, o, e, triggered
<1> QED
  BY <1>2, <1>3, <1>4, <1>5

SumOfShares(b) == b.contribution["rules"] + b.contribution["isolation_forest"] + b.contribution["lightgbm"]

(* What the shares come to: their sum, cut at one where the blend was.      *)
ShownOf(b, w) ==
    IF SumOfShares(b) > 100 * b.den /\ ~ NoneNegative(w) THEN 100 * b.den ELSE SumOfShares(b)

LEMMA TermsAreNumbers ==
    ASSUME NEW bd \in Breakdown, NEW w \in AnyWeights
    PROVE  TotalWeight(bd, w) \in Int /\ WeightedSum(bd, w) \in Int
<1>1. ASSUME NEW c \in Component PROVE TermOf(bd, w, c) \in Int /\ WeightOf(bd, w, c) \in Int
  <2>1. w[c] \in Int /\ (bd[c] # NULL => bd[c] \in Int)
    BY DEF Breakdown, AnyWeights
  <2>2. bd[c] # NULL => w[c] * bd[c] \in Int
    BY <2>1
  <2> QED
    BY <2>1, <2>2 DEF TermOf, WeightOf
<1> QED
  BY <1>1 DEF TotalWeight, WeightedSum, Total, Component

(* The blend, once more: the shares are its terms, and exceed one only when *)
(* a weight is negative.                                                    *)
LEMMA SharesAre ==
    ASSUME NEW bd \in Breakdown, NEW w \in AnyWeights, NEW threshold \in Int,
           NEW final, final = Blend(bd, w), NEW decision, decision = Verdict(final, threshold),
           NEW told
    PROVE  LET b == ExplainBlend(bd, w, final, threshold, told, NoReason)
           IN /\ ShownOf(b, w) * final.den = final.num * b.den
              /\ decision = "block" <=> ShownOf(b, w) >= b.threshold * b.den
<1> DEFINE b == ExplainBlend(bd, w, final, threshold, told, NoReason)
           used == IF TotalWeight(bd, w) <= 0 THEN UnitWeights ELSE w
           num == WeightedSum(bd, used)
           den == TotalWeight(bd, used)
<1>1. used \in AnyWeights
  BY DEF AnyWeights, UnitWeights
<1>2. /\ b.threshold = threshold /\ b.den = den
      /\ b.contribution = [c \in Component |-> TermOf(bd, used, c)]
  <2>1. BlendMode(bd, w, NoReason) = IF TotalWeight(bd, w) <= 0 THEN "simple_average_fallback"
                                     ELSE "weighted_normalized"
    BY DEF BlendMode, NoReason
  <2> QED
    BY <2>1 DEF ExplainBlend
<1>3. final.num = (IF num > 100 * den THEN 100 * den ELSE num) /\ final.den = den
  BY DEF Blend, AtMostOne
<1> HIDE DEF used, b
<1>4. SumOfShares(b) = num
  BY <1>2 DEF SumOfShares, WeightedSum, Total, Component
<1>5. num \in Int /\ den \in Int
  BY <1>1, TermsAreNumbers
<1>6. ASSUME NoneNegative(w) PROVE num <= den * 100
  <2>1. \A c \in Scored(bd) : bd[c] <= 100
    BY DEF Scored, Breakdown
  <2>2. used \in Weights
    BY <1>6, NaturalWeights DEF used, Weights, UnitWeights
  <2> QED
    BY <2>1, <2>2, SumBounds
<1> HIDE DEF num, den
<1>7. final.num = ShownOf(b, w)
  BY <1>2, <1>3, <1>4, <1>5, <1>6 DEF ShownOf
<1>8. decision = "block" <=> final.num >= threshold * den
  BY <1>3, VerdictIs
<1>9. /\ ShownOf(b, w) * final.den = final.num * b.den
      /\ decision = "block" <=> ShownOf(b, w) >= b.threshold * b.den
  BY <1>2, <1>3, <1>7, <1>8
<1> QED
  BY <1>9 DEF b

LEMMA DecideShares ==
    ASSUME TypeOK, ProcTruthful, NEW v \in Visit, NEW scores \in Prediction, Decide(v, scores)
    PROVE  SharesAddUp'
<1> DEFINE config == configs[proc.config]
           f == FeaturesOf(v)
           o == Score(f, config, proc.models, scores)
           bd == o.breakdown
           b == Explanation'.blend
           shown == ShownOf(b, DecidedWith'.weights)
<1> SUFFICES ASSUME Explanation'.available, row'.reason = NoReason
             PROVE  /\ shown * event'.final.den = event'.final.num * b.den
                    /\ row'.decision = "block" <=> shown >= b.threshold * b.den
  BY DEF SharesAddUp, ShownOf, SumOfShares, Total
<1>1. /\ event' # NULL
      /\ b = ExplainBlend(event'.breakdown, DecidedWith'.weights, event'.final,
                        DecidedWith'.threshold, event'.decision, row'.reason)
  BY ExplanationThen DEF ExplanationParts
<1>2. row'.reason # <<"rule", "country_not_allowed">>
  BY DEF NoReason
<1>3. /\ DecidedWith' = config /\ o # NULL
      /\ row'.reason = o.reason /\ row'.decision = o.decision
      /\ event'.breakdown = bd /\ event'.final = o.final
  BY <1>1, <1>2, DecideIs
<1>4. o.reason[1] = "none"
  BY <1>3 DEF NoReason
<1> HIDE DEF o, config, f
<1>5. /\ scores # NULL /\ config.weights # MALFORMED
      /\ o = Outcome(Verdict(o.final, config.threshold), o.final, config, NoReason, bd)
      /\ o.final = Blend(bd, config.weights)
      /\ bd = Full(f, proc.models, scores)
  <2>1. \/ /\ o = Forced(config, o.reason, bd)
           /\ o.reason[1] = "rule" \/ (o.reason[1] = "failsafe" /\ bd = NoScores)
        \/ /\ o = Outcome(Verdict(o.final, config.threshold), o.final, config, o.reason, bd)
           /\ o.final = [num |-> SoftScore(f), den |-> 1]
           /\ bd = RulesOnly(f)
           /\ o.reason = <<"failsafe", "model_error_rules_only">>
        \/ /\ f # NULL /\ scores # NULL /\ config.params # MALFORMED /\ config.weights # MALFORMED
           /\ o = Outcome(Verdict(o.final, config.threshold), o.final, config, NoReason, bd)
           /\ o.final = Blend(bd, config.weights)
           /\ bd = Full(f, proc.models, scores)
    BY <1>3, EngineCases DEF o
  <2>2. <<"failsafe", "model_error_rules_only">>[1] = "failsafe"
    OBVIOUS
  <2> QED
    BY <1>4, <2>1, <2>2
<1>6. bd \in Breakdown
  BY <1>5, FullType
<1>7. config.threshold \in Int /\ config.weights \in AnyWeights
  <2>1. proc.config \in 1..Len(configs)
    BY DEF Decide, ProcTruthful, TypeOK
  <2> QED
    BY <1>5, <2>1, ConfigType DEF config
<1>8. o.decision = Verdict(o.final, config.threshold)
  BY <1>5 DEF Outcome
<1>9. b = ExplainBlend(bd, config.weights, o.final, config.threshold, event'.decision, NoReason)
  BY <1>1, <1>3
<1>10. shown = ShownOf(b, config.weights)
  BY <1>3
<1> HIDE DEF bd, b, shown
<1>11. /\ shown * o.final.den = o.final.num * b.den
       /\ o.decision = "block" <=> shown >= b.threshold * b.den
  BY <1>5, <1>6, <1>7, <1>8, <1>9, <1>10, SharesAre
<1> QED
  BY <1>3, <1>11 DEF shown, b

LEMMA ExplanationStays ==
    ASSUME TypeOK, TypeOK', VersionsGrow, RowTruthful, UNCHANGED <<row, event>>,
           ExplanationFaithful, SharesAddUp
    PROVE  ExplanationFaithful' /\ SharesAddUp'
<1>1. Len(configs) \in Nat /\ Len(configs') \in Nat
  BY DEF TypeOK
<1>2. CASE row = NULL
  BY <1>2 DEF ExplanationFaithful, SharesAddUp, Decided
<1>3. CASE row # NULL
  <2>1. configs'[row.rulesVersion] = configs[row.rulesVersion]
    BY <1>1, <1>3 DEF RowTruthful, Decided, VersionsGrow
  <2>2. Explanation' = Explanation
    BY <2>1 DEF Explanation, DecisionDetail, ConfigByVersion
  <2>3. DecidedWith' = DecidedWith
    BY <2>1 DEF DecidedWith
  <2> QED
    BY <2>2, <2>3 DEF ExplanationFaithful, SharesAddUp, Decided, Total
<1> QED
  BY <1>2, <1>3

LEMMA AlwaysExplained == Spec => [](ExplanationFaithful /\ SharesAddUp)
<1>1. Init => ExplanationFaithful /\ SharesAddUp
  BY DEF Init, ExplanationFaithful, SharesAddUp, Decided
<1>2. IInv /\ IInv' /\ ExplanationFaithful /\ SharesAddUp /\ [Next]_vars
         => ExplanationFaithful' /\ SharesAddUp'
  <2> SUFFICES ASSUME IInv, IInv', ExplanationFaithful, SharesAddUp, [Next]_vars
               PROVE  ExplanationFaithful' /\ SharesAddUp'
    OBVIOUS
  <2>1. TypeOK /\ TypeOK' /\ ProcTruthful /\ RowTruthful
    BY DEF IInv
  <2>2. CASE UNCHANGED vars
    <3>1. VersionsGrow /\ UNCHANGED <<row, event>>
      BY <2>1, <2>2 DEF TypeOK, VersionsGrow, vars
    <3> QED
      BY <2>1, <3>1, ExplanationStays
  <2>3. ASSUME NEW v \in Visit, NEW scores \in Prediction, Decide(v, scores)
        PROVE  ExplanationFaithful' /\ SharesAddUp'
    BY <2>1, <2>3, DecideFaithful, DecideShares
  <2>4. CASE Next
    BY <2>1, <2>3, <2>4, StepGrows, ExplanationStays
  <2> QED
    BY <2>2, <2>4
<1> QED
  BY <1>1, <1>2, AlwaysIInv, PTL DEF Spec

(***************************************************************************)
(* What an auditor is told is how it was, after any number of newer        *)
(* configurations and restarts (explain.py, analytics_repo.py).            *)
(***************************************************************************)
THEOREM AuditorToldTheTruth == Spec => []ExplanationFaithful
BY AlwaysExplained, PTL

(***************************************************************************)
(* Whatever the weights, negative ones included, the shares shown for the  *)
(* components come to the score stored: their sum is the score, or a       *)
(* negative weight has taken it beyond 1, where the blend cuts it, and the *)
(* verdict is where that lies against the threshold (explain.py, blend.py).*)
(***************************************************************************)
THEOREM SharesAreTheScore == Spec => []SharesAddUp
BY AlwaysExplained, PTL
(* Blocked before the engine was asked.                                     *)
ByCountryList == row.reason = <<"rule", "country_not_allowed">>

(***************************************************************************)
(* The two modes of an explanation disagree about a block by the country   *)
(* list only: a decision the engine made, explained from the features it   *)
(* was made on, is shown as forced in both or in neither (explain.py:44).  *)
(***************************************************************************)
THEOREM ModesAgreeForTheEngine ==
    Spec => [](Explanation.source = "stored_features" /\ ~ByCountryList => ModesAgree)
<1>1. ASSUME ExplanationFaithful, Explanation.source = "stored_features", ~ByCountryList
      PROVE  ModesAgree
  <2> SUFFICES ASSUME Decided, Explanation.available
               PROVE  Explanation.blend.mode = "hard_rule_forced" <=> Explanation.rules.mode = "hard_rule"
    BY DEF ModesAgree
  <2>1. row.reason[1] = "rule" <=> Explanation.rules.triggered # {}
    BY <1>1 DEF ExplanationFaithful, ByCountryList
  <2>2. Explanation.rules = ExplainRules(event.features, DecidedWith.params)
        /\ Explanation.blend = ExplainBlend(event.breakdown, DecidedWith.weights, event.final,
                               DecidedWith.threshold, event.decision, row.reason)
    BY <1>1, ExplanationNow DEF ExplanationParts
  <2>3. Explanation.rules.mode = "hard_rule" <=> Explanation.rules.triggered # {}
    BY <2>2 DEF ExplainRules
  <2>4. Explanation.blend.mode = "hard_rule_forced" <=> row.reason[1] = "rule"
    BY <2>2 DEF ExplainBlend, BlendMode
  <2> QED
    BY <2>1, <2>3, <2>4
<1> QED
  BY <1>1, AlwaysExplained, PTL
=============================================================================
