\* one transaction, two published configurations, one retraining
SPECIFICATION Spec
CONSTANTS
    NULL = NULL
    MALFORMED = MALFORMED
    ClusterK = 3
    Visit <- MCVisit
    Config <- MCConfig
    Prediction <- MCPrediction
    MaxConfig = 2
    MaxModel = 2
INVARIANTS
    FailsClosed
    ExplanationFaithful
    SharesAddUp
    BlendInside
    SuspicionNeverAllows
    VersionsTruthful
CHECK_DEADLOCK FALSE
