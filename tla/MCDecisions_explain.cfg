\* the same instance, the claim of explain.py
SPECIFICATION Spec
CONSTANTS
    NULL = NULL
    MALFORMED = MALFORMED
    ClusterK = 3
    Visit <- MCVisit
    Config <- MCConfig
    Prediction <- MCPrediction
    MaxConfig = 2
    MaxModel = 2
INVARIANT
    ModesAgree
CHECK_DEADLOCK FALSE
