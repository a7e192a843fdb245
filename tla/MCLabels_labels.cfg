\* two transactions over two days, a horizon of one
SPECIFICATION MCSpec
CONSTANTS
    NULL = NULL
    MALFORMED = MALFORMED
    ClusterK = 3
    t1 = t1  t2 = t2  s1 = s1  s2 = s2
    Trx = {t1, t2}
    Service = {s1, s2}
    ServiceOf <- MCServiceOf
    Horizon = 1
    MaxTime = 1
    Days = {0, 1}
    Says <- MCSays
    Reports <- MCReports
    Config <- MCConfig
    Observation <- MCObservation
INVARIANTS
    FiguresAgree
    WindowsAddUp
    HumansAreClean
PROPERTIES
    RobotStays
CHECK_DEADLOCK FALSE
