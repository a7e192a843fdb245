\* Two runs, perhaps of one job, two administrators.
SPECIFICATION Spec
CONSTANTS
    Run = {r1, r2}
    Job = {j1}
    Admin = {a1, a2}
    NoRun = NoRun
    NoJob = NoJob
SYMMETRY Symmetry
INVARIANTS
    TrainedIsLoaded
    DoneHasModel
PROPERTIES
    VersionsKept
    ApprovedOnly
\* Every run may be over with no model to activate: nothing is left to do.
CHECK_DEADLOCK FALSE
