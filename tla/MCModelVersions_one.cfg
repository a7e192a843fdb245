\* One model is active at a time.
SPECIFICATION Spec
CONSTANTS
    Run = {r1, r2}
    Job = {j1}
    Admin = {a1, a2}
    NoRun = NoRun
    NoJob = NoJob
INVARIANTS
    OneActive
\* Every run may be over with no model to activate: nothing is left to do.
CHECK_DEADLOCK FALSE
