\* Two administrators, callbacks or reports, and a backfill that may start any time.
SPECIFICATION MCSpec
CONSTANTS
    Callback = {k1}
    Content = {x1, x2}
    Report = {f1}
    Admin = {a1, a2}
    MaxClock = 3
    NoRow = NoRow
SYMMETRY Symmetry
INVARIANTS
    OutcomeLogAgrees
    BackfillComplete
    LatestReviewWins
