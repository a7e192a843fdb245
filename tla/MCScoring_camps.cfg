\* Two campaigns of two services: a transaction presented under both.
SPECIFICATION Spec
CONSTANTS
    s1 = s1  s2 = s2  c2 = c2
    Trx = {t1}
    Campaign = {c1, c2}
    Service = {s1, s2}
    Device = {d1}
    Nonce = {n1, n2}
    Worker = {w1, w2}
    ServiceOf <- MCServiceOf
    MaxAttempts = 2
    NoRow = NoRow
    NoJob = NoJob
SYMMETRY Symmetry
INVARIANTS
    DecisionHasSession
