\* Two transactions of one device, an event_count they share.
SPECIFICATION Spec
CONSTANTS
    s1 = s1  s2 = s2  c2 = c2
    Trx = {t1, t2}
    Campaign = {c1}
    Service = {s1}
    Device = {d1}
    Nonce = {n1, n2}
    Worker = {w1, w2}
    ServiceOf <- MCServiceOf
    MaxAttempts = 2
    NoRow = NoRow
    NoJob = NoJob
SYMMETRY SymmetryWithTrx
INVARIANTS
    DecisionsCounted
PROPERTIES
    KeepsPromise
