\* Two threads, three sessions of one transaction.
SPECIFICATION Spec
CONSTANTS
    s1 = s1  s2 = s2  c2 = c2
    Trx = {t1}
    Campaign = {c1}
    Service = {s1}
    Device = {d1}
    Nonce = {n1, n2, n3}
    Worker = {w1, w2}
    ServiceOf <- MCServiceOf
    MaxAttempts = 2
    NoRow = NoRow
    NoJob = NoJob
SYMMETRY Symmetry
INVARIANTS
    TypeOK
    TokenSingleUse
    AnswersAgree
    MintOnlyAllowed
    OneUrlPerSubmission
    MintedIsReal
    OneEventPerTrx
PROPERTIES
    DecisionFinal
