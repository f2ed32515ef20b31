SPECIFICATION FairSpec
CONSTANTS
    Worker = {w1, w2}
    Claimer = {c1, c2}
    Token = {t1, t2}
    Delays <- OneDelay
    ClaimTimeout = 1
    Cutoff = 1
    Deadline = 4
    Lag = 0
    LastTime = 4
    NoToken = NoToken
    NoOne = NoOne
INVARIANTS
    HintCoversClaim
    StatusTellsTruth
    AttemptsCountLeases
PROPERTIES
    SettledForever
    ImplementsOneSender
    NeverStuckOpen
