SPECIFICATION FairSpec
CONSTANTS
    Outcome = {ok, miss}
    Success = ok
    Roast = Roast
    NoOutcome = NoOutcome  NoToken = NoToken  NoUser = NoUser  NoFeed = NoFeed
    Rsv = {r1}
    Bot = {b1, b2}
    Token = {t1, t2}
    User = {u1, u2}
    Eaters <- AllEat
    Growable = {u1, u2}
    RowLocks = TRUE
INVARIANTS
    Consistent
    LeaseInRightHands
    SettledOnce
    FeedAccounting
PROPERTIES
    SendingIsFinal
    FrozenForever
    ImplementsOnce
    AbandonedLeaseRecovered
