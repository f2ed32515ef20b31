SPECIFICATION FairSpec
CONSTANTS
    Request = {r1, r2, r3}
    Worker = {p1, p2}
    User = {u1, u2, u3}
    Message = {m1}
    Manager = {u1}
    Bot = {u3}
    MaxTries = 2
    RowLocks = TRUE
    Ttl = 1
    Skew = 1
    LastTime = 1
    NoRequest = NoRequest
    NoMessage = NoMessage
INVARIANTS
    OneOpenVote
    RefilledOncePerSuccess
    BeatenByDifferentVotes
    EveryRoundWinnable
PROPERTIES
    EndedForGood
    VoteGivesWay
