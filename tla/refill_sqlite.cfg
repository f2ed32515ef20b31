SPECIFICATION Spec
CONSTANTS
    Request = {r1}
    Worker = {p1, p2}
    User = {u1, u2, u3}
    Message = {m1}
    Manager = {u1}
    Bot = {u3}
    MaxTries = 3
    RowLocks = FALSE
    Ttl = 1
    Skew = 0
    LastTime = 2
    NoRequest = NoRequest
    NoMessage = NoMessage
SYMMETRY Symmetry
INVARIANTS
    RefilledOncePerSuccess
