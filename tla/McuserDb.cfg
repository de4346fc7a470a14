SPECIFICATION Spec
CONSTANTS
    u1 = u1
    u2 = u2
    j1 = j1
    j2 = j2
    c1 = c1
    c2 = c2
    Mcusers = {u1, u2}
    JwtIds = {j1, j2}
    Conns = {c1, c2}
    Lifetime = 3
    MaxClock = 4
INVARIANTS
    TypeOK
    IInv
    LogoutIsFinal
    RevokedIsFinalUnlessRaced
    CountDiffersFromStatus
    StatusAgreesWithLife
    LogoutFollowsLogin
PROPERTIES
    SessionsLive
    SpentIsForGood
CHECK_DEADLOCK FALSE
SYMMETRY Symmetry
