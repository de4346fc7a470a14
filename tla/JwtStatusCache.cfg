SPECIFICATION FairSpec
CONSTANTS
    u1 = u1
    u2 = u2
    j1 = j1
    p1 = p1
    p2 = p2
    Mcusers = {u1, u2}
    JwtIds = {j1}
    Requests = {p1, p2}
    Ttl = 3
    MaxSize = 0
    MaxLoad = 2
INVARIANTS
    TypeOK
    IInv
PROPERTIES
    StaleAcceptanceIsBounded
    StaleRefusalIsBounded
    RefusalIsFinal
    ClosedIsRefusedForGood
    ErrorsAreForgotten
