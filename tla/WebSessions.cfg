SPECIFICATION FairSpec
CONSTANTS
    u1 = u1
    j1 = j1
    j2 = j2
    p1 = p1
    p2 = p2
    Mcusers = {u1}
    Roles = {"ADMIN"}
    JwtIds = {j1, j2}
    Requests = {p1, p2}
    Lifetime = 1
    MaxChanges = 1
INVARIANTS
    TypeOK
    SerialLoginsAreHeld
PROPERTIES
    LockoutEnds
    CookiesRunOut
    RolesAreBounded
    SessionsFollowLife
