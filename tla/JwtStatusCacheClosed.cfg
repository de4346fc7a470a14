SPECIFICATION Spec
CONSTANTS
    u1 = u1
    j1 = j1
    u2 = u2
    p1 = p1
    p2 = p2
    Mcusers = {u1}
    JwtIds = {j1}
    Requests = {p1, p2}
    Ttl = 2
    MaxSize = 1
    MaxLoad = 1
PROPERTIES
    ClosedIsRefused
