SPECIFICATION Spec
CONSTANTS
    m1 = m1
    m2 = m2
    e1 = e1
    e2 = e2
    u1 = u1
    u2 = u2
    a1 = a1
    c1 = c1
    c2 = c2
    Mids = {m1, m2}
    Emps = {e1, e2}
    Usernames = {u1, u2}
    AddressNames = {}
    Conns = {c1, c2}
PROPERTIES
    AcceptedUpdatesAreKept
