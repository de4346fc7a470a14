SPECIFICATION FairSpec
CONSTANTS
    t1 = t1
    t2 = t2
    s1 = s1
    b1 = b1
    k1 = k1
    k2 = k2
    k3 = k3
    k4 = k4
    k5 = k5
    k6 = k6
    k7 = k7
    k8 = k8
    k9 = k9
    Browser = b1
    Tabs = {t1}
    Scripts = {s1}
    Tokens = {k1, k2, k3, k4, k5, k6}
    MaxSent = 1
PROPERTIES
    ScriptsSyncUp
