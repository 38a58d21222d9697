CONSTANTS
    c1 = c1
    c2 = c2
    k1 = k1
    k2 = k2
    k3 = k3
    p1 = p1
    p2 = p2
    Callers = {c1, c2}
    Keys = {k1, k2, k3}
    Paths = {p1, p2}
    PathOf <- SharedPath
    Lifetime = 1
    MaxTime = 3
SPECIFICATION CacheSpec
INVARIANTS KeyOfItsPath KeyIsFresh
CHECK_DEADLOCK FALSE
