SPECIFICATION Spec
CONSTANTS
    t1 = t1
    t2 = t2
    r1 = r1
    r2 = r2
    Threads = {t1, t2}
    Receivers = {r1, r2}
    None = None
    Home <- MCHome
    Owner = t1
    MaxConns = 3
    MaxDepth = 2
    MaxPosts = 0
    Crowded = FALSE
INVARIANTS NoDangling EmissionComplete RefsExact
CHECK_DEADLOCK FALSE
