SPECIFICATION Spec
CONSTANTS
    t1 = t1
    t2 = t2
    r1 = r1
    r2 = r2
    Threads = {t1}
    Receivers = {r1}
    None = None
    Home <- MCHomeOne
    Owner = t1
    MaxConns = 3
    MaxDepth = 3
    MaxPosts = 0
    Crowded = TRUE
INVARIANTS CleanedByLivingOwner
CHECK_DEADLOCK FALSE
