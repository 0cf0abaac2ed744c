SPECIFICATION MTSpec
CONSTANTS
    Sections = {s1, s2}
    Writers = {w1}
    Nobody = Nobody
    Asserts = TRUE
    Traps = {t1, t2}
    Ranges = {r1, r2}
    Null = Null
    MaxUpdates = 1
INVARIANTS HandlerSeesLive CopiesAgree Exclusion
PROPERTIES RangeChangesUnseen CallsReturn
CHECK_DEADLOCK FALSE
