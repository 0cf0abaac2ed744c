SPECIFICATION Spec
CONSTANTS
    Objects = {o1}
    Posters = {p1}
    Exiters = {p1}
    Priorities = {0, 1}
    Movable = {}
    MaxEvents = 3
    MaxDepth = 2
    MaxNests = 1
INVARIANTS NoLostWakeUp
CHECK_DEADLOCK FALSE
