SPECIFICATION Spec
CONSTANTS
    Objects = {o1, o2}
    Posters = {p1}
    Exiters = {p1}
    Priorities = {0, 1}
    Movable = {o2}
    MaxEvents = 3
    MaxDepth = 2
    MaxNests = 1
INVARIANTS Sorted WakesAlone QueuedOnce Fifo IteratorValid CountsMatch ReceiverAlive
PROPERTIES PostedIsDelivered ExitEnds
CHECK_DEADLOCK FALSE
