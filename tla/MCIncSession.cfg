SPECIFICATION Spec
CONSTANTS
    AutoReconnect = TRUE
    MaxTries = 2
    HasRouter = TRUE
    Patient = TRUE
    MaxCalls = 4
    MaxFaults = 2
    MaxTimeouts = 2
INVARIANTS AttachedIsOpen FailedIsRetried AssertionsHold
PROPERTIES Settles StreamSettles
CHECK_DEADLOCK FALSE
