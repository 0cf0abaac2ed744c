SPECIFICATION IPSpec
CONSTANTS
    Kinds = {"note", "big", "shm"}
    GiveUps = {"timeout"}
    MaxMessages = 3
    MaxSendQueue = 2
    BaseIdx = 0
INVARIANTS SlotFreed RefsExact RunningIsReachable SendOrder
PROPERTIES CallersAnswered
CHECK_DEADLOCK FALSE
