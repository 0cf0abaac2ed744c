SPECIFICATION Spec
CONSTANTS
    Threads = {t1}
    MaxIndex = 3
    Sizes <- MCSizes
    Limits <- MCAllLimits
    Serials = 2
    None = None
PROPERTIES BehavesAsPool
CHECK_DEADLOCK FALSE
