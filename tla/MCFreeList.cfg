SPECIFICATION Spec
CONSTANTS
    Threads = {t1, t2}
    MaxIndex = 3
    Sizes <- MCSizes
    Limits <- MCLimits
    Serials = 2
    None = None
PROPERTIES BehavesAsPool SomeCallReturns
CHECK_DEADLOCK FALSE
