SPECIFICATION Spec
CONSTANTS
    Callers = {c1, c2, c3}
    MaxRuns = 3
INVARIANTS WorkerOwnsThread
PROPERTIES StartRestarts ExitEndsRun WaitReturns
CHECK_DEADLOCK FALSE
