SPECIFICATION OpSpec
CONSTANTS
    Timeouts = {5}
    MaxCalls = 4
INVARIANTS ResultMatchesState AlarmIsStopped FreedByLast
PROPERTIES CallbackIsCalled LastFrees
CHECK_DEADLOCK FALSE
