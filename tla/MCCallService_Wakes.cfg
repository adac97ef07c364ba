\* One call, the screen brought to the front up to three times.
SPECIFICATION FairSpec
CONSTANTS
    MaxCalls = 1
    MaxBinds = 3
    MaxTimers = 1
    Failing = {1}
    None = None
PROPERTIES
    ScreenWakesCall
    TerminatedCallsEnd
CHECK_DEADLOCK FALSE
