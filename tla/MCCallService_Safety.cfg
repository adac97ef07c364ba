\* Two calls, the screen brought to the front once; the first may fail.
SPECIFICATION Spec
CONSTANTS
    MaxCalls = 2
    MaxBinds = 1
    MaxTimers = 0
    Failing = {1}
    None = None
INVARIANTS
    OneLiveCall
    ServiceInvariant
    PeerTold
PROPERTIES
    RefusedStaysRefused
CHECK_DEADLOCK FALSE
