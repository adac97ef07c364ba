\* One call, a phone that is turned at will, and fair threads.
SPECIFICATION FairSpec
CONSTANTS
    MaxCalls = 1
    wifiLockEnforced = TRUE
INVARIANTS
    LockInvariant
PROPERTIES
    PostureApplied
CHECK_DEADLOCK FALSE
