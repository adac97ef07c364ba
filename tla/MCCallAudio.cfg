\* Two calls after one another, every stage of which may fail; the first is muted
\* and unmuted at will.
SPECIFICATION FairSpec
CONSTANTS
    MaxCalls = 2
    Muting = {1}
    Failures <- MCAnyFailure
INVARIANTS
    CallAudioInvariant
    SilentWhenDone
    MuteHonoured
PROPERTIES
    NoReadAfterStop
    StopReturns
CHECK_DEADLOCK FALSE
