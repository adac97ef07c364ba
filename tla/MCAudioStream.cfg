\* Ten frames each way with sequence numbers of two bits: two wraps.
SPECIFICATION Spec
CONSTANTS
    HalfRange = 2
    WordRange = 16
    IvRange = 32
    MaxFrames = 10
    Strays <- MCStrays
    None = None
INVARIANTS
    RightKeystream
    GenuineAccepted
    KeystreamOnce
CHECK_DEADLOCK FALSE
