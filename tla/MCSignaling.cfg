\* Three addresses and two signals besides keep-alives; fair threads, and a
\* server that owes no answer before the hangup.
SPECIFICATION FairSignalingSpec
CONSTANTS
    None = None
    a1 = a1
    a2 = a2
    a3 = a3
    Address <- MCThree
    MaxSignals = 2
INVARIANTS
    LosersClosed
    ReturnedIsOpen
    HandledInOrder
    ChannelInvariant
PROPERTIES
    NotGivenUpTooEarly
    AttemptEnds
    HangupCompletes
    KeepAlivesFlush
CHECK_DEADLOCK FALSE
