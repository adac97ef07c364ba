\* A call nobody ends over a network that drops up to three datagrams.
SPECIFICATION TimelySpec
CONSTANTS
    NoSecret = NoSecret
    None = None
    secretA = secretA
    secretB = secretB
    Secret <- MCSecrets
    InitialRows <- MCStrangers
    EC25Capable <- MCBoth
    MaxRetransmit = 2
    Duplicates = FALSE
    MaxLoss = 3
    Strays <- MCNone
PROPERTIES
    EveryLossSurvived
CHECK_DEADLOCK FALSE
