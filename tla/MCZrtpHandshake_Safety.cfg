\* One call between two phones with every pair of rows, of which only the initiator
\* offers EC25; the network repeats and reorders datagrams at will; either phone may
\* hang up or die.
SPECIFICATION Spec
CONSTANTS
    NoSecret = NoSecret
    None = None
    secretA = secretA
    secretB = secretB
    Secret <- MCSecrets
    InitialRows <- MCAllRows
    EC25Capable <- MCInitiator
    MaxRetransmit = 0
    Duplicates = TRUE
    MaxLoss = 0
    Strays <- MCNone
INVARIANTS
    IInv
    KeysAgree
    NoRejection
    NoMutualWait
    StoredInOrder
    S1AsDocumented
    VerifiedMeansContinuity
PROPERTIES
    ImplementsSession
CHECK_DEADLOCK FALSE
