\* Two phones that share their latest secret; the answer to the OPEN request may
\* turn up again in the handshake, anything else may never be delivered, and
\* either phone may hang up or die.
SPECIFICATION FairSpec
CONSTANTS
    NoSecret = NoSecret
    None = None
    secretA = secretA
    secretB = secretB
    Secret <- MCSecrets
    InitialRows <- MCInSync
    EC25Capable <- MCBoth
    MaxRetransmit = 0
    Duplicates = TRUE
    MaxLoss = 0
    Strays <- MCStrays
PROPERTIES
    ContinuitySurvives
    EveryNegotiationEnds
CHECK_DEADLOCK FALSE
