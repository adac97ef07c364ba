\* Three attempts, by SMS and by voice, one edit or death, and fair executors.
SPECIFICATION FairSpec
CONSTANTS
    MaxAttempts = 3
    MaxStops = 1
INVARIANTS
    NoChallengeLost
    CredentialsValid
    LeftMeansEnded
PROPERTIES
    RegistrationEnds
CHECK_DEADLOCK FALSE
