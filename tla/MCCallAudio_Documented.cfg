\* One call: what callConnected() is documented to say.
SPECIFICATION Spec
CONSTANTS
    MaxCalls = 1
    Muting = {1}
    Failures <- MCAnyFailure
INVARIANTS
    CallConnectedAsDocumented
CHECK_DEADLOCK FALSE
