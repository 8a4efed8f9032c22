SPECIFICATION FairSpec
CONSTANTS
    Proc = {loop}
    MaxTimeout = 3
    Margin = 1
    MinRead = 2
    Window = 5
    CacheLoss = TRUE
    MaxFaults = 3
    MaxCalls = 5
INVARIANTS
    BilledInTime
    
PROPERTIES
    PaidOnlyWhenCutOff
    OneSubmitPerPass
    EventuallyScored
CHECK_DEADLOCK FALSE
