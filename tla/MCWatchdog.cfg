SPECIFICATION FairSpec
CONSTANTS
    Pid = {1, 2}
    InferenceTimeout = 3
    Timeouts = {3, 4, 5, 6}
    MaxCrashes = 1
INVARIANTS
    SparesInference
PROPERTIES
    BlamedWhenRung
    LoopGoesOn
