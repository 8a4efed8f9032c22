SPECIFICATION FairSpec
CONSTANTS
    Proc = {loop, operator}
    Loops = {loop}
    Operators = {operator}
    Manifests <- MCManifests
    Values <- MCValues
    None = None
    HostGPU = 1
    Credentials = TRUE
    MaxRounds = 2
    MaxEdits = 1
    MaxFaults = 1
INVARIANTS
    NoDeployLoop
PROPERTIES
    SeenLocalRecordIsKept
    HonestComparison
    EventuallyScored
