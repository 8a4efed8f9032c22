SPECIFICATION FairSpec
CONSTANTS
    Proc = {p, q}
    Free = Free
    MaxFaults = 3
INVARIANTS
    OpenedIsComplete
PROPERTY EventuallyCurrent
