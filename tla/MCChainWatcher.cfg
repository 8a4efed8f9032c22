SPECIFICATION FairSpec
CONSTANTS
    MaxPrunedRetries = 1
    MaxLedger = 3
    MaxPerLedger = 2
    MaxFaults = 1
INVARIANTS
    CursorIsFound
PROPERTIES
    EachHandledOrPruned
    ImplementsFeed
