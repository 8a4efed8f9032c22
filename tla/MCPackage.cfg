SPECIFICATION FairSpec
CONSTANTS
    Proc = {operator, loop}
    Fetchers = {operator, loop}
    Syncers = {loop}
    Scorers = {loop}
    Free = Free
    Corruption = TRUE
    MaxForced = 2
    MaxFaults = 2
INVARIANTS
    CacheIsWhole
PROPERTIES
    CachedPackageSurvives
    CacheComesBack
