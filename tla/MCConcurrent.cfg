SPECIFICATION Spec
CONSTANTS
    NumRounds = 1
    Outputs <- TwoOutputs
    WindowSet <- OneShortWindow
    None = none
    MaxTime = 2
    Loops <- JustLoop
    OneShots <- OneShot
    BrokenRounds <- NoRound
    Adversities <- ScoredAgain
    MaxFaults = 1
    MaxFeed = 1
    loop = loop
    oneshot = oneshot
    none = none
    o1 = o1
    o2 = o2
INVARIANTS
    EveryCommitOpenable
    EveryRevealOpensACommit
SYMMETRY OutputSymmetry
