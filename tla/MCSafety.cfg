SPECIFICATION Spec
CONSTANTS
    NumRounds = 1
    Outputs <- TwoOutputs
    WindowSet <- TwoWindows
    None = none
    MaxTime = 2
    Loops <- JustLoop
    OneShots <- Nobody
    BrokenRounds <- NoRound
    Adversities <- NeverScoredAgain
    MaxFaults = 2
    MaxFeed = 2
    loop = loop
    oneshot = oneshot
    none = none
    o1 = o1
    o2 = o2
INVARIANTS
    TypeOK
    CommitHashIsOnChain
    NoEarlyReveal
    CommittedIsRevealable
    OneBodyPerRound
PROPERTIES
    SealedRowIsFixed
    NoDowngrade
    ImplementsSealedRound
SYMMETRY OutputSymmetry
