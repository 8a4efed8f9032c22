SPECIFICATION FairSpec
CONSTANTS
    NumRounds = 2
    Outputs <- OneOutput
    WindowSet <- OneShortWindow
    None = none
    MaxTime = 2
    Loops <- JustLoop
    OneShots <- Nobody
    BrokenRounds <- NoRound
    Adversities <- LiveFaults
    MaxFaults = 1
    MaxFeed = 2
    loop = loop
    oneshot = oneshot
    none = none
    o1 = o1
    o2 = o2
PROPERTIES
    LandedCommitIsRecovered
    CommittedRoundSettles
