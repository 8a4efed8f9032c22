SPECIFICATION Spec
CONSTANTS
    NumRounds = 1
    Outputs <- TwoOutputs
    WindowSet <- OneWindow
    None = none
    MaxTime = 3
    Loops <- JustLoop
    OneShots <- Nobody
    BrokenRounds <- NoRound
    Adversities <- SkipAfterSend
    MaxFaults = 2
    MaxFeed = 1
    loop = loop
    oneshot = oneshot
    none = none
    o1 = o1
    o2 = o2
INVARIANTS
    CommittedIsRevealable
