SPECIFICATION Spec
CONSTANTS
    Key = {1, 2, 3, 4}
    MaxScore = 3
    Rules <- MCRules
INVARIANTS
    ChurnControl
    Settled
    BetterScoreKeepsSeat
    TopByRankWithGap
