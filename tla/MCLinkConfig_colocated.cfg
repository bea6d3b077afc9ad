CONSTANTS
    NoKey = NoKey
    ProbScale = 1
    NumIds = 2
    LinkIdx <- MCLinkIdx
    LinkSnrs = {10, 20}
    TxPowers = {15, 20}
    MaxLinks = 2
    MaxArgs = 3
SPECIFICATION Spec
INVARIANT SnrNonIncreasingWithDistance
