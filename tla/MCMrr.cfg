CONSTANTS
    ProbScale = 1
    RateIdxs = {0, 3}
    Counts = {0, 1, 3}
    MaxRows = 2
    FrameLen = 100
    ACs = {0, 2}
SPECIFICATION Spec
INVARIANT TypeOK
INVARIANT WalkMatchesReference
