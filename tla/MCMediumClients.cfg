CONSTANTS
    s1 = s1  s2 = s2  s3 = s3
    nl = nl  vu = vu  api = api
    hwA = hwA  hwB = hwB
    Stations = {s1, s2}
    Multicast = Multicast
    Unknown = Unknown
    Clients = {nl, vu, api}
    ClientType <- MCClientType
    NoClient = NoClient
    HwAddrs = {hwA}
    InitHwAddr <- MCInitHwAddr
    FrameTypes <- MCDataOnly
    Dests = {s2}
    SnrMatrix <- MCSnr
    ErrorProbMatrix <- MCErrorProb
    NoMatrix = NoMatrix
    MrrTables <- MCMrrTables
    FrameLen = 100
    FadingValues = {0}
    IntfEnabled = FALSE
    MaxFrames = 2
    MaxTime = 400
    TimeSteps = {}
    ProbScale = 1
SPECIFICATION Spec
INVARIANT JobsMatchQueues
INVARIANT NoDanglingClient
PROPERTY MediumImplementsAbstract
