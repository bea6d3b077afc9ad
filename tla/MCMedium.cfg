CONSTANTS
    s1 = s1  s2 = s2  s3 = s3
    nl = nl  vu = vu  api = api
    hwA = hwA  hwB = hwB
    Stations = {s1, s2, s3}
    Multicast = Multicast
    Unknown = Unknown
    Clients = {nl}
    ClientType <- MCClientType
    NoClient = NoClient
    HwAddrs = {hwA}
    InitHwAddr <- MCInitHwAddr
    FrameTypes <- MCFrameTypes
    Dests = {s2, Multicast}
    SnrMatrix <- MCSnr
    ErrorProbMatrix <- MCErrorProb
    NoMatrix = NoMatrix
    MrrTables <- MCMrrTablesTie
    FrameLen = 100
    FadingValues = {0}
    IntfEnabled = FALSE
    MaxFrames = 3
    MaxTime = 200
    TimeSteps = {200}
    ProbScale = 1
SPECIFICATION Spec
INVARIANT TypeOK
INVARIANT AirtimeNoOverlap
PROPERTY MediumImplementsAbstract
