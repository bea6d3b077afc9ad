CONSTANTS
    s1 = s1  s2 = s2  s3 = s3
    nl = nl  vu = vu  api = api
    hwA = hwA  hwB = hwB
    Stations = {s1, s2, s3}
    Multicast = Multicast
    Unknown = Unknown
    Clients = {nl}
    ClientType <- MCClientType
    NoClient = NoClient
    HwAddrs = {hwA}
    InitHwAddr <- MCInitHwAddr
    FrameTypes <- MCFrameTypes
    Dests = {s2, s3, Multicast}
    SnrMatrix <- MCSnr
    ErrorProbMatrix = NoMatrix
    NoMatrix = NoMatrix
    MrrTables <- MCMrrTables
    FrameLen = 100
    FadingValues = {0}
    IntfEnabled = TRUE
    MaxFrames = 2
    MaxTime = 10000
    TimeSteps = {5000}
    ProbScale = 1
SPECIFICATION Spec
INVARIANT IntfTracksWindows
