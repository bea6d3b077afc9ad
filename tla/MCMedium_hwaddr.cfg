CONSTANTS
    s1 = s1  s2 = s2  s3 = s3
    nl = nl  vu = vu  api = api
    hwA = hwA  hwB = hwB
    Stations = {s1, s2}
    Multicast = Multicast
    Unknown = Unknown
    Clients = {nl}
    ClientType <- MCClientType
    NoClient = NoClient
    HwAddrs = {hwA, hwB}
    InitHwAddr <- MCInitHwAddr
    FrameTypes <- MCDataOnly
    Dests = {s2}
    SnrMatrix <- MCSnr
    ErrorProbMatrix = NoMatrix
    NoMatrix = NoMatrix
    MrrTables <- MCMrrTables
    FrameLen = 100
    FadingValues = {0}
    IntfEnabled = FALSE
    MaxFrames = 2
    MaxTime = 0
    TimeSteps = {}
    ProbScale = 1
SPECIFICATION Spec
INVARIANT TxStatusHwaddr
