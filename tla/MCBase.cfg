SPECIFICATION BaseSpec
CONSTANTS
    MSG_BUFF_LEN = 6
    IntLen = 2
    Lens = {1, 3}
    SndBuf = 4
    MaxMsgs = 3
    mQueueSize = 9
    HeadLen = 2
    Reserve = 4
    PushLens = {1, 2, 3}
    PopLen = 2
    MaxPushes = 6
    Process = {p1, p2}
    Sizes = {4, 6}
    HeadSize = 2
    MaxSegments = 2
    Caller = {c1, c2}
    MaxCalls = 4
    Start = {s1, s2, s3}
    KEEPALIVE_TIME = 2
    KEEPALIVE_CNT = 2
    Sock = {s1, s2, s3}
    MaxFd = 2
    Kinds = {k1, k2}
    Hosts = {h1, h2}
    Weights = {0, 1, 2}
    MaxSaves = 5
    mStart = 8
    mEnd = 24
    ALIGNMENT = 4
    Asked = {3, 4, 32}
    MaxAllocs = 5
    MAX_SVR_HOST = 16
    MAX_SVR_NUM = 255
    PackageLen = 524284
INVARIANTS WellFormed FaultsOnly PiecesApart OneDaemon SocketsAgree RoutedOnce
PROPERTIES WholeAndOnce WorkIsDone HungIsFound
CHECK_DEADLOCK FALSE
