SPECIFICATION FairSpec
CONSTANTS
    Client = {c1, c2}
    Patient = {c1}
    Backlog = 3
    MaxCalls = 3
    MaxFaults = 1
    MaxMsgs = 2
    MaxTogether = 1
    RateUnit = 1000
    MAX_ROUTER_NUM = 2
    PortRange = 4
    IdRange = 4
    RECV_RETRY_TIMES = 2
    QosFile <- QosFiles
    RouterFile <- RouterFiles
INVARIANTS ReturnTells Undefined
PROPERTIES InOrder Served GoneRemoved
CHECK_DEADLOCK FALSE
