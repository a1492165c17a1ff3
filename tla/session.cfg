SPECIFICATION AgentSpec
CONSTANTS
    Ids = {x1, x2}
    None = None
    MaxInbox = 2
    MaxData = 1
    Managers = {"n1", "n2"}
    Workers = {"w"}
    Host = "n1"
    Hosts = {"x1", "x2", "x3", "x4"}
    Named = {"api.example.com"}
    First <- MCFirst
    MaxTroubles = 2
    Clients = {"n1", "n2"}
    Agent = "galaxy-agent"
    Neighbours = {}
    Versions = {1}
    Apis = {"x1", "x2", "x3", "x4", "api.example.com"}
    Images = {"i1"}
    Joins = {"x1", "x2", "x3", "x4"}
    Jobs = {}
    Keep = Keep
    RequestIds = {"r1", "r2", "r3"}
    Slow = {"r1"}
    PoolSize = 2
INVARIANTS OpenStreamIsFound CleanupComplete
PROPERTIES ReadyStreamLosesNothing CloseIsHonoured SilenceEndsSession AddressRecovers AgentAnswers
CHECK_DEADLOCK FALSE
