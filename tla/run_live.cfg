SPECIFICATION RunFairSpec
CONSTANTS
    a1 = a1
    i1 = i1
    host = host
    Clients = {p1, p2, p3}
    Tokens = {t1}
    Versions = {1, 2}
    Absent = Absent
    Empty = Empty
    None = None
    OneProcess = TRUE
    Agent = "galaxy-agent"
    Neighbours = {}
    Apis = {a1}
    Images = {i1}
    Joins = {host}
    Jobs <- MCJobs
    Keep = Keep
    MaxBreaks = 1
    MaxBootstraps = 0
    MaxCrashes = 1
INVARIANTS DisabledIsDeployed
PROPERTIES RegistrationCompletes
CHECK_DEADLOCK FALSE
