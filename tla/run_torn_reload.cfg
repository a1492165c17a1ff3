SPECIFICATION RunSpec
CONSTANTS
    a1 = a1
    i1 = i1
    host = host
    Clients = {p1, p2}
    Tokens = {t1}
    Versions = {1}
    Absent = Absent
    Empty = Empty
    None = None
    OneProcess = TRUE
    Agent = "galaxy-agent"
    Neighbours = {}
    Apis = {a1}
    Images = {i1}
    Joins = {host}
    Jobs <- MCJobs
    Keep = Keep
    MaxBreaks = 0
    MaxBootstraps = 0
    MaxCrashes = 0
PROPERTIES ReloadKeepsPrevious
CHECK_DEADLOCK FALSE
