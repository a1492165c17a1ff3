SPECIFICATION RunSpec
CONSTANTS
    a1 = a1
    i1 = i1
    host = host
    Clients = {p1, p2}
    Tokens = {t1, t2}
    Versions = {1, 2}
    Absent = Absent
    Empty = Empty
    None = None
    OneProcess = TRUE
    Agent = "galaxy-agent"
    Neighbours = {}
    Apis = {a1}
    Images = {i1}
    Joins = {host}
    Jobs <- MCJobs
    Keep = Keep
    MaxBreaks = 1
    MaxBootstraps = 1
    MaxCrashes = 1
INVARIANTS OneConnection
CHECK_DEADLOCK FALSE
SYMMETRY Symmetry
