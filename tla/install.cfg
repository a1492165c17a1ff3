SPECIFICATION InstallFairSpec
CONSTANTS
    a1 = a1
    i1 = i1
    host = host
    Clients = {p1}
    Tokens = {t1, t2}
    Versions = {1, 2, 3}
    Absent = Absent
    Empty = Empty
    OneProcess = FALSE
    Agent = "galaxy-agent"
    Neighbours = {}
    Apis = {a1}
    Images = {i1}
    Joins = {host}
    Jobs <- MCJobs
    Keep = Keep
    MaxBreaks = 3
    MaxStarts = 4
    Overlap = FALSE
PROPERTIES InstalledIsDeployed CredentialKept ResumeCompletes
CHECK_DEADLOCK FALSE
