SPECIFICATION ServiceSpec
CONSTANTS
    a1 = a1
    a2 = a2
    i1 = i1
    i2 = i2
    host = host
    Clients = {p1, p2}
    Agent = "galaxy-agent"
    Neighbours = {"galaxy-agent-debug"}
    Versions = {1, 2}
    Apis = {a1, a2}
    Images = {i1, i2}
    Joins = {host}
    Jobs <- MCJobs
    Keep = Keep
INVARIANTS DeployedIsComplete
PROPERTIES UnmanagedUntouched NoLostUpdate
SYMMETRY Symmetry
