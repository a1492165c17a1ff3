SPECIFICATION Spec
CONSTANTS
    m1 = m1
    m2 = m2
    m3 = m3
    c1 = c1
    c2 = c2
    c3 = c3
    s1 = s1
    s2 = s2
    s3 = s3
    k1 = k1
    k2 = k2
    k3 = k3
    f1 = f1
    f2 = f2
    Migrations = {m1, m2, m3}
    Containers = {c1, c2, c3}
    Services = {s1, s2, s3}
    Stacks = {k1, k2, k3}
    Files = {f1, f2}
    Kind <- MCKind
    Source <- MCSource
    Stack <- MCStack
    Planned <- MCPlanned
    Config <- MCConfig
    Namespace <- MCNamespace
    Waits = {"timed", "none"}
    Failures = {"check", "query", "stop", "deploy", "rm", "start", "discard", "kill"}
    MaxRuns = 2
    MaxDrift = 0
  
PROPERTIES DiscardOnlyAfterReady 
CHECK_DEADLOCK FALSE
