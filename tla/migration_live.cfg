SPECIFICATION FairSpec
CONSTANTS
    m1 = m1
    c1 = c1
    c2 = c2
    s1 = s1
    s2 = s2
    k1 = k1
    f1 = f1
    Migrations = {m1}
    Containers = {c1, c2}
    Services = {s1, s2}
    Stacks = {k1}
    Files = {f1}
    Kind <- MCKind
    Source <- MCSource
    Stack <- MCStack
    Planned <- MCPlanned
    Config <- MCConfig
    Namespace <- MCNamespace
    Waits = {"timed", "none"}
    Failures = {"check", "query", "stop", "deploy", "rm", "start", "discard", "kill"}
    MaxRuns = 2
    MaxDrift = 1
PROPERTIES RestoredSourceServes ImplementsHandover ConfirmedMigrationReturns FailureAttemptsRestore
CHECK_DEADLOCK FALSE
