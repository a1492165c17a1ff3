SPECIFICATION CLISpec
CONSTANTS
    Nodes = {"here", "there"}
    Here = "here"
    Attribute <- MCAttribute
    Volumes = {"v1", "v2"}
    Remote = {"v2"}
    Names = {"web", "db"}
    PortNumbers = {80}
    Projects <- MCProjects
    Workloads <- MCWorkloads
    NoPlan = NoPlan
    NoService = NoService
    Absent = Absent
    Broken = Broken
    Down = Down
    MaxRuns = 2
    Order <- MCOrder
    Above <- MCAbove
    Ours = {"new"}
    Theirs = {"old"}
    MaxChanges = 1
    Processes = {"p1", "p2"}
    Servers = {"s1", "s2"}
    Accounts = {"a", "b"}
    Nobody = Nobody
    Gone = Gone
    Torn = Torn
    Garbled = Garbled
    Invocations <- MCInvocations
    Tags = {"t"}
    Heads <- MCHeads
    Unnamed = Unnamed
    Capacity = 1
    MaxText = 2
    HostsFiles <- MCHostsFiles
    NewRoutes <- MCNewRoutes
    MaxAdds = 1
    ProjectIds = {"p1", "p2"}
    Urls = {"u1", "u2"}
    NoRepository = NoRepository
    NoProject = NoProject
    NoFile = NoFile
    ProjectFiles <- MCProjectFiles
    MaxTasks = 1
    MaxOthers = 1
    Platforms <- MCPlatforms
    Orders <- MCOrders
    Similar <- MCSimilar
    ServiceNames <- MCServiceNames
    LastName = "web-new"
    MaxMoves = 1
    CopyPaths <- MCCopyPaths
    Within <- MCWithin
    Into <- MCInto
    Elsewhere = "elsewhere"
    Inner = {"in"}
    Outer = {"out"}
    Fleets <- MCFleets
    MaxTouches = 1
    MaxPieces = 2
    Entries <- MCEntries
    Contexts <- MCContexts
    Queries <- MCQueries
    Nowhere = Nowhere
    PageSize = 2
    MaxNews = 1
    Upgrades = {"u1", "u2"}
    Versions = {"v0", "v1", "v2"}
    Current = "v0"
INVARIANTS PinnedIsSchedulable
CHECK_DEADLOCK FALSE
