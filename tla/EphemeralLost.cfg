CONSTANTS
    w1 = w1
    w2 = w2
    p1 = p1
    Seats = {w1, w2, p1}
    Schematic = {w1, w2}
    Tests = {"t1"}
    MaxEntries = 3
    Probes = {p1}
    Raws = {"a", "b"}
    Toolchains = {"old", "new"}
    Canon <- TwoRenderings
    Ours = "new"
    Records <- FourRecords
    MaxRuns = 2
    MaxAsks = 2
    MaxActs = 1
    Casts <- ReviewCast
    Callers = {"one", "two"}
    NPackages = 2
    Bearing = {1, 2}
    Links <- TwoLinks
    Unbuilt = {2}
    MaxMishaps = 1
    LoadedBuilds <- TwoBuilds
    Askers = {"one"}
    MaxScopes = 2
SPECIFICATION EngineSpec
PROPERTIES
    LifecycleKeepsRows
CHECK_DEADLOCK FALSE
