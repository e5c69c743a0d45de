CONSTANTS
    PageError = {e1}
    FlushDelay = 2
    UrgentDelay = 1
    MaxQueued = 3
    MaxPageEvents = 3
    MaxTimings = 1
    MaxCrumbs = 2
    EventCrumbs = 2
    WindowCrumbs = 3
    CrumbWindow = 2
    MaxPageTime = 3
    MaxClears = 1
    Nothing = Nothing
    Visitor = {v1, v2}
    Hop = Hop
    RelayCall = {c1, c2, c3}
    PerIpLimit = 1
    MaxWindows = 1
    MaxBody = 1
    MaxMinute = 1
    NoWindow = NoWindow
    EdgeRequest = {r1, r2}
    EdgeError = {e1}
    EdgeFlush = {f1}
    Destination = {d1}
    MaxPlain = 2
    MaxEdgeQueue = 3
    MaxEdgeBytes = 4
    EdgeBatch = 2
    MaxReports = 1
    None = None
    k1 = k1  k2 = k2  s1 = s1  s2 = s2
    MapKey = {k1, k2}
    MapStack = {s1, s2}
    MapBytes <- MCMapBytes
    SourceBytes <- MCSourceBytes
    MaxMapBytes = 3
    MaxSourceBytes = 2
    MaxMaps = 1
    FoundTTL = 1
    MissingTTL = 1
    ErrorTTL = 1
    MaxUploads = 3
    MaxParses = 3
    MaxMapTime = 1
    NoMap = NoMap
    b1 = b1  b2 = b2
    Bundle = {b1, b2}
    Job <- MCJob
    MaxAttempts = 2
    Concurrency = 1
    MaxCrashes = 1
    NoId = NoId
    OldId = OldId
    n1 = n1  n2 = n2  NoName = NoName
    FrameLines = {0, 1}
    FrameColumns = {0, 1, 2}
    GroupValues <- MCGroups
    MaxGroups = 3
    Described <- MCDescribed
    MapNames <- MCNames
    MaxFunctions = 2
    Tool = {"vite", "nuxt", "next", "webpack", "cra", "angular", "esbuild", "unknown"}
    MaxSetups = 2
SPECIFICATION ClientsSpec
CHECK_DEADLOCK FALSE
INVARIANTS ClientsTypeOK PageEventsLeave RelayLimits EdgeReportsOnce
    FramesResolved BuildKeepsMaps SetupWires
PROPERTY SummariesLeaveLast
