CONSTANTS
    o1 = o1  o2 = o2  NoOrg = NoOrg
    Org = {o1, o2}
    Size = {1, 3}
    MaxSeq = 3
    MaxBatches = 2
    MaxBytes = 2
    MaxAttempts = 2
    HealthyConcurrency = 2
    Key = {k1, k2}
    Lookup = {l1, l2}
    TTL = 1
    Timeout = 1
    MaxCached = 1
    ServerErrors = TRUE
    MaxChanges = 2
    MaxTime = 3
    None = None
    r1 = r1  r2 = r2  k1 = k1  k2 = k2  l1 = l1  l2 = l2  q1 = q1  q2 = q2  c1 = c1  c2 = c2
    pT = pT  pL = pL  pM = pM  pB = pB  pS = pS  pP = pP  pU = pU
    ks = ks  kc = kc  ku = ku  kn = kn  t1 = t1
    NoKey = NoKey  NoTrace = NoTrace
    Request = {r1, r2}
    Payload = {pT, pL, pM, pB, pS, pP, pU}
    IngestKey = {ks, kc, ku, kn}
    RouteOf <- MCRouteOf
    ErrorTrace <- MCErrorTrace
    ScopeOf <- MCScopeOf
    MinuteLimit = 1
    LookupLimit = 1
    MaxLimited = 1
    MaxMinutes = 1
    sr = sr  sm = sm  sl1 = sl1  sl2 = sl2
    Span = {sr, sm, sl1, sl2}
    ParentOf <- MCParent
    NoSpan = NoSpan
    SdkSpans = {sr}
    Window = 2
    LongestWay = 1
    MaxThrows = 2
    MaxTraceTicks = 2
    Replica = {q1, q2}
    Call = {c1, c2}
    MaxRestarts = 1
    MaxSchemaRuns = 2
    w1 = w1  w2 = w2  p1 = p1  p2 = p2
    NoCaller = NoCaller
    WebRequest = {w1, w2}
    Process = {p1, p2}
    Status = {200, 404, 500}
    CallerOf <- MCCallerOf
    TraceOf <- MCTraceOf
    Placement <- MCPlacement
    FactsOf <- MCFactsOf
    MaxLost = 1
    x1 = x1  x2 = x2  x3 = x3
    Occ = {x1, x2, x3}
    PropsOf <- MCProps
    Fatal = {x2}
    UnitOf <- MCUnit
    RawRule <- MCRules
    MaxRules = 2
    MaxRequests = 2
    Letter = {a, b}
    Star = Star
    MaxGlob = 4
    Resource <- MCResource
    SightingKey <- MCSightings
    RefreshTime = 2
    MaxKeys = 1
    InfoInterval = 2
    InfoRetry = 1
    MaxSightTime = 5
    MaxWrites = 2
SPECIFICATION IngestSpec
CHECK_DEADLOCK FALSE
SYMMETRY OrgSymmetry
INVARIANTS IngestTypeOK SinkAccounts KeyLimits RequestsAccounted ThrowsGrouped
    SchemaInEffect CountedOnce RulesApplied SightingsAreStored
PROPERTIES SinkStepsFair ImplementsDelivery AnswersAreRecent
