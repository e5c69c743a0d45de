CONSTANTS
    e1 = e1  e2 = e2  e3 = e3  k1 = k1  k2 = k2
    AppError = {e1, e2, e3}
    ErrorKind = {k1, k2}
    KindOf <- MCKindOf
    LimitKey <- MCLimitKey
    BurstSize = 1
    RefillTime = 2
    MaxKinds = 2
    MaxErrorTime = 5
    MaxHandled = 2
    NoTimer = NoTimer
    Logger = {"pino", "bunyan"}
    CacheScans = 2
    MaxStarts = 3
    c1 = c1  c2 = c2
    SdkCopy = {c1, c2}
    App = App
    s1 = s1  s2 = s2  s3 = s3  t1 = t1  t2 = t2
    SdkSpan = {s1, s2, s3}
    TraceOf <- MCTraceOf
    Capture = {c1}
    RetainErrors = TRUE
    RetainSlow = TRUE
    TraceCap = 2
    BufferCap = 2
    TraceTTL = 1
    SweepEvery = 2
    MaxTraceTime = 2
    NoSpan = NoSpan
    expected = expected  falsy = falsy
    Operation = {o1, o2}
    Thrown = {expected, falsy}
    ExpectedErrors = {expected}
    FalsyErrors = {falsy}
    MaxLines = 1
    NoOp = NoOp
    fa = fa  fb = fb  ra = ra
    Feature = {fa, fb}
    FeatureRoute <- MCFeatureRoute
    FeatureNeeds <- MCFeatureNeeds
    WritesMigration = {fa}
    BrowserFeature = {fb}
    NoRoute = NoRoute
    MaxConfigures = 2
    MaxAsked = 1
    LlmCall = {q1, q2}
    ChunkUsage <- MCUsage
    MaxReads = 3
    x1 = x1  x2 = x2  r1 = r1  r2 = r2  r3 = r3  r4 = r4
    NextError = {x1, x2}
    ControlFlow = {x2}
    ServerFault = {x2}
    OwnRule = {x1, x2}
    Route = {r1, r2, r3, r4}
    Wrapper <- MCWrapper
    CaptureRule <- MCCaptureRule
    HookRule = "unset"
    EdgeRoute = {r4}
    Outlives = {}
    PageError = {x1}
    NoError = NoError
    m1 = m1  m2 = m2
    Copy = {m1, m2}
    Layouts <- MCLayouts
    Option <- MCOption
    MaxHandles = 2
    MaxHeld = 1
    MaxShutdowns = 2
    p1 = p1  p2 = p2  p3 = p3  h1 = h1  h2 = h2
    PySpan = {p1, p2, p3}
    PyTraceOf <- MCPyTrace
    LocalRoot = {p1}
    ServerSpan = {p1, p2}
    PyThread = {h1, h2}
    Worker = {w1, w2}
    PerTrace = 1
    MaxKept = 1
    TraceLife = 1
    SweepInterval = 2
    MaxPyTime = 2
SPECIFICATION SdkSpec
CHECK_DEADLOCK FALSE
SYMMETRY ErrorSymmetry
INVARIANTS SdkTypeOK HandledCounted LoggedErrorsReported RejectionsAsNode SpansKept
    OperationsSummed WarningsAreProven TokensCountedOnce NextErrorsHandled CopiesActAsOne
