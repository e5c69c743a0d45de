CONSTANTS
    r1 = r1  r2 = r2  b1 = b1  b2 = b2  x = x  y = y  z = z
    i1 = i1  i2 = i2  t1 = t1  None = None
    Request = {r1, r2}
    Batch = {b1, b2}
    Occ = {x, y, z}
    Ident = {i1, i2}
    Tenant = {t1}
    MaxLen = 2
    Content <- LiveContent
    IdentOf <- LiveIdent
    TenantOf <- LiveTenant
    TimeOf <- LiveTimes
    After = 1
    MaxWindows = 1
    MaxSamples = 2
    MaxTrackedIds = 5
    ForceAfter = 1
    LastMinute = 1
    OverlappingRetries = TRUE
    PartialWrites = FALSE
    o1 = o1  o2 = o2  NoOrg = NoOrg
    Org = {o1, o2}
    Size = {1, 3, 4}
    MaxSeq = 2
    MaxBatches = 1
    MaxBytes = 3
    MaxAttempts = 2
    HealthyConcurrency = 3
    DropTenant = {t1}
    Anon = {a1}
    Hash = {h1, h2}
    NoHash = NoHash
    MaxRows = 2
    MaxKeyHashes = 1
    MaxDrops = 4
SPECIFICATION LiveSpec
CHECK_DEADLOCK FALSE
INVARIANT DropsAccounted
PROPERTIES ImplementsFairDelivery StoredInTheEnd
