CONSTANTS
    r1 = r1  r2 = r2  r3 = r3  b1 = b1  b2 = b2  x = x  y = y  z = z  w = w
    i1 = i1  i2 = i2  t1 = t1  t2 = t2  None = None
    Request = {r1, r2, r3}
    Batch = {b1, b2}
    Occ = {x, y, z, w}
    Ident = {i1, i2}
    Tenant = {t1}
    MaxLen = 2
    Content <- MixedContent
    IdentOf <- MixedIdent
    TenantOf <- OneTenant
    TimeOf <- Times
    After = 1
    MaxWindows = 1
    MaxSamples = 1
    MaxTrackedIds = 5
    ForceAfter = 1
    LastMinute = 1
    OverlappingRetries = FALSE
    PartialWrites = TRUE
SPECIFICATION Spec
CHECK_DEADLOCK FALSE
SYMMETRY RequestSymmetry
INVARIANTS AcceptedIsCounted SamplesExact
