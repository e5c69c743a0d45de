CONSTANTS
    r1 = r1  r2 = r2  r3 = r3  b1 = b1  b2 = b2  x = x  y = y  z = z  w = w
    i1 = i1  i2 = i2  t1 = t1  t2 = t2  None = None
    Request = {r1, r2, r3}
    Batch = {b1, b2}
    Occ = {x, y, z}
    Ident = {i1, i2}
    Tenant = {t1, t2}
    MaxLen = 2
    Content <- OneLoopContent
    IdentOf <- TwoLoopIdent
    TenantOf <- TwoTenants
    TimeOf <- Times
    After = 1
    MaxWindows = 2
    MaxSamples = 1
    MaxTrackedIds = 1
    ForceAfter = 1
    LastMinute = 1
    OverlappingRetries = TRUE
    PartialWrites = TRUE
SPECIFICATION Spec
CHECK_DEADLOCK FALSE
SYMMETRY RequestSymmetry
INVARIANTS FoldsConserved FoldsCountedOnce WindowsAccounted
