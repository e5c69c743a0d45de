CONSTANTS
    DropTenant = {t1}
    Anon = {a1}
    Hash = {h1, h2}
    NoHash = NoHash
    MaxRows = 2
    MaxKeyHashes = 1
    MaxDrops = 2
SPECIFICATION FairDrops
CHECK_DEADLOCK FALSE
PROPERTY ShutdownWritesBuffered
