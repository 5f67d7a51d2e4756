SPECIFICATION MCSpec
CONSTANTS
    MaxActors = 2
    Receivers = {1}
    Disk = {d1, d2}
    MaxFaults = 1
    None = None
    IntMax = 3
    Target = {"t1", "t2"}
    Vmid <- MCVmid
    NetworkId <- MCNetworkId
    Manifest <- MCManifest
    RbdName = {"p1", "p2", "i1", "i2"}
    RbdTable <- MCRbdTable
    CONSOLE_SPOOL_SIZE = 3
    Byte <- MCByte
    Chunk <- MCChunk
    MaxOutput = 10
INVARIANTS
    RbdReuseIsExact
CHECK_DEADLOCK FALSE
