SPECIFICATION FdcSpec
CONSTANTS
    Drives = {0}
    Equipped = {0}
    DiskTypes = {"2HD", "2DD"}
    PulledUps = {FALSE}
    Commands = {"specify", "status", "seek", "data", "scan"}
    Awaited = {"seek", "data"}
    PortExcs = {TRUE, FALSE}
    Forced = {1}
    Careful = TRUE
    None = None
INVARIANT ExecutionServed
