SPECIFICATION FdcSpec
CONSTANTS
    Drives = {0}
    Equipped = {0}
    DiskTypes = {"2HD"}
    PulledUps = {TRUE, FALSE}
    Commands = {"specify", "status", "seek", "data", "scan"}
    Awaited = {"seek", "data"}
    PortExcs = {TRUE, FALSE}
    Forced = {1}
    Careful = TRUE
    None = None
INVARIANTS ExecutionServed NoChangeForgotten
PROPERTY ProgramServed
