SPECIFICATION FdcSpec
CONSTANTS
    Drives = {0}
    Equipped = {0}
    DiskTypes = {"2HD"}
    PulledUps = {FALSE}
    Commands = {"specify", "status", "seek", "data", "scan"}
    Awaited = {"seek", "data"}
    PortExcs = {TRUE, FALSE}
    Forced = {1}
    Careful = TRUE
    None = None
PROPERTY StatusTaken
