SPECIFICATION PicSpec
CONSTANTS
    Levels = 2
    Cascade = 1
    MasterLines <- MCMasterLines
    SlaveLines <- MCSlaveLines
    MasterImr = {0}
    SlaveImr = {0}
    Masks <- MCMasks
    Ocw2s <- MCOcw2s
    Reinits = TRUE
    SpecialMasks = TRUE
    None = None
INVARIANTS
    CacheFresh
    IcwInBounds
