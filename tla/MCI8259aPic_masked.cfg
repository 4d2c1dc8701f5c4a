SPECIFICATION PicSpec
CONSTANTS
    Levels = 3
    Cascade = 1
    MasterLines <- MCMasterLines
    SlaveLines <- MCSlaveLines
    MasterImr = {0}
    SlaveImr = {0}
    Masks <- MCMasks
    Ocw2s <- MCPlainEoi
    Reinits = FALSE
    SpecialMasks = FALSE
    None = None
INVARIANTS PendingIsUnmasked
