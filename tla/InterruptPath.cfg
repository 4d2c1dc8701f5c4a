SPECIFICATION Spec
CONSTANTS
    Levels = 3
    Cascade = 2
    MasterLines = {0, 1}
    SlaveLines = {0, 1}
    MasterImr = {0}
    SlaveImr = {0}
    Masks = {{}, {0}}
    Ocw2s = {}
    Reinits = FALSE
    SpecialMasks = FALSE
    None = None
    MaxNesting = 3
INVARIANTS ServiceMatchesHandlers SpuriousOnlyFromHalt
PROPERTIES WakesFromHalt
