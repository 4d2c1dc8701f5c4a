SPECIFICATION Spec
CONSTANTS
    Editors = {e1, e2}
    Exists = {FALSE}
    MaxFiles = 4
    MaxTexts = 2
    MaxReads = 2
    Overwrites = FALSE
    Outsiders = {FALSE}
    PowerLoss = FALSE
    IoErrors = FALSE
    None = None
CHECK_DEADLOCK FALSE
SYMMETRY MCSymmetry
INVARIANTS NeverReplaces
