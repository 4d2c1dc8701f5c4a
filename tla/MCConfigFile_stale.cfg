SPECIFICATION Spec
CONSTANTS
    Editors = {e1, e2}
    Exists = {TRUE}
    MaxFiles = 3
    MaxTexts = 2
    MaxReads = 2
    Overwrites = FALSE
    Outsiders = {FALSE}
    PowerLoss = FALSE
    IoErrors = FALSE
    None = None
CHECK_DEADLOCK FALSE
SYMMETRY MCSymmetry
INVARIANTS ChangesStay
