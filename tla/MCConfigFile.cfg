SPECIFICATION Spec
CONSTANTS
    Editors = {e1, e2}
    Exists = {TRUE, FALSE}
    MaxFiles = 3
    MaxTexts = 3
    MaxReads = 2
    Overwrites = TRUE
    Outsiders = {TRUE, FALSE}
    PowerLoss = TRUE
    IoErrors = TRUE
    None = None
CHECK_DEADLOCK FALSE
SYMMETRY MCSymmetry
INVARIANTS StampTellsContent OneCreator
PROPERTIES ReplacesAtomically
