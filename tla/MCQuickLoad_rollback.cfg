SPECIFICATION Spec
CONSTANTS
    a = a
    b = b
    c = c
    x = x
    None = None
    Entries <- MCOneDrive
    HasIdeDisk = {TRUE}
    WriteFaults = TRUE
    MaxRun = 1
    MaxWrites = 1
INVARIANTS
    ContentsRestored
