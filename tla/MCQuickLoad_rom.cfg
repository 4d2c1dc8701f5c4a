SPECIFICATION Spec
CONSTANTS
    a = a
    b = b
    c = c
    x = x
    None = None
    Entries <- MCOneDrive
    HasIdeDisk = {FALSE}
    WriteFaults = FALSE
    MaxRun = 1
    MaxWrites = 1
INVARIANTS
    NeverRefused
