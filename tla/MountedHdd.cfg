SPECIFICATION Spec
CONSTANTS
    SectorCount = 3
    Offsets = {0, 1, 2}
    Values = {0, 1, 2}
    Fill = 0
    SectorsPerTrack = 2
    FormatStarts = {0, 1, 2}
    Faults = {"write", "seek", "replace", "open", "reopen"}
    Modes = {"file", "unwritable", "ram", "readonly"}
    Migrates = TRUE
INVARIANTS FileIsRecent FlushIsHonest CleanIsWritten
