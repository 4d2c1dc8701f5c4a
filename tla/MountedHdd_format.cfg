SPECIFICATION Spec
CONSTANTS
    SectorCount = 3
    Offsets = {0, 1, 2}
    Values = {0, 1}
    Fill = 0
    SectorsPerTrack = 2
    FormatStarts = {0, 2}
    Faults = {}
    Modes = {"file"}
    Migrates = FALSE
INVARIANTS DirtyTellsAll
