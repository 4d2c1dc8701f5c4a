SPECIFICATION Spec
CONSTANTS
    Instant = {0, 1, 2}
    None = None
    DeviceCount = 2
    MaxInstant = 2
    MaxLate = 1
    Panics = TRUE
    HostFaults = TRUE
INVARIANTS
    RollbackSucceeds
    NoOrphanedRestore
PROPERTIES
    RestoreAllOrNothing
    SavesAndRestoresAtomically
