SPECIFICATION Spec
CONSTANTS
    Instant = {0, 1, 2, 3}
    None = None
    DeviceCount = 2
    MaxInstant = 3
    MaxLate = 1
    Panics = FALSE
    HostFaults = FALSE
INVARIANTS NeverPartial
