SPECIFICATION Spec
CONSTANTS
    LowWatermark = 1
    HighWatermark = 2
    MaintenanceEnabled = TRUE
    User = {u1}
    Worker = worker
    Closer = closer
    MaxSlots = 4
    Existing = {}
    Faults = {"create", "spawn"}
    MaxFaults = 1
INVARIANTS
    SlotHasOneOwner
    NothingLeftBehind
    NoLostWakeup
PROPERTIES
    PoolRefills
    ShutdownReturns
