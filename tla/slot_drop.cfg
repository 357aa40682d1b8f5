SPECIFICATION Spec
CONSTANTS
    LowWatermark = 1
    HighWatermark = 2
    MaintenanceEnabled = TRUE
    User = {u1}
    Worker = worker
    Closer = closer
    MaxSlots = 4
    Existing = {}
    Faults = {"create"}
    MaxFaults = 1
INVARIANTS
    HeldIsConnected
