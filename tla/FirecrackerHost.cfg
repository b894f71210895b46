SPECIFICATION Spec
CONSTANTS
    Durable = {d}
    Ephemeral = {e}
    Requests = {r1}
    MaxSandboxes = 1
    TornCount = FALSE
    LateRequests = FALSE
    MaxMachines = 2
    MaxWork = 2
    MaxFaults = 1
    MaxExits = 1
    None = None
CONSTRAINT OneMishap
INVARIANTS TypeOK WorkKept ServedIntact HeldOpen HostIdle
PROPERTY KeepsWork
CHECK_DEADLOCK FALSE
