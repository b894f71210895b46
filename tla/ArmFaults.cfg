SPECIFICATION Spec
CONSTANTS
    Requests = {r1, r2}
    MaxGeneration = 2
    MaxOps = 3
    MaxParts = 0
    MaxFaults = 1
    Spare = 0
    RefusedKinds = {"start", "stop"}
    LostKinds = {"start", "stop"}
    None = None
SYMMETRY Interchangeable
CONSTRAINT RaceEarly
INVARIANTS TypeOK ReadyHasVm OneStartPerGeneration
PROPERTIES OnlyOwnerTearsDown
CHECK_DEADLOCK FALSE
