SPECIFICATION Spec
CONSTANTS
    Requests = {r1}
    MaxGeneration = 1
    MaxOps = 2
    MaxParts = 0
    MaxFaults = 1
    Spare = 0
    RefusedKinds = {"delete"}
    LostKinds = {}
    None = None
INVARIANTS DiskKept
CHECK_DEADLOCK FALSE
