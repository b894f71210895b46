SPECIFICATION FairPromptSpec
CONSTANTS
    Requests = {r1}
    MaxGeneration = 2
    MaxOps = 4
    MaxParts = 0
    MaxFaults = 1
    Spare = 1
    RefusedKinds = {"start", "stop"}
    LostKinds = {}
    None = None
PROPERTIES OperationSettles FailedStopRetried DeletionCompletes
CHECK_DEADLOCK FALSE
