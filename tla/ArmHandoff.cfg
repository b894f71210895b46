SPECIFICATION Spec
CONSTANTS
    Requests = {r1}
    MaxGeneration = 2
    MaxOps = 3
    MaxParts = 1
    MaxFaults = 2
    Spare = 0
    RefusedKinds = {}
    LostKinds = {}
    None = None
INVARIANTS DiskKept OneStartPerGeneration NoForgottenVm
CONSTRAINT FewHandoffs
ACTION_CONSTRAINT PromptCron
CHECK_DEADLOCK FALSE
