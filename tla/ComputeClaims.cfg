SPECIFICATION Spec
CONSTANTS
    Workspaces = {w1, w2}
    Owners = {1, 2}
    Requests = {r1, r2}
    Limit <- OneEach
    MaxLate = 1
    MaxOps = 2
    None = None
SYMMETRY Interchangeable
CONSTRAINT FewPending
INVARIANTS HeldWithinLimit ClaimsFollowOwner LocksDrain
CHECK_DEADLOCK FALSE
