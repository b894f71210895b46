SPECIFICATION Spec
CONSTANTS
    Users = {u1, u2, u3}
    Requests = {r1, r2}
    MaxLinks = 1
    None = None
INVARIANTS OwnerSeated
CHECK_DEADLOCK FALSE
