SPECIFICATION Spec
CONSTANTS
    Users = {u1, u2, u3}
    Requests = {r1, r2}
    MaxLinks = 2
    None = None
CONSTRAINTS OneGoes SecondLink
SYMMETRY Interchangeable
INVARIANTS OwnerAlone
PROPERTIES OwnerDecides KeptOut
CHECK_DEADLOCK FALSE
