SPECIFICATION Spec
CONSTANTS
    t1 = t1
    t2 = t2
    e1 = e1
    e2 = e2
    a1 = a1
    Pieces = {e1, e2, a1}
    Edits = {e1, e2}
    Author <- Authors
    CommonLine = {e2, a1}
    Tabs = {t1, t2}
    MaxOverlap = 2
    MaxRare = 0
    None = None
PROPERTY OnlyCollisions
CHECK_DEADLOCK FALSE

