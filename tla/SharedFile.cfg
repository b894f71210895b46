SPECIFICATION Spec
CONSTANTS
    t1 = t1
    t2 = t2
    e1 = e1
    e2 = e2
    a1 = a1
    Pieces = {e1, e2, a1}
    Edits = {e1, e2}
    Author <- Authors
    CommonLine = {e2, a1}
    Tabs = {t1, t2}
    MaxOverlap = 2
    MaxRare = 1
    None = None
INVARIANTS TypeOK NothingTwice EditorsAgree AutosaveComes
PROPERTIES EditsStay NothingOverwritten
CHECK_DEADLOCK FALSE

