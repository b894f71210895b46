SPECIFICATION FairSpec
CONSTANTS
    Requests = {r1, r2}
    Owners = {o1, o2}
    Cron = cron
    MaxOverlap = 2
    None = None
INVARIANTS LeaseHeld StoppedIsStopped
PROPERTIES SessionsEnd GuestsAreMetered ExhaustedStops StartsRecover
CHECK_DEADLOCK FALSE
