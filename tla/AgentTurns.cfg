SPECIFICATION FairSpec
CONSTANTS
    Turns = {t1}
    Pollers = {"tab", "cron"}
    Room = room
    None = none
    MaxMishaps = 1
    MaxOverlap = 2
    Batch = 1
    MaxChunks = 3
    MaxBuffered = 2
    Half = 1
    CronBatch = 2
    Others = 2
    Stuck = 1
INVARIANTS ReplyOnce
PROPERTIES KeepsTranscript OwnSeatOnly RunSettles SeatComesFree RepliesArrive
CHECK_DEADLOCK FALSE
