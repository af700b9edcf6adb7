SPECIFICATION FairSpec
CONSTANTS
    p1 = p1
    p2 = p2
    Publishers = {p1, p2}
    max_queue_len = 2
    DeadlineTicks = 1
    MaxCommands = 3
    MaxTime = 2
    NoDeadline = NoDeadline
    NoCommand = NoCommand
INVARIANTS
    TypeOK
    EveryCommandCounted
    AtMostOneAfterStop
    WorkerKeepsItsSocket
PROPERTIES
    QueueImplements
    LateOnlyBehindAnother
    CommandsLeave
    StopEnds
CHECK_DEADLOCK FALSE
