SPECIFICATION Spec
CONSTANTS
    Count = 3
    RcvBuf = 2
    MaxCopies = 1
    NoReply = NoReply
INVARIANT ParsedAsWritten
CHECK_DEADLOCK FALSE
