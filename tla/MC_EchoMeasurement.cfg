SPECIFICATION FairSpec
CONSTANTS
    Count = 3
    RcvBuf = 2
    MaxCopies = 1
    NoReply = NoReply
INVARIANTS
    TypeOK
    RowsExceedRequestsByCopies
    OwnReplyUntilTimeout
    SummaryAgreesWithRows
    MissedAgreesWithRows
    ReceivedWereEchoed
PROPERTY ClientEnds
CHECK_DEADLOCK FALSE
