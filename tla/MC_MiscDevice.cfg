SPECIFICATION FairSpec
CONSTANTS
    w1 = w1
    w2 = w2
    r1 = r1
    s1 = s1
    Cells <- MCCells
    Data <- MCData
    Zero = "zero"
    Writers = {w1, w2}
    Readers = {r1}
    Senders = {s1}
    SlotRecord <- MCSlotRecord
    Packet <- MCPacket
    Remainder <- MCRemainder
    SlackRecords <- MCSlackRecords
    MaxSlack = 1
INVARIANTS
    TypeOK
    SingleHolder
    AllocationIsWhole
    DriverReadIsRegular
    SlackReadIsRegular
PROPERTY EveryProcessEnds
