SPECIFICATION FairSpec
CONSTANTS
    TOTAL_SLOTS = 30
    SESSION1_SLOTS = 6
    SESSION2_SLOTS = 4
    SESSION1_DRIVER_OFFSET = 1
    SESSION2_DRIVER_OFFSET = 20
    num_stas = 2
    ValueLists <- SweptValues
    Count = 2
    Early = 1
    Slack = 0
    AP = AP
    NoLog = NoLog
    Frames <- ThreeFrames
    MaxRepeats = 2
    MaxFaults = 1
INVARIANTS
    TypeOK
    ServedStationsDiffer
    PlanInForce
    SweepRowsMatchConfiguration
    AnalyzerSeesEveryRow
    AnalysisConsistent
    NMaxIsTight
PROPERTIES
    OldRowsExplained
    ScriptEnds
CHECK_DEADLOCK FALSE
