SPECIFICATION FairSpec
CONSTANTS
    Runs = {r1}
    Ring = 1
    HISTORY_MAX = 2
    HELD_RECORDS = 1
    MaxRecords = 3
    MaxLoads = 1
    MaxBreaks = 1
INVARIANTS ViewsAreCurrent
PROPERTIES PageIsAReading TheOpenSessionGivesWayLast ApprovalsCatchUp
CHECK_DEADLOCK FALSE
