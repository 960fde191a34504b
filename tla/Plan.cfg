SPECIFICATION PlanSpec
CONSTANTS
    WHOLE_PPB = 10
    NODE_DEPTH_MAX = 2
    Rooms = {r1, r2}
    Nowhere = nowhere
    Hall = r1
    Roadmap <- ThreeRows
    Faults = {"crash", "append", "write", "read"}
    MaxMishaps = 1
    MaxCalls = 2
    SplitInto = {2}
    MaxNodes = 5
INVARIANTS PlanFollowsTheLedger PlanAddsUp
PROPERTIES PursuitEnds
CHECK_DEADLOCK FALSE
