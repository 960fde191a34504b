SPECIFICATION Spec
CONSTANTS
  Rooms = {a, b}
  Reviewed = TRUE
  MaxAsks = 1
  MaxRuns = 3
  MaxCalls = 2
  MaxSweeps = 1
  MaxHalts = 1
  Faults = {"crash", "files", "run_line", "desk_line"}
  MaxFaults = 1
INVARIANTS GovernanceIsTheLedger PeopleDecide NothingIsLeftBehind
SYMMETRY Symmetry
CHECK_DEADLOCK FALSE
