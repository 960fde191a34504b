SPECIFICATION KindSpec
CONSTANTS
    Roll = 4
    MaxWave = 3
    MaxDrafts = 6
    MaxFaults = 3
    Faults = {"power", "kill", "io"}
    MixedWave = 2
    MixedDrafts = 4
INVARIANTS CityStands
PROPERTIES HistoryIsKept NewerIsUntouched RepairEnds
CHECK_DEADLOCK FALSE
