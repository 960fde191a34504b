SPECIFICATION Spec
CONSTANTS
    Roll = 4
    MaxWave = 2
    MaxDrafts = 5
    MaxFaults = 3
    Faults = {"io"}
INVARIANT AckedSurvives
CHECK_DEADLOCK FALSE
