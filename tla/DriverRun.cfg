SPECIFICATION Spec
CONSTANTS
  Budget = 2
  MaxCalls = 2
  MaxSteers = 2
  Faults = {"provider", "storage", "crash"}
INVARIANTS RequestIsFaithful CancelIsFinal StartedIsFrozen EffectsAreKnown
CHECK_DEADLOCK FALSE
