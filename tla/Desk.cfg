SPECIFICATION DeskSpec
CONSTANTS
  k1 = k1
  k2 = k2
  k3 = k3
  r1 = r1
  Keys = {k1, k2, k3}
  NoKey = NoKey
  Runs = {r1, r2}
  NoRun = NoRun
  Jobs = {j1, j2}
  Asks <- MCAsks
  MaxQueue = 4
  MaxLate = 1
  MaxTurns = 3
INVARIANTS OneKeyOneCommand CloseLosesNothing
 
CHECK_DEADLOCK FALSE
