SPECIFICATION KnockingSpec
CONSTANTS
  Rooms = {a, b}
  Building = Building
  NewRoom = NewRoom
  Nowhere = Nowhere
  Residents = {a, b}
  Entrances = {"dispatch"}
  MayFail = FALSE
  MaxSpoken = 1
PROPERTIES HaltIsHeard
