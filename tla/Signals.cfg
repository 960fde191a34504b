SPECIFICATION Spec
CONSTANTS
  Rooms = {a, b, c}
  Building = Building
  NewRoom = NewRoom
  Nowhere = Nowhere
  Residents = {a, b}
  Entrances = {"dispatch", "tick"}
  MayFail = TRUE
  MaxSpoken = 2
  Addresses = {a, b}
  NoAddress = NoAddress
  Capacity = 2
  Bandwidth = 1
  Blanks = {FALSE, TRUE}
  InboxFaults = {"crash", "append", "unready"}
  MaxSignals = 3
INVARIANTS QueuesAreTheLedger NothingTwice
PROPERTIES KnockIsAnswered
