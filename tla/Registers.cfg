SPECIFICATION RegistersSpec
CONSTANTS
  Residents = {ann, bo}
  Rooms = {"a", "b"}
  NoRun = NoRun
  Reviewed = {"a"}
  Claims <- Grounds
  Modes = {"up"}
  MaxRuns = 3
  Workloads <- Sittings
  Life = 2
  Margin = 1
  Models = {m1, m2}
  None = None
  Offers <- MCOffers
  Allowances <- MCAllowances
INVARIANTS RegistersAreSound LandsOnAnothersWord AcceptedIsInTheCity RecordsAreTrue LoginsStayGood
PROPERTIES ConfidentialStaysHere
SYMMETRY TheResidents
CHECK_DEADLOCK FALSE
