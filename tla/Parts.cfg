SPECIFICATION Spec
CONSTANTS
    Parts = {"mcp", "store", "bundles", "rules", "streams", "attribution", "workshop", "cadences"}
    Transports = {"stdio", "http"}
    Programs = {"plain", "wrapped", "chatty"}
    MaxAsks = 5
    MaxLines = 5
    Contents = {a, b}
    StoreFaults = {"power", "kill", "io"}
    MaxStoreFaults = 3
    MaxPuts = 4
    MaxCityLines = 2
    MaxSegments = 2
    MaxStops = 2
    Absent = Absent
    Texts <- MCTexts
    Proposals <- MCProposals
    MaxRuns = 2
    MaxSettings = 2
    Dialects = {"anthropic", "openai"}
    MaxBlocks = 2
    MaxPieces = 2
    MaxGarbled = 1
    Payers = {p}
    Slots = {1, 2}
    Prompts <- MCPrompts
    Tools = {1, 2}
    Sizes = {0, 2}
    Bills = {2, 4}
    MaxRecords = 5
    Nodes = {1, 2, 3}
    Strangers = {9}
    MinuteMs = 2
    DayMinutes = 3
    MaxClock = 30
INVARIANTS SessionIsInOrder StoreKeeps BundleIsTheCity RulesHold RepliesAreWhole WorkedOutRight
PROPERTIES EveryCallReturns ChargedOnce
CHECK_DEADLOCK FALSE
