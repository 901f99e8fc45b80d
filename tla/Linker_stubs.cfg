\* a retry after a failing mprotect makes more stubs than were counted
SPECIFICATION Spec
CONSTANTS
    Null = Null
    Object = {"g"}
    Sections <- MCSections
    Symbols <- MCSymbols
    Relocs <- MCRelocs
    Archive = {}
    Members <- MCMembers
    Name <- MCName
    HostName = {}
    SystemName = {"m", "atexit"}
    Hash <- MCHash
    Arch = "arm"
    Unreadable = {}
    Unfit = {}
    Remote = {}
    High = {}
    Cramped = {}
    MaxPasses = 2
    MaxFailures = 1
INVARIANTS
    StubsUpperBound
CHECK_DEADLOCK FALSE
