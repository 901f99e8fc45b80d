\* an arm64 branch with an addend through a stub
SPECIFICATION Spec
CONSTANTS
    Null = Null
    Object = {"cold"}
    Sections <- MCSections
    Symbols <- MCSymbols
    Relocs <- MCRelocs
    Archive = {}
    Members <- MCMembers
    Name <- MCName
    HostName = {}
    SystemName = {"m", "atexit"}
    Hash <- MCHash
    Arch = "arm64"
    Unreadable = {}
    Unfit = {}
    Remote = {}
    High = {}
    Cramped = {}
    MaxPasses = 1
    MaxFailures = 0
INVARIANTS
    BranchesReachAddend
CHECK_DEADLOCK FALSE
