\* arm: implicit addends, failing mprotect, repeated resolves
SPECIFICATION Spec
CONSTANTS
    Null = Null
    Object = {"g", "cold", "d"}
    Sections <- MCSections
    Symbols <- MCSymbols
    Relocs <- MCRelocs
    Archive = {}
    Members <- MCMembers
    Name <- MCName
    HostName = {}
    SystemName = {"m"}
    Hash <- MCHash
    Arch = "arm"
    Unreadable = {}
    Unfit = {}
    Remote = {}
    High = {}
    Cramped <- MCCramped
    MaxPasses = 2
    MaxFailures = 1
INVARIANTS
    PlacesRight
    StubsReserved
    FaultOnlyForCause
    ResolveInv
PROPERTIES
    ImplementsTable
CHECK_DEADLOCK FALSE
