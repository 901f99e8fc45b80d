\* arm64: call order, an archive, failing mprotect, repeated resolves
SPECIFICATION FairSpec
CONSTANTS
    Null = Null
    Object = {"main", "g", "m"}
    Sections <- MCSections
    Symbols <- MCSymbols
    Relocs <- MCRelocs
    Archive = {"lib", "bad"}
    Members <- MCMembers
    Name <- MCName
    HostName = {"atexit"}
    SystemName = {"m", "atexit"}
    Hash <- MCHash
    Arch = "arm64"
    Unreadable = {"bad"}
    Unfit = {}
    Remote = {}
    High = {}
    Cramped = {}
    MaxPasses = 2
    MaxFailures = 1
INVARIANTS
    TypeOK
    ReferencesRight
    ResolvedIsSealed
    PlacesRight
    SessionInv
PROPERTIES
    AddrStable
    CallsReturn
CHECK_DEADLOCK FALSE
