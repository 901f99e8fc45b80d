\* names defined twice, two names with one hash, and objects the loader refuses
SPECIFICATION Spec
CONSTANTS
    Null = Null
    Object = {"main", "g1", "odd", "com", "loc", "w", "k"}
    Sections <- MCSections
    Symbols <- MCSymbols
    Relocs <- MCRelocs
    Archive = {}
    Members <- MCMembers
    Name <- MCName
    HostName = {"g", "m"}
    SystemName = {}
    Hash <- MCCollide
    Arch = "arm64"
    Unreadable = {}
    Unfit <- MCUnfit
    Remote <- MCRemote
    High <- MCHigh
    Cramped = {}
    MaxPasses = 1
    MaxFailures = 0
INVARIANTS
    DefinitionsVisible
    OneBinding
    BoundToDefinition
PROPERTIES
    LookupStable
    AbortOnlyForCause
CHECK_DEADLOCK FALSE
