\* the test programs, with the files they expect and with files that lack a definition
SPECIFICATION TestSpec
CONSTANTS
    Null = Null
    Object <- MCObject
    Sections <- MCSections
    Symbols <- MCSymbols
    Relocs <- MCRelocs
    Archive <- MCArchive
    Members <- MCMembers
    Name <- MCName
    HostName <- MCHostName
    SystemName = {"memcpy"}
    Hash <- MCHash
    Arch = "arm64"
    Unreadable = {"gone.a"}
    Unfit <- MCUnfit
    Remote = {}
    High = {}
    Cramped <- MCCramped
    MaxPasses = 2
    MaxFailures = 1
    Program <- MCProgram
INVARIANTS
    PassMeansLinked
    TestFailsOnlyForCause
PROPERTIES
    TestsEnd
CHECK_DEADLOCK FALSE
