\* stubs with room and without, sections mapped side by side
SPECIFICATION Spec
CONSTANTS
    Section <- MCSection
    Size <- MCSize
    Branches <- MCBranches
    Others <- MCOthers
    Implicit <- MCImplicit
    Stray <- MCStray
    PageSize = 64
    Pages = 4
    MaxFailures = 1
INVARIANTS
    TypeOK
    BranchesArrive
    CodeIntact
    FaultOnlyCramped
    StubsInv
PROPERTIES
    ImplementsTable
CHECK_DEADLOCK FALSE
