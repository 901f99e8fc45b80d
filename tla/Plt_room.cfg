\* stubs that do not fit behind their section
SPECIFICATION Spec
CONSTANTS
    Section <- MCSection
    Size <- MCSize
    Branches <- MCBranches
    Others <- MCOthers
    Implicit <- MCImplicit
    Stray <- MCStray
    PageSize = 64
    Pages = 4
    MaxFailures = 1
INVARIANT StubsInside
CHECK_DEADLOCK FALSE
