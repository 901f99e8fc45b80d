\* every kind of relocation, at the edges of pages and of every range
SPECIFICATION Spec
CONSTANTS
    W64 = 10
    W48 = 9
    W32 = 8
    W16 = 4
    Branch64 = 6
    Branch32 = 6
    PageBits = 5
    Place <- MCPlace
    Symbol <- MCSymbol
    Addend <- MCAddend
    StubAway <- MCStub
INVARIANTS
    TypeOK
    Addresses
    StubOnlyOutOfReach
    RefusedOnlyForCause
CHECK_DEADLOCK FALSE
