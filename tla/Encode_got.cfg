\* GOT pages between 2 and 4 GiB away
SPECIFICATION Spec
CONSTANTS
    W64 = 10
    W48 = 9
    W32 = 8
    W16 = 4
    Branch64 = 6
    Branch32 = 6
    PageBits = 5
    Place <- MCPlace
    Symbol <- MCSymbol
    Addend <- MCAddend
    StubAway <- MCStub
INVARIANT GotPageInRange
CHECK_DEADLOCK FALSE
