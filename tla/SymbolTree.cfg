\* every order of insertion of four keys, every lookup in between
SPECIFICATION FairSpec
CONSTANTS
    Top = 4
    Value = {"u", "v"}
    Null = Null
INVARIANTS
    TypeOK
    TreeInv
PROPERTIES
    ImplementsMap
    WalkDescends
    CallsEnd
CHECK_DEADLOCK FALSE
