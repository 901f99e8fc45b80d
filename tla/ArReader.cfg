\* archives of up to three members, whole and cut off at every byte
SPECIFICATION Spec
CONSTANT Files <- MCFiles
INVARIANTS
    TypeOK
    Complete
    FailsOnlyForCause
PROPERTIES
    WellFormedLoads
    Returns
CHECK_DEADLOCK FALSE
