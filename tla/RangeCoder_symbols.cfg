SPECIFICATION Spec
CONSTANTS
    SymBits = 2
    CodeBits = 8
    Applications <- MCApplications
INVARIANTS
    RangeSound
    Lossless
    FitsAsTold
CHECK_DEADLOCK FALSE
