SPECIFICATION Spec
CONSTANTS
    Texts <- MCTexts
    Capacity = 1
INVARIANTS
    ReadAsWritten
    
    
    FullOnlyWhenNeeded
CHECK_DEADLOCK FALSE
