SPECIFICATION DuplicatingSpec
CONSTANTS
    name = name
    flag = flag
    secret = secret
    ident = ident
    absent = absent
    None = None
    Byte = {0, 1, 2}
    Boolean = "BOOLEAN"
    ExpMax = 4
    SegMax = 7
    MaxLen = 32
    Address <- MCAddress
    DataType <- MCDataType
    FixedSize <- MCFixedSize
    Type <- MCType
    Access <- MCAccess
    InitialValue <- MCInitialValue
    MaxInFlight = 4
    Objects <- FewObjects
    Values <- FewValues
INVARIANTS
    IntactDespiteDuplicates
