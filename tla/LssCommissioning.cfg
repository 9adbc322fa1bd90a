SPECIFICATION FairSpec
CONSTANTS
    n1 = n1
    n2 = n2
    n3 = n3
    W = 2
    LastSub = 2
    MaxNodeId = 2
    Unconfigured = 255
    Slaves = {n1, n2, n3}
    Known = {n1}
    Addresses <- MCAddresses
INVARIANTS
    SelectsOne
    OneSelected
    UniqueNodeIds

    
