SPECIFICATION LossySpec
CONSTANTS
    n1 = n1
    n2 = n2
    n3 = n3
    W = 2
    LastSub = 1
    MaxNodeId = 1
    Unconfigured = 255
    Slaves = {n1}
    Known = {}
    Addresses <- MCAddresses
INVARIANTS
    CompleteMeansMatched
