SPECIFICATION FairSpec
CONSTANTS
    MaxBlksize = 2
    Payloads <- MCPayloads
    Grants = {1, 2}
    Capacity = 27
    Addr <- MCAddr
    MaxLost = 2
    MaxAttempts = 2
INVARIANTS
    
    AcceptedIsSent
    VerifiedIsSent
    ConfirmedIsAccepted
    OverflowIsDeserved
PROPERTIES
    TransferEnds
CHECK_DEADLOCK FALSE
