SPECIFICATION FairSpec
CONSTANTS
    Ids = {1, 127}
    Identity <- MCIdentity
    Errors <- MCErrors
    Overflows = {0, 1, 2}
    MAX_ERROR_HISTORY = 2
    HistoryLens = {1, 2}
    MaxRaised = 3
INVARIANTS
    
    HistoryIsMostRecent
    HostsAgreeOnErrors
    OneIdentity
    SpeaksAsItself
PROPERTIES
    OthersLeaveNoTrace
    SyncCounts
    AssignmentTakesEffect
