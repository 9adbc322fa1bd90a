SPECIFICATION FairSpec
CONSTANTS
    Period = 2
    MaxDelay = 1
    Timeout = 3
    MaxEvents = 2
    Sent <- MCSent
INVARIANTS
    LivingNotTimedOut
    DeadNotAlive
PROPERTIES
    
    SilentUntilBoot
    MonitorSettles
