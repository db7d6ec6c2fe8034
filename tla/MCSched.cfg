CONSTANTS
    MAX_TASKS = 8
    IDLE_TASKS = 3
SPECIFICATION FairSpec
INVARIANTS
    TypeOK
    FlowIdentity
    OneRunning
    BoundedWait
PROPERTIES
    ExitIsFinal
    NoStarvation
