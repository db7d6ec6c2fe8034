CONSTANTS
    MAX_TASKS = 2
    MAX_MESSAGES = 3
    MAX_MESSAGE_SIZE = 2
    Data = {d1, d2}
SPECIFICATION Spec
INVARIANTS
    TypeOK
    QueuesLinked
    FreeLinked
    EverySlotOnce
    QueuedAreWhole
    AuditsAreQuiet
PROPERTY
    ImplementsIPC
