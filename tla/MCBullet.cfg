CONSTANTS
    MAX_TASKS = 3
    MAX_MESSAGES = 2
    MAX_MESSAGE_SIZE = 256
    Clients = {0, 1}
    Servers = {2}
    BULLET_SERVER_PID = 2
    MAX_MIGRATION_REQUESTS = 2
SPECIFICATION Spec
INVARIANTS
    TypeOK
    AnswersInOrder
    IdsAreGood
