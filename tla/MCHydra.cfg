CONSTANTS
    MAX_TASKS = 4
    MAX_MESSAGES = 3
    MAX_MESSAGE_SIZE = 256
    Clients = {0}
    Servers = {2, 3}
    BULLET_SERVER_PID = 2
    MAX_MIGRATION_REQUESTS = 1
    NET_SERVER_PID = 3
    MAX_SOCKETS = 1
    CELL = 128
    RX_CELLS = 2
    LAST_ID = 1
    Packets = {}
    NetApi <- MCNetApi
    NetRaw <- MCNetRaw
SPECIFICATION FairSpec
INVARIANTS
    BulletInOrder
    NetInOrder
PROPERTY
    BothServe
