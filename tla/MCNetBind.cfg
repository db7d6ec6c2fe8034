CONSTANTS
    MAX_TASKS = 3
    MAX_MESSAGES = 2
    MAX_MESSAGE_SIZE = 256
    Clients = {0}
    Servers = {2}
    NET_SERVER_PID = 2
    MAX_SOCKETS = 1
    CELL = 128
    RX_CELLS = 3
    LAST_ID = 1
    Packets = {}
    ApiRequests <- BindApi
    RawRequests = {}
SPECIFICATION Spec
PROPERTY
    BindBinds
