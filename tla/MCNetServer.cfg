CONSTANTS
    MAX_TASKS = 3
    MAX_MESSAGES = 2
    MAX_MESSAGE_SIZE = 256
    Clients = {0, 1}
    Servers = {2}
    NET_SERVER_PID = 2
    MAX_SOCKETS = 2
    CELL = 128
    RX_CELLS = 3
    LAST_ID = 2
    Packets <- RingPackets
    ApiRequests <- ServerApi
    RawRequests <- ServerRaw
SPECIFICATION Spec
VIEW serverView
CONSTRAINT RingsOfOneTask
INVARIANTS
    TypeOK
    AnswersInOrder
    IdsAreOwned
PROPERTY
    IdsNeverReturn
    RingsAreQueues
