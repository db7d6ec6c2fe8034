CONSTANTS
    MAX_TASKS = 4
    MAX_MESSAGES = 3
    MAX_MESSAGE_SIZE = 256
    MAX_SOCKETS = 2
    NET_SERVER_PID = 2
    INT_MAX = 127
    WIDTH = 10
    SIZE = 5
    Users = {0, 3}
    IdleTasks = {1, 2}
    Lengths = {0, 20, 300}
    PACKET_POOL_SIZE = 3
    PERIOD = 2
    Bases = {1, 2, 3, 10, 16, 36, 37}
    Addresses <- MCAddresses
    AddressTexts <- MCTexts
    Formats <- MCFormats
    Arguments <- MCArguments
    CAPACITY = 4
SPECIFICATION LibrariesSpec
INVARIANTS
    NumbersReadBack
    AddressesReadBack
    PrintfFits
    PrintkAgrees
    StringsEnd
    PoolIsWhole
    QueueIsFifo
CHECK_DEADLOCK FALSE
