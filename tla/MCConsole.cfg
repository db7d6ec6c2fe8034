CONSTANTS
    MAX_TASKS = 4
    MAX_MESSAGES = 1
    MAX_MESSAGE_SIZE = 256
    MAX_SOCKETS = 1
    NET_SERVER_PID = 2
    INT_MAX = 127
    WIDTH = 10
    SIZE = 5
    Users = {0}
    IdleTasks = {1, 2}
    Lengths = {20}
    PACKET_POOL_SIZE = 1
    PERIOD = 1
    Bases = {10}
    Addresses = {}
    AddressTexts = {}
    Formats <- MCFormats
    Arguments <- MCArguments
    CAPACITY = 1
SPECIFICATION LibrariesSpec
INVARIANT
    PrintfReachesTheConsole
CHECK_DEADLOCK FALSE
