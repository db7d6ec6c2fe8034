CONSTANTS
    MAX_TASKS = 4
    MAX_MESSAGES = 2
    MAX_MESSAGE_SIZE = 256
    MESSAGE = 272
    DATA = 256
    User = 3
    Sizes = {10, 256, 257}
SPECIFICATION Spec
INVARIANT
    WhatFitsIsSent
