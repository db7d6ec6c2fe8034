CONSTANTS
    HEAP = 256
    HEADER = 16
    ALIGN = 8
    SLACK = 32
    UINT = 65536
    Requests = {56, 64}
SPECIFICATION Spec
INVARIANTS
    DoubleFreeIsDetected
