CONSTANTS
    HEAP = 26
    HEADER = 4
    ALIGN = 2
    SLACK = 2
    UINT = 128
    Requests = {0, 1, 4, 7, 120}
SPECIFICATION Spec
INVARIANTS
    TypeOK
    BlocksTileTheHeap
    FreeBlocksAreMerged
    AllocatedIsLive
    RepeatedFreeIsNoticed
