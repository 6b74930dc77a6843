SPECIFICATION MCSpec
CONSTANTS
    Parts = {"jumps"}
    HS_MAX_OBJECTS = 2
    HS_MAX_FRAMES = 3
    SCOPE_MAX = 5
    UINT64_MAX = 3
    HeapAddr = {}
    StackAddr = {1, 2}
    StaticObjects <- NoStatics
    Sizes = {1}
    TempIds = {}
    MaxDepth = 3
    Ids = {1}
    JumpDepth = 3
    JumpStorage = {1, 2}
INVARIANTS
    LocalsOfOpenBlocks
