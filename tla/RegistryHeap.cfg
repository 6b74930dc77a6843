SPECIFICATION Spec
CONSTANTS
    HS_MAX_OBJECTS = 3
    HS_MAX_FRAMES = 2
    SCOPE_MAX = 1
    UINT64_MAX = 3
    HeapAddr = {1, 2, 3}
    StackAddr = {4}
    StaticObjects <- HeapStatics
    Sizes = {0, 1, 2}
    TempIds = {1}
INVARIANTS
    TypeOK
    HeapMatchesAllocator
    LiveObjectsDisjoint
    AcceptedAccessIsLive
PROPERTIES
    ImplementsCheckedMemory
