SPECIFICATION Spec
CONSTANTS
    HS_MAX_OBJECTS = 3
    HS_MAX_FRAMES = 3
    SCOPE_MAX = 2
    UINT64_MAX = 3
    HeapAddr = {1}
    StackAddr = {2, 3}
    StaticObjects <- ScopeStatics
    Sizes = {0, 1, 2}
    TempIds = {1}
INVARIANTS
    AutomaticObjectsInOpenScopes
    AutomaticAndStaticUsable
PROPERTIES
    ImplementsCheckedMemory
