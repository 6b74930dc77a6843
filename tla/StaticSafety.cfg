SPECIFICATION Spec
CONSTANTS
    g = g
    x = x
    y = y
    ptr = ptr
    tmp = tmp
    par = par
    Names = {g, x, y, ptr, tmp, par}
    Globals = {g}
    Parameter = par
    WordBytes = 8
    Fuel = 80
    MaxHeap = 2
    Choices = {0, 1}
    Units <- AllUnits
INVARIANTS
    EntryFactsHold
    AlarmsAreErrors
    AnalysisEnds
CHECK_DEADLOCK FALSE
