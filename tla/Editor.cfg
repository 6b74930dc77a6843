SPECIFICATION EditorSpec
CONSTANTS
    Parts = {"tasks", "commands"}
    Calls = {build, run}
    first = first
    second = second
    MaxVersion = 1
INVARIANTS
    EditorTypeOK
    ResultIsOwn
PROPERTIES
    ExitCodeNotLost
    StartsWhatItBuilt
    AllReturn
