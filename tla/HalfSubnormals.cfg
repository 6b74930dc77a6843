SPECIFICATION LibrarySpec
CONSTANTS
    Parts = {"half"}
    Streams = {out, err, f1, f2}
    stderr = err
    Std = {out, err}
    NULL = NULL
    InitialCapacity = 1
    CapacityMax = 2
    MaxNesting = 2
    MaxAddress = 6
    MaxByte = 2
    Objects <- TwoObjects
    Views <- MixedViews
    StringCopies <- InDifferentObjects
    Lengths = {0, 1, 2, 3}
    UINT64_MAX = 7
    Files <- SomeFiles
    Prints <- AllPrints
    Scans <- AllScans
    ByteBits = 2
    PointerLength = 8
    WidthMax = 20
    TokenSize = 6
    Halves <- Subnormals
INVARIANT
    WidensExactly
