SPECIFICATION MCSpec
CONSTANTS
    Parts = {"program", "text"}
    Texts <- TextSources
    Programs <- Sources
    Main = "m"
    Headers = {"h"}
    IncludeDepth = 3
INVARIANTS
    AdapterTypeOK
    SourceRefusedExactly
    IncludesTranslated
    PlacesAreKept
    AcceptedSourceIsWhole
