SPECIFICATION Spec
CONSTANTS
    Parts = {"line", "plan", "build", "cargo", "quote"}
    MaxArguments = 3
    MaxAdditional = 3
    MaxLength = 3
    MaxQuoted = 2
    CommandLines <- Lines
    Modes = {"unchecked", "static-checked", "checked"}
    AdditionalArgs <- UserLines
    Builds <- AllBuilds
    Environments <- MCEnvironments
    Mains <- MCMains
    Needs <- MCNeeds
    ObjectPath <- MCObjectPath
INVARIANTS
    AllTypeOK
    LineMeansOneThing
    ExtensionLineIsKept
    BuildIsWhole
    RecordTellsOutcome
    ArgumentsSurvive
PROPERTIES
    ProductAfterFrontend
    CargoDelivers
