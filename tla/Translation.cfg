SPECIFICATION TranslationSpec
CONSTANTS
    Parts = {"core", "c", "decl", "abi"}
    BitsPerByte = 2
    Checked = TRUE
    Programs <- CorePrograms
    Targets <- CoreTargets
    Assignments <- CPrograms
    Jobs <- Units
    PointerBytes = 8
    Signatures <- CallSignatures
INVARIANTS
    CoreAsStandard
    AssignmentsAsC
    DeclarationsAndCallsAsC
