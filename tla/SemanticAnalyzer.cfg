\* Four families of programs: control flow, names, types and files.
SPECIFICATION Spec
CONSTANTS
    Programs <- MC_Programs
    Identifiers <- MC_Identifiers
INVARIANTS
    TypeOK
    AcceptedIsWellFormed
    WellFormedIsAccepted
    RetainedNamesAgree
