SPECIFICATION SpecOptimized
CONSTANTS
    Programs <- MCPrograms
    Pool <- MCPool
INVARIANTS
    Assembles
    PeepholeKeepsOutcome
    ReadsInBounds
PROPERTY ImplementsIR
