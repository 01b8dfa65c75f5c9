SPECIFICATION FairSpec
CONSTANTS
    grid_height = 2
    grid_width = 3
    Seeds <- ThreeAlive
    Junk <- FullGrid
    thread_no = 4
    Punctual = TRUE
INVARIANTS
    TypeOK
    OwnCells
    OncePerIteration
PROPERTIES
    ImplementsLife
