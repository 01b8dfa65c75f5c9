SPECIFICATION MCSpec
CONSTANTS
    PING_INTERVAL = 10
    SECOND = 3
    Latency = 2
    Delay = 2
    MaxTime = 150
    Garbage = Garbage
    Instance = {i1, i2}
    CAPACITY = 4
    BlockSizes = {1, 2, 3, 4}
    FileSizes = {0, 1, 2, 3, 4, 5, 6, 7, 8, 9}
    Byte = {1, 2, 3, 4, 5, 6, 7, 8, 9, 10}
    Files <- FilesOfAllSizes
    BUFFER_SIZE = 4
    WIDTH = 8
    Inputs <- PositiveInts
    MaxIterations = {0, 1, 3, 7, 20, 60}
    Counts <- FewRectangles
    MAX_PROCESSES = 3
INVARIANTS
    SilentRemovedInTime
    Reversed
    FirstOne
    EveryAreaOnce
PROPERTIES
    OnlyUnheardRemoved
    OwnResult
    LinesOnce
    WritingPasses
CHECK_DEADLOCK FALSE
