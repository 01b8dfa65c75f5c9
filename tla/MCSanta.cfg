SPECIFICATION FairSpec
CONSTANTS
    Reindeer = {r1, r2, r3, r4}
    r1 = r1
    r2 = r2
    r3 = r3
    r4 = r4
    MaxSpurious = 2
INVARIANTS
    CountsEachOnce
    WokenByAll
    NoSleepWhileAllWait
PROPERTIES
    AlwaysDeliversAgain
CHECK_DEADLOCK FALSE
