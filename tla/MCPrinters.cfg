SPECIFICATION FairSpec
CONSTANTS
    Users = {u1, u2}
    u1 = u1
    u2 = u2
    PRINTERS_NO = 2
    DocLen = 3
    MaxJobs = 1
    InterruptUsers = TRUE
    InterruptPrinters = TRUE
INVARIANTS
    BusyPrinterIsTaken
    PrintsItsDocument
    ExclusiveCopy
PROPERTIES
    EveryJobPrinted
CHECK_DEADLOCK FALSE
