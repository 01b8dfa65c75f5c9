SPECIFICATION FairSpec
CONSTANTS
    Users = {ala, ola, ela}
    ala = ala
    ola = ola
    ela = ela
    MAX_CLIENTS_NO = 3
    QueueSize = 2
    MaxTexts = 2
    MaxRestarts = 0
    Interrupts = FALSE
    None = None
INVARIANTS
    Registered
    SameOrder
PROPERTIES
    EveryTextShown
CHECK_DEADLOCK FALSE
