SPECIFICATION Spec
CONSTANTS
    Users = {ala, ola, ela}
    ala = ala
    ola = ola
    ela = ela
    MAX_CLIENTS_NO = 2
    QueueSize = 1
    MaxTexts = 1
    MaxRestarts = 1
    Interrupts = TRUE
    None = None
INVARIANTS
    TypeOK
    NoOwnText
SYMMETRY Symmetry
CHECK_DEADLOCK FALSE
