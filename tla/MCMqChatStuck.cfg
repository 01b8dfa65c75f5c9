SPECIFICATION Spec
CONSTANTS
    Users = {ala, ola}
    ala = ala
    ola = ola
    MAX_CLIENTS_NO = 2
    QueueSize = 1
    MaxTexts = 3
    MaxRestarts = 0
    Interrupts = TRUE
    None = None
INVARIANTS
    NeverStuck
SYMMETRY Symmetry
CHECK_DEADLOCK FALSE
