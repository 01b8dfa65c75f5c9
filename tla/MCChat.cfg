SPECIFICATION Spec
CONSTANTS
    Users = {ala, ola}
    ala = ala
    ola = ola
    MAX_CLIENTS = 2
    MaxFd = 2
    LineOps = {"LIST", "2ALL", "2ONE", "STOP"}
    MaxLines = 1
    MaxPings = 1
    None = None
INVARIANTS
    ActiveSlotHasThread
    NoEcho
    OwnConnection
    OnlyOwnEntry
    Attribution
SYMMETRY Symmetry
CHECK_DEADLOCK FALSE
