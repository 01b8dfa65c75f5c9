SPECIFICATION FairSpec
CONSTANTS
    Users = {ala, ola}
    ala = ala
    ola = ola
    MAX_CLIENTS = 1
    MaxFd = 2
    LineOps = {"STOP"}
    MaxLines = 1
    MaxPings = 1
    None = None
INVARIANTS
    NoLeakedDescriptor
PROPERTIES
    DepartureUnregisters
CHECK_DEADLOCK FALSE
