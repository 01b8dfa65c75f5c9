SPECIFICATION Spec
CONSTANTS
    Users = {ala, ola, ela}
    ala = ala
    ola = ola
    ela = ela
    MAX_CLIENTS = 3
    MaxFd = 2
    LineOps = {"2ONE"}
    MaxLines = 1
    MaxPings = 0
    None = None
INVARIANTS
    ToAddressee
SYMMETRY Symmetry
CHECK_DEADLOCK FALSE
