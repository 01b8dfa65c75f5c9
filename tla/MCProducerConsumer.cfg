SPECIFICATION FairSpec
CONSTANTS
    BUFFER_SIZE = 2
    VALUE_COUNT = 5
    MaxSpurious = 2
INVARIANTS
    ExactlyOnce
    NoLostWakeup
    ChecksPass
PROPERTIES
    Termination
    ImplementsHandoff
