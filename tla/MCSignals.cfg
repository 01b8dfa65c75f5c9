SPECIFICATION FairSpec
CONSTANTS
    Senders = {s1, s2, s3}
    s1 = s1
    s2 = s2
    s3 = s3
    Modes = {0, 1, 2, 3}
    None = None
INVARIANTS
    ConfirmedWasCaught
PROPERTIES
    ConfirmedIsServed
    SenderEnds
CHECK_DEADLOCK FALSE
