CONSTANTS
    Turns = {t1, t2, t3, t4}
    Sessions = {s1, s2}
    HardLimit = 3
    Strategies = {"drop-oldest", "defer-new"}
    Burst = FALSE
    None = None
SPECIFICATION FairSpec
INVARIANT OneTurnPerSession
PROPERTY ImplementsSerialSessions
CHECK_DEADLOCK FALSE
