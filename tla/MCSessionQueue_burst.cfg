CONSTANTS
    Turns = {t1, t2, t3, t4}
    Sessions = {s1}
    HardLimit = 2
    Strategies = {"drop-oldest", "defer-new"}
    Burst = TRUE
    None = None
SPECIFICATION FairSpec
INVARIANT Custody
PROPERTY EveryTurnSettles
CHECK_DEADLOCK FALSE
