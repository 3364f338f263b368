CONSTANTS
    Runs = {r1, r2, r3, r4}
    Clients = {c1, c2}
    Requests = 1
    MaxKills = 1
    MaxFaults = 1
    None = None
SPECIFICATION FairSpec
PROPERTIES InterruptedEventuallyConsumed EveryRunAnswered
CHECK_DEADLOCK FALSE
