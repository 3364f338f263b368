CONSTANTS
    Runs = {r1, r2}
    Clients = {c1}
    Requests = 1
    MaxKills = 0
    MaxFaults = 1
    None = None
SPECIFICATION Spec
INVARIANTS FailedTurnIsContained
CHECK_DEADLOCK FALSE
