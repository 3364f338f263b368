CONSTANTS
    Runs = {r1, r2, r3, r4}
    Clients = {}
    Requests = 1
    MaxKills = 2
    MaxFaults = 0
    None = None
SPECIFICATION Spec
PROPERTIES NeverResumesConsumed
CHECK_DEADLOCK FALSE
