CONSTANTS
    Runs = {r1, r2, r3, r4}
    Clients = {c1, c2}
    Requests = 2
    MaxKills = 1
    MaxFaults = 1
    None = None
SPECIFICATION Spec
INVARIANTS NoStuckPending RequestNotLost ResultHandedOutForGood
SYMMETRY ClientSymmetry
CHECK_DEADLOCK FALSE
