CONSTANTS
    r1 = r1
    r2 = r2
    r3 = r3
    r4 = r4
    chat = chat
    beat = beat
    mine = mine
    other = other
    Runs = {r1, r2, r3, r4}
    Sessions = {chat, beat}
    SessionOf <- Home
    Profiles = {mine, other}
    ProfileOf <- Agent
    Heartbeat = beat
    Operator = operator
    Errors = {e1, e2}
    EscalationThreshold = 2
    ResetIterations = 2
    LowConfidence = 60
    TestSignals = {TRUE, FALSE}
    MaxFaults = 2
    None = None
SPECIFICATION MCSpec
SYMMETRY Symmetry
INVARIANTS EventsTellTheOutcome CheckpointsReleased
PROPERTY ForcedExactlyAfterRepeats
CHECK_DEADLOCK FALSE
