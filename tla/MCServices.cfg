CONSTANTS
    Profiles = {p1}
    Mail = {m1, m2}
    To <- MCTo
    Settings <- MCSettings
    UserMessages = 1
    Deaths = 1
    ConfigEdits = 1
    FileEdits = 1
    Calls = {"c1", "c2", "c3"}
    Steps = 2
    NeedApproval = {2}
    MaxMishaps = 1
    MaxCrashes = 2
    MaxBreaks = 2
    MaxKills = 1
    MaxRecoveries = 2
    Changes = {"a", "b", "c", "d"}
    KindOf <- MCKindOf
    Edits = {"e"}
    Reloads = 1
    MaxConcurrentJobs = 2
    IdleAfter = 2
    MaxRuns = 2
    MaxActivity = 3
    Connections = {1, 2, 3}
    SessionOf <- MCSessionOf
    MaxConnections = 1
    Sessions = {"s", "t"}
    MaxEvents = 2
    Callers <- MCCallers
    Channels = {"slack:a", "heartbeat:main"}
    Slack = {"slack:a"}
    SlackEnabled = FALSE
    Limit <- MCLimit
    WindowMs = 1
    PaceMs = 1
    GreetMs = 1
    SuggestMs = 1
    LastTime = 4
    MaxQueue = 1
    MaxRequests = 4
    Agents = {"main", "other"}
    Turns = 2
    MaxSwitches = 1
    MaxPolls = 1
    MaxBeats = 1
    MaxSaves = 2
SPECIFICATION MCSpec
INVARIANTS
    MailIsShownOnce CutBeatIsContinued AgreesUnlessRaced AnswerOnce RateIsBounded
    StreamIsGapless RecoveryIsNotLost StepsRunOnce ScansGoOn
CHECK_DEADLOCK FALSE
