CONSTANTS
    once = once
    often = often
    hourly = hourly
    k1 = k1
    k2 = k2
    Jobs = {often, hourly}
    JobType <- MCJobType
    Span <- MCSpan
    Ticks = {k1, k2}
    Overlap = TRUE
    Wired = TRUE
    MaxConcurrentRuns = 2
    MaxRetries = 2
    Backoff = 1
    MaxTime = 4
    MaxFailures = 2
    MaxCrashes = 0
    None = None
    Intents = {"now", "mute"}
    Channels = {"web", "slack"}
    HeartbeatChannel = "heartbeat"
    ChannelOf <- MCChannelOf
    NotBefore <- MCNotBefore
    Reachable = {"web"}
    Dispatches = {k1, k2}
    Timings = {"calm", "slow", "early"}
    HourSpan = 1
    DaySpan = 2
    MaxPerHour = 1
    MaxPerDay = 1
    QuietTimes = {1}
    LastTime = 3
    LastCall = 0
    MaxLosses = 1
    Nobody = None
SPECIFICATION MCSpec
SYMMETRY Symmetry
INVARIANTS OneRunPerJob AtJobRepeats DeliveredOnce WithinBudget AcknowledgedIsKept
PROPERTY StartsSpaced
CHECK_DEADLOCK FALSE
