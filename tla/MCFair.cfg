CONSTANTS
    now = now
    later = later
    web = web
    Intents = {now, later}
    Channels = {web}
    HeartbeatChannel = heartbeat
    ChannelOf <- MCChannelOf
    NotBefore <- MCNotBefore
    Reachable = {web}
    Ticks = {k}
    Timings = {"calm"}
    HourSpan = 1
    DaySpan = 2
    MaxPerHour = 1
    MaxPerDay = 1
    QuietTimes = {1}
    MaxTime = 3
    LastCall = 1
    MaxCrashes = 1
    None = None
SPECIFICATION MCSpec
PROPERTIES EventuallyDelivered JobEventuallyRuns ServerComesBack
CHECK_DEADLOCK FALSE
