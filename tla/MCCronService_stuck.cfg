CONSTANTS
    once = once
    often = often
    hourly = hourly
    Jobs = {once, often}
    JobType <- MCJobType
    Span <- MCSpan
    Ticks = {k1, k2}
    Overlap = FALSE
    Wired = TRUE
    MaxConcurrentRuns = 1
    MaxRetries = 1
    Backoff = 1
    MaxTime = 4
    MaxFailures = 0
    MaxCrashes = 1
    None = None
SPECIFICATION Spec
INVARIANT RunningIsAwaited
CHECK_DEADLOCK FALSE
