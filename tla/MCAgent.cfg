CONSTANTS
    None = None
    Providers <- MCProviders
    MaxEvents = 1
    Models = {"a", "b"}
    Order <- MCOrder
    Probes = {"p1", "p2", "p3"}
    Probed <- MCProbed
    FullSuite = {"p2"}
    Enabled = {"a"}
    Paid = {"b"}
    RunAgainstPaid = FALSE
    Ttl = 2
    Turns = {"t1", "t2"}
    Calls = {"c1", "c2"}
    Requests <- MCRequests
    Files = {"f", "g"}
    NoFile = None
    FirstFiles <- MCFirstFiles
    Contents <- MCContents
    AllowedBins = {"cat", "node"}
    ConcurrencyCap = 1
    MaxWrites <- MCMaxWrites
    Askers = {"edit", "fetch"}
    Tool <- MCTool
    GrantTtl = 1
    StaleAfter = 1
    GrantUses = 1
    LastTime = 2
    MaxRequests = 3
    MaxRestarts = 1
    Records = {1, 2}
    Compactable = {1}
    Window = 1
    CompactOver = 0
    LongBlocks = 1
    MaxIndexed = 1
    MaxCompactions = 2
    MaxDeaths = 1
    PromptTurns = {"t1", "t2"}
    SessionOf <- MCSessionOf
    PromptRequests <- MCPromptRequests
    PartSize <- MCPartSize
    UserSize = 5
    PerMessageMax = 8
    MaxRetained = 3
    AnyInterrupted = TRUE
    Replies <- MCReplies
    MaxAdded = 2
SPECIFICATION MCSpec
INVARIANTS
    EveryChildIsWatched OnePendingPerPlan EveryRecordIsKept
    PromptFits NothingIsDroppedInVain
    FilesAreSerial
PROPERTIES
    PassesAreCovered OnlyValidatedAreTried ChangesAreApproved
    EditsReachTheSubstrate
CHECK_DEADLOCK FALSE
