SPECIFICATION MCSpec
CHECK_DEADLOCK FALSE
CONSTANTS
    EventTasks = {1, 2}
    MaxPings = 2
    MaxConns = 1
    QueueLimit = 1
    SeenLimit = 2
    ReportTake = 1
    Uploads = {"u1", "u2"}
    BrokenUploads = {"u2"}
    UploadChunks = 1
    DataEntries = {"db", "theme"}
    MaxRestoreFaults = 2
    MaxStarts = 2
    PingTasks = {1, 2}
    TcpTasks = {1}
    Times = {100, 1500}
    Threshold = 1000
    DropLimit = 800
    Retries = 1
    QueueSize = 2
    ChunkSize = 1
    MaxResults = 2
    Month = 2
    Preserve = 1
    MaxDay = 2
    MaxMoved = 2
    MaxAgentFaults = 2
    MaxVersion = 2
INVARIANTS
    EventsRunOnce ScheduleFollows PluginsSettle ExchangesIntact FilesConfined OriginalRecoverable
    SettledInForce UpgradeKeepsData AgentCounts ResultsKept
PROPERTIES DeliveryRefined RenewedOnce
