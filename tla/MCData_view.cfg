SPECIFICATION ReadsSpec
PROPERTY OneQueryableView
CHECK_DEADLOCK FALSE
CONSTANTS
    MaxReports = 2
    MaxTotal = 1
    MaxUptime = 1
    QueueSize = 1
    Metrics = {"cpu", "x"}
    Builtin = {"cpu"}
    PolicyTiers <- CatalogTiers
    Default = 2
    Retentions = {0, 1, 4}
    MaxTime = 3
    MaxEdits = 2
    MaxFaults = 1
