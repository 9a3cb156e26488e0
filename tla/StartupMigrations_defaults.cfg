CONSTANTS
    Clients = {c1, c2}
    Tasks = {t1}
    Zones = {0, 8}
    LegacyZone = 8
    MaxFaults = 2
    MaxStarts = 3
SPECIFICATION Spec
INVARIANT DefaultOnSparesExisting
CHECK_DEADLOCK FALSE
