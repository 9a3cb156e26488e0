CONSTANTS
  Targets = {1, 2}
  MaxSamples = 1
  MaxOpens = 2
  MaxReloads = 1
  MaxMigrations = 2
  MaxFaults = 1
  MaxTimeouts = 1
SPECIFICATION Spec
CHECK_DEADLOCK FALSE
INVARIANTS GateKeepsStore ShutdownInOrder NoDuplicates
PROPERTIES ReloadServed ShutdownEnds
