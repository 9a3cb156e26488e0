SPECIFICATION ResultsSpec
CONSTANTS
  PingTasks = {1, 2}
  TcpTasks = {1}
  Times = {100, 1500}
  Threshold = 1000
  DropLimit = 800
  Retries = 1
  QueueSize = 2
  ChunkSize = 1
  MaxResults = 2
INVARIANT HistoryGoesWithTask
CHECK_DEADLOCK FALSE
