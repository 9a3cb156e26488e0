SPECIFICATION Spec
CONSTANTS
  Conns = {c1, c2}
  V2Conns = {}
  Sessions = {}
  TTL = 1
  Grace = 1
  MaxReports = 0
PROPERTY OfflineOnlyWhenGone
