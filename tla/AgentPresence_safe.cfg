SPECIFICATION Spec
CONSTANTS
  Conns = {c1, c2}
  V2Conns = {c2}
  Sessions = {p1, p2}
  TTL = 1
  Grace = 1
  MaxReports = 3
INVARIANT RegistryTracksHandlers
INVARIANT RecentReportIsOnline
INVARIANT OneNoticePerOutage
PROPERTY GraceIsKept
