SPECIFICATION Spec
CONSTANTS
  Limit = 3
  Capacity = 2
  MaxRequests = 4
  MaxInFlight = 3
  MaxUpdates = 0
INVARIANTS
  TypeOK
  HistoryIsLatest
  QuietDashboardShowsHistory
  StaleRowsCatchUp
PROPERTY
  CursorStaysOnTrace
\* Every request has been served, or the dashboard has been left.
CHECK_DEADLOCK FALSE
