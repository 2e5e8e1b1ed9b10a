SPECIFICATION ServingSpec
CONSTANTS
  Limit = 1
  Capacity = 1
  MaxRequests = 3
  MaxInFlight = 2
  MaxUpdates = 1
PROPERTIES
  RequestsFinish
  FinishedIsShown
\* Every request has been served, or the dashboard has been left.
CHECK_DEADLOCK FALSE
