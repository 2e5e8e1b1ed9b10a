SPECIFICATION FairSpec
CONSTANTS
  r1 = r1
  r2 = r2
  Requests = {r1, r2}
  NoRequest = NoRequest
  MaxStarts = 4
  MaxCrashes = 3
INVARIANTS
  TypeOK
  SentAtMostOnce
  OneOwnedSidecar
  EndpointsHaveListened
PROPERTIES DeliverySpec NoRequestStuck
\* Every request has been answered and nothing is left to do.
CHECK_DEADLOCK FALSE
