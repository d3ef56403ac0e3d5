\* A rule of one project under overlapping and crashing runs.
SPECIFICATION FairSpec
CONSTANTS
  r1 = r1
  r2 = r2
  p1 = p1
  p2 = p2
  v1 = v1
  a1 = a1
  Rules = {r1}
  Projects = {p1}
  Vulns = {v1}
  ServicesOf <- OneService
  NoService = NoService
  Checkers = {1, 2}
  Ids = {1, 2, 3}
  MaxAttempts = 2
  MaxExposures = 2
  MaxUpdates = 1
  MaxAborts = 1
  MaxOverlaps = 1
INVARIANT TypeOK
INVARIANT OneActive
INVARIANT RetriesBounded
INVARIANT NotRepeated
INVARIANT SentWasDelivered
PROPERTY AlertsSettle
