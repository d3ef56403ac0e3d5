\* Violated: a rule moved to another project skips what it alerted for the old one.
SPECIFICATION EpisodeSpec
CONSTANTS
  r1 = r1
  r2 = r2
  p1 = p1
  p2 = p2
  v1 = v1
  a1 = a1
  Rules = {r1}
  Projects = {p1, p2}
  Vulns = {v1}
  ServicesOf <- NoServices
  NoService = NoService
  Checkers = {1}
  Ids = {1, 2, 3}
  MaxAttempts = 2
  MaxExposures = 3
  MaxUpdates = 2
  MaxAborts = 0
  MaxOverlaps = 0
PROPERTY SkippedWasTold
