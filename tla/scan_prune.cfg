\* Uploads, two scans and the retention job, with one fault.
SPECIFICATION Spec
CONSTANTS
  s1 = s1
  s2 = s2
  s3 = s3
  f1 = f1
  f2 = f2
  w1 = w1
  w2 = w2
  d1 = d1
  d2 = d2
  p1 = p1
  Sboms = {s1, s2}
  Findings = {f1}
  Scope <- OneScope
  Cve <- OwnCve
  NoPurl = {}
  Workers = {w1, w2}
  Deleters = {}
  Pruners = {p1}
  Expired = {s1, s2}
  FirstFeed <- FullFeed
  MaxQueued = 1
  MaxFaults = 1
  MaxFeedChanges = 1
  NoSbom = NoSbom
PROPERTY LatestClosedOnlyByOwnScan
PROPERTY PruneKeepsLatest
PROPERTY LinksVanishWithSbom
SYMMETRY SbomSymmetry
