\* s1 and s2 belong to one service, s3 to another.
SPECIFICATION Spec
CONSTANTS
  s1 = s1
  s2 = s2
  s3 = s3
  f1 = f1
  f2 = f2
  w1 = w1
  w2 = w2
  d1 = d1
  d2 = d2
  p1 = p1
  Sboms = {s1, s2, s3}
  Findings = {f1}
  Scope <- TwoScopes
  Cve <- OwnCve
  NoPurl = {}
  Workers = {w1}
  Deleters = {d1}
  Pruners = {}
  Expired = {}
  FirstFeed <- FullFeed
  MaxQueued = 1
  MaxFaults = 0
  MaxFeedChanges = 0
  NoSbom = NoSbom
PROPERTY OnlyOwnScanOrNewerCloses
PROPERTY ImplementsLedger
