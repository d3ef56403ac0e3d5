\* Liveness of rescans with a fault; two findings of one CVE, one of them without a purl.
SPECIFICATION FairSpec
CONSTANTS
  s1 = s1
  s2 = s2
  s3 = s3
  f1 = f1
  f2 = f2
  w1 = w1
  w2 = w2
  d1 = d1
  d2 = d2
  p1 = p1
  Sboms = {s1, s2}
  Findings = {f1, f2}
  Scope <- OneScope
  Cve <- SharedCve
  NoPurl = {f2}
  Workers = {w1}
  Deleters = {}
  Pruners = {}
  Expired = {}
  FirstFeed <- FullFeed
  MaxQueued = 1
  MaxFaults = 1
  MaxFeedChanges = 1
  NoSbom = NoSbom
PROPERTY LatestClosedOnlyByOwnScan
PROPERTY OpenConverges
PROPERTY LatestIsScanned
