\* A scan and two deletes of one SBOM race and wait for each other's locks.
SPECIFICATION FairSpec
CONSTANTS
  s1 = s1
  s2 = s2
  s3 = s3
  f1 = f1
  f2 = f2
  w1 = w1
  w2 = w2
  d1 = d1
  d2 = d2
  p1 = p1
  Sboms = {s1}
  Findings = {f1, f2}
  Scope <- OneScope
  Cve <- OwnCve
  NoPurl = {}
  Workers = {w1}
  Deleters = {d1, d2}
  Pruners = {}
  Expired = {}
  FirstFeed <- F1Feed
  MaxQueued = 1
  MaxFaults = 0
  MaxFeedChanges = 1
  NoSbom = NoSbom
INVARIANT TypeOK
INVARIANT LinkIntegrity
INVARIANT LinkInv
PROPERTY TransactionsEnd
