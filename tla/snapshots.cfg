\* Two overlapping snapshot tasks over three days, one SBOM, two changes of its finding.
SPECIFICATION FairSpec
CONSTANTS
  p1 = p1
  p2 = p2
  s1 = s1
  v1 = v1
  v2 = v2
  w1 = w1
  w2 = w2
  NoService = NoService
  MaxUploads = 1
  Vulns = {v1}
  Projects = {p1, p2}
  Scopes <- TwoProjects
  Severities = {"HIGH", "UNKNOWN"}
  Shown = {"HIGH"}
  LastDay = 3
  Retention = 2
  Workers = {w1, w2}
  MaxChanges = 2
PROPERTY SnapshotSettles
PROPERTY ChartSettles
