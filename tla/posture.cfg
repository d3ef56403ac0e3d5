\* Three days, two SBOMs in three scopes of two projects, one vulnerability; six scans, deletes and decisions.
\* Without snapshot tasks the system may stop, which is no deadlock.
SPECIFICATION Spec
CONSTANTS
  p1 = p1
  p2 = p2
  s1 = s1
  v1 = v1
  v2 = v2
  w1 = w1
  w2 = w2
  NoService = NoService
  MaxUploads = 2
  Vulns = {v1}
  Projects = {p1, p2}
  Scopes <- ThreeScopes
  Severities = {"HIGH", "UNKNOWN"}
  Shown = {"HIGH"}
  LastDay = 3
  Retention = 2
  Workers = {}
  MaxChanges = 6
INVARIANT TypeOK
INVARIANT CountedIsShown
PROPERTY RebuiltMissesNothing
CHECK_DEADLOCK FALSE
