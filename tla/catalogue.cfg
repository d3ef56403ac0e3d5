\* Two requests at a time over two projects, services and SBOMs.
SPECIFICATION Spec
CONSTANTS
  p1 = p1
  p2 = p2
  n1 = n1
  n2 = n2
  n3 = n3
  x1 = x1
  x2 = x2
  b1 = b1
  b2 = b2
  d1 = d1
  d2 = d2
  s1 = s1
  q1 = q1
  q2 = q2
  slug = slug
  other = other
  Projects = {p1, p2}
  Services = {x1, x2}
  Sboms = {b1, b2}
  Names = {n1, n2, n3}
  SlugOf <- SharedSlug
  ServiceNames = {s1}
  Documents = {d1}
  NoService = NoService
  Requests = {q1, q2}
CHECK_DEADLOCK FALSE
SYMMETRY Symmetry
INVARIANT TypeOK
INVARIANT Coherent
INVARIANT NoTwins
PROPERTY CountedSbomsStay
