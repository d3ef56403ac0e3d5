\* Two requests find one login code unused.
SPECIFICATION Spec
CONSTANTS
  r1 = r1
  r2 = r2
  q1 = q1
  q2 = q2
  k1 = k1
  c1 = c1
  Replicas = {r1, r2}
  MaxRetries = 1
  Requests = {q1, q2}
  Keys = {k1}
  Codes = {c1}
  Lifetimes = {0, 1}
  CodeLife = 1
  LastTime = 2
  MaxFaults = 2
INVARIANT CodeIsSingleUse
CHECK_DEADLOCK FALSE
