\* Two processes, two requests at a time, one key and one code, two failures.  Clock, keys
\* and codes run out, and then the system may stop, which is no deadlock.
SPECIFICATION FairSpec
CONSTANTS
  r1 = r1
  r2 = r2
  q1 = q1
  q2 = q2
  k1 = k1
  c1 = c1
  Replicas = {r1, r2}
  MaxRetries = 1
  Requests = {q1, q2}
  Keys = {k1}
  Codes = {c1}
  Lifetimes = {1}
  CodeLife = 1
  LastTime = 2
  MaxFaults = 2
INVARIANT TypeOK
INVARIANT UpIsReady
INVARIANT InUseIsStored
PROPERTY AllComeUp
PROPERTY RequestsEnd
PROPERTY LapsedShutsOut
CHECK_DEADLOCK FALSE
