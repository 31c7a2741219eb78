SPECIFICATION FairSpec
CONSTANTS
  None = None
  c1 = c1
  c2 = c2
  r1 = r1
  p1 = p1
  p2 = p2
  u1 = u1
  u2 = u2
  j1 = j1
  j2 = j2
  q1 = q1
  q2 = q2
  q3 = q3
  Record = {c1, c2, r1, p1, p2}
  User = {u1, u2}
  Superuser = {u1, u2}
  Job = {j1, j2}
  Authors = {u2}
  Exclusive = {c1, c2, r1}
  Request = {q1, q2, q3}
  Refs <- MCRefs
  Asks <- MCAsks
INVARIANTS TypeOK LostOnlyByOverlap AnsweredIsLogged FailsOnlyOnRemoval ConflictOnlyWithRemoved
PROPERTIES BackOnlyAsCopy JobsSettle
CHECK_DEADLOCK FALSE
