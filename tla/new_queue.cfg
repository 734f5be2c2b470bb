\* Two environments, one failure; the receives span exactly ttl + timeout: (3 - 1) * 2 = 3 + 1.
CONSTANTS
  e1 = e1
  e2 = e2
  q1 = q1
  q2 = q2
  v1 = v1
  Envs = {e1, e2}
  Arns = {q1, q2}
  Versions = {v1}
  NumNames = 1
  PageSize = 1
  TTL = 3
  MaxRefresh = 1
  NoConfig = NoConfig
  Absent = Absent
  Malformed = Malformed
  Cold = Cold
  Failed = Failed
  NewArn = q1
  VisibilityTimeout = 2
  MaxReceive = 3
  NoOne = NoOne
  MaxNow = 6
  MaxWrites = 1
  MaxFaults = 1
SPECIFICATION NewQueueSpec
SYMMETRY EnvSymmetry
CHECK_DEADLOCK FALSE
INVARIANTS
  NewQueueTypeOK
  NewQueuePickedUp
