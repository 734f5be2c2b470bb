\* Two queues with two versions, two pages of one parameter, time to live 2, refreshes of at most 2.
CONSTANTS
  e1 = e1
  q1 = q1
  q2 = q2
  v1 = v1
  v2 = v2
  v2 = v2
  Envs = {e1}
  Arns = {q1, q2}
  Versions = {v1, v2}
  NumNames = 2
  PageSize = 1
  TTL = 2
  MaxRefresh = 2
  NoConfig = NoConfig
  Absent = Absent
  Malformed = Malformed
  Cold = Cold
  Failed = Failed
  MaxNow = 4
  MaxWrites = 2
  MaxFaults = 1
SPECIFICATION Spec
SYMMETRY VersionSymmetry
CHECK_DEADLOCK FALSE
INVARIANTS
  TypeOK
  CacheTracksChanges
PROPERTIES
  StaleOnlyAfterChange
