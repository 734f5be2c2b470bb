\* maxReceiveCount: 3, else the defaults in ticks of 6 s: ttl 60 s, timeout 10 s
\* (rounded up), visibility timeout 18 s.
CONSTANTS
  e1 = e1
  e2 = e2
  q1 = q1
  q2 = q2
  v1 = v1
  Envs = {e1}
  Arns = {q1, q2}
  Versions = {v1}
  NumNames = 1
  PageSize = 1
  TTL = 10
  MaxRefresh = 2
  NoConfig = NoConfig
  Absent = Absent
  Malformed = Malformed
  Cold = Cold
  Failed = Failed
  NewArn = q1
  VisibilityTimeout = 3
  MaxReceive = 3
  NoOne = NoOne
  MaxNow = 16
  MaxWrites = 1
  MaxFaults = 0
SPECIFICATION NewQueueSpec
CHECK_DEADLOCK FALSE
INVARIANTS
  NewQueuePickedUp
