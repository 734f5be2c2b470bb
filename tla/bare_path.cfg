\* Replayers that are given nothing, or a configPath with or without a trailing slash.
CONSTANTS
  r1 = r1
  r2 = r2
  s1 = s1
  s2 = s2
  q1 = q1
  q2 = q2
  U32_MAX = 31
  MAXIMUM_DELAY_LIMIT_SECONDS = 9
  BATCH_SIZE_LIMIT = 20
  DefaultAttempts = 3
  DefaultBackoffRate = 2
  Words <- MCWords
  Chains = {q1, q2}
  Replayers = {r1, r2}
  NodePath <- MCNodePath
  Stages = {s1, s2}
  Props <- PathProps
  NotBuilt = NotBuilt
  NoSingleton = NoSingleton
  NoParameter = NoParameter
  Originals <- MCOriginals
  Edits <- MCEdits
  MaxEdits = 0
  MaxCount = 6
  NoTrip = NoTrip
CHECK_DEADLOCK FALSE
SPECIFICATION Spec
INVARIANTS
  EveryReplayerServed
