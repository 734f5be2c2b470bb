\* One message, two concurrent environments, two faults and a deployment; up to 4
\* copies are made.
CONSTANTS
  e1 = e1
  e2 = e2
  q1 = q1
  q2 = q2
  Chains = {q1}
  Envs = {e1, e2}
  Originals = 1
  MaxCopies = 5
  MaxReceive = 2
  StartCounts = {0}
  Shapes = {"plain"}
  BatchSize = 2
  MaxEntries = 2
  Limits = {1}
  Modulus = 100
  NoConfig = NoConfig
  Cold = Cold
  Unresolved = Unresolved
  MaxFaults = 2
  MaxDeploys = 1
CHECK_DEADLOCK FALSE
SPECIFICATION FairSpec
INVARIANTS
  TypeOK
  NothingLost
  AttemptsBounded
  ReplayedTwiceNeedsFaults
  EarlyDeadLetterNeedsFaults
PROPERTIES
  KeepsContract
  EveryMessageSettles
