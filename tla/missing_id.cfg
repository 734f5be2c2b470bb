\* A record without a message id.
CONSTANTS
  e1 = e1
  e2 = e2
  q1 = q1
  q2 = q2
  Chains = {q1}
  Envs = {e1}
  Originals = 1
  MaxCopies = 4
  MaxReceive = 2
  StartCounts = {0}
  Shapes = {"noId"}
  BatchSize = 2
  MaxEntries = 2
  Limits = {1}
  Modulus = 100
  NoConfig = NoConfig
  Cold = Cold
  Unresolved = Unresolved
  MaxFaults = 0
  MaxDeploys = 0
CHECK_DEADLOCK FALSE
SPECIFICATION Spec
INVARIANTS
  BatchAccountedFor
