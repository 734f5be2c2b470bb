\* Two messages of two chains in one environment: batches, calls and routing.
CONSTANTS
  e1 = e1
  e2 = e2
  q1 = q1
  q2 = q2
  Chains = {q1, q2}
  Envs = {e1}
  Originals = 2
  MaxCopies = 7
  MaxReceive = 1
  StartCounts = {0}
  Shapes = {"plain", "badCount", "noArn"}
  BatchSize = 2
  MaxEntries = 2
  Limits = {1}
  Modulus = 100
  NoConfig = NoConfig
  Cold = Cold
  Unresolved = Unresolved
  MaxFaults = 1
  MaxDeploys = 0
CHECK_DEADLOCK FALSE
SPECIFICATION Spec
INVARIANTS
  IInv
  BatchAccountedFor
  ReplaysGoHome
