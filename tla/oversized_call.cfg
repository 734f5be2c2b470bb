\* Messages of 1 + 4 with a replay count of 1: each is far from the limit of 10.
CONSTANTS
  q1 = q1
  q2 = q2
  Destinations = {q1}
  NoDestination = NoDestination
  BodyBytes = {1}
  AttributeBytes = {0, 4}
  MaxInput = 3
  MAX_ENTRIES = 3
  MAX_BODY_BYTES = 8
  PayloadLimit = 10
  CountBytes = 1
CHECK_DEADLOCK FALSE
SPECIFICATION Spec
INVARIANTS
  PayloadWithinLimit
