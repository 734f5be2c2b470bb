\* Bodies and attributes in units in which the limits are 8 and 10 (240 KB and
\* 256 KB) and the replay count takes 1: 4 + 4 fills a chunk exactly, 1 + 4 + 4
\* is one too many, 9 is a body larger than a chunk.
CONSTANTS
  q1 = q1
  q2 = q2
  Destinations = {q1, q2}
  NoDestination = NoDestination
  BodyBytes = {1, 4, 9}
  AttributeBytes = {0, 1}
  MaxInput = 4
  MAX_ENTRIES = 3
  MAX_BODY_BYTES = 8
  PayloadLimit = 10
  CountBytes = 1
CHECK_DEADLOCK FALSE
SPECIFICATION Spec
INVARIANTS
  TypeOK
  GroupsStayWhole
  CallsWithinLimits
  NoCallToSpare
  OverLimitOnlyByAttributes
PROPERTIES
  KeepsCallContract
