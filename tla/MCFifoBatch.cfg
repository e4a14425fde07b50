SPECIFICATION Spec
CONSTANTS
  GatherSizes = {1, 4}
  RingBlocks = {2, 5, 11}
  Requests = {1, 5, 9}
INVARIANTS
  BatchIsRunOfSingleBlocks
  BatchIsMaximal
CHECK_DEADLOCK FALSE
