SPECIFICATION FairSpec
CONSTANTS
  RingBlocks = 3
  FlowLimit = 2
  BatchBlocks = 2
  CPHiWatermark = 1
  CPLoWatermark = 1
  ControlValues <- InterruptControls
  CommandEnds = {1, 3}
  RelinkWhen = "never"
  RelaxedLoads = FALSE
  MaxBlocks = 3
PROPERTIES
  QuietGuestIsDrained
  InterruptSettles
