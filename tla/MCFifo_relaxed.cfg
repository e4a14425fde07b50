SPECIFICATION Spec
CONSTANTS
  RingBlocks = 4
  FlowLimit = 3
  BatchBlocks = 4
  CPHiWatermark = 9
  CPLoWatermark = 0
  ControlValues <- BreakpointControls
  CommandEnds = {1, 3, 4, 6}
  RelinkWhen = "never"
  RelaxedLoads = TRUE
  MaxBlocks = 6
INVARIANTS
  NeverPastBreakpoint
