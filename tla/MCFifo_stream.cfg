SPECIFICATION Spec
CONSTANTS
  RingBlocks = 7
  FlowLimit = 2
  BatchBlocks = 2
  CPHiWatermark = 9
  CPLoWatermark = 0
  ControlValues <- BreakpointControls
  CommandEnds = {1, 3, 4, 6, 7, 9}
  RelinkWhen = "rw_distance"
  RelaxedLoads = FALSE
  MaxBlocks = 9
INVARIANTS
  DistanceAccounts
  DistanceNeverNegative
  NeverPastBreakpoint
  OneUpdateInFlight
  VisibleDistanceCoversUnread
PROPERTIES
  ImplementsStream
