SPECIFICATION FairSpec
CONSTANTS
  NUM_COMMAND_BUFFERS = 3
  NUM_FRAMES_IN_FLIGHT = 3
  FrameChoices = {2, 3}
  MaxCounter = 5
  MaxDeferred = 1
CHECK_DEADLOCK FALSE
INVARIANTS
  WindowHasOneUser
  FailureSeenBeforeAcquire
PROPERTIES
  SlotReuseIsSafe
  DestroyedObjectIsIdle
  ResetPoolIsIdle
  ImplementsClock
  OperationReturns
