SPECIFICATION Spec
CONSTANTS
  NUM_COMMAND_BUFFERS = 3
  MaxCounter = 5
  Size = 6
  Requests <- StreamRequests
  Callers = {"retry"}
  PERF_QUERY_BUFFER_SIZE = 4
CHECK_DEADLOCK FALSE
INVARIANTS
  WrittenMemoryIsIdle
  SecondAttemptSucceeds
  QueriesAreExact
PROPERTIES
  FlushIsComplete
