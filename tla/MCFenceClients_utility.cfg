SPECIFICATION Spec
CONSTANTS
  NUM_COMMAND_BUFFERS = 3
  MaxCounter = 6
  Size = 6
  Requests <- StreamRequests
  Callers = {"retry", "utility"}
  PERF_QUERY_BUFFER_SIZE = 4
CHECK_DEADLOCK FALSE
INVARIANT CommitFits
