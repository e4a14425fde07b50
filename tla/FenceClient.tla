---------------------------- MODULE FenceClient -----------------------------
(***************************************************************************)
(* The recording thread as its own code sees it: command buffers are       *)
(* executed and waited for between the steps of the code that uses them.   *)
(***************************************************************************)
EXTENDS FenceClock

CONSTANT MaxCounter  \* bound: the last command buffer recorded

ASSUME MaxCounterAssumption == MaxCounter \in Nat

\* ExecuteCommandBuffer(_, wait) is one step of its caller: the buffer is submitted, the waits
\* it makes complete the counters they need, and the next buffer begins.
CompletedAfter(wait) ==
  IF wait THEN current
  ELSE IF current + 1 > completed + NUM_COMMAND_BUFFERS THEN current + 1 - NUM_COMMAND_BUFFERS
  ELSE completed

ExecuteCommandBuffer(wait) ==
  /\ IF wait THEN executed' = current
     ELSE CompletedAfter(wait) <= executed /\ executed' = executed
  /\ completed' = CompletedAfter(wait)
  /\ current' = current + 1
  /\ UNCHANGED submitted

\* Other code of the thread executes the buffer (Flush, PresentBackbuffer, WaitForGPUIdle, a
\* readback) or waits for an earlier one.
OtherExecute == current < MaxCounter /\ \E wait \in BOOLEAN : ExecuteCommandBuffer(wait)
OtherWait == \E c \in 1 .. current - 1 : WaitForFenceCounter(c)
=============================================================================
