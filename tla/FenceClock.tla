----------------------------- MODULE FenceClock -----------------------------
(***************************************************************************)
(* What the Vulkan command buffer manager promises the code that records   *)
(* commands: a clock of fence counters.  current is the counter of the     *)
(* command buffer being recorded, executed the last one the GPU finished,  *)
(* completed the last one the recording thread knows to be finished.       *)
(* Stream buffers, queries and readbacks decide from current and completed *)
(* alone whether the GPU may still use something (CommandBufferManager.h,  *)
(* GetCurrentFenceCounter and GetCompletedFenceCounter).                   *)
(***************************************************************************)
EXTENDS Naturals

CONSTANT NUM_COMMAND_BUFFERS

ASSUME BuffersAssumption == NUM_COMMAND_BUFFERS \in Nat \ {0, 1}

VARIABLES current, submitted, completed, executed

clockVars == <<current, submitted, completed, executed>>

ClockInit ==
  /\ current = 1 /\ submitted = FALSE
  /\ completed = 0 /\ executed = 0

\* The current command buffer is handed over for execution.
SubmitCommandBuffer ==
  /\ ~submitted
  /\ submitted' = TRUE
  /\ UNCHANGED <<current, completed, executed>>

\* The GPU finishes one more submitted buffer, in the order they were recorded.
GpuExecutes ==
  /\ executed < IF submitted THEN current ELSE current - 1
  /\ executed' = executed + 1
  /\ UNCHANGED <<current, submitted, completed>>

\* A wait returns: the counters up to c are known to be finished.
WaitForFenceCounter(c) ==
  /\ completed < c /\ c <= executed
  /\ completed' = c
  /\ UNCHANGED <<current, submitted, executed>>

\* The next command buffer is recorded; its slot of the ring must be free.
BeginCommandBuffer ==
  /\ submitted
  /\ current + 1 <= completed + NUM_COMMAND_BUFFERS
  /\ current' = current + 1
  /\ submitted' = FALSE
  /\ UNCHANGED <<completed, executed>>

ClockNext ==
  \/ SubmitCommandBuffer
  \/ GpuExecutes
  \/ \E c \in 1 .. current : WaitForFenceCounter(c)
  \/ BeginCommandBuffer

ClockSpec == ClockInit /\ [][ClockNext]_clockVars
=============================================================================
