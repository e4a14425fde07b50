------------------------------ MODULE FifoBatch ------------------------------
(***************************************************************************)
(* The batch planner of the Switch port's dual-core FIFO loop              *)
(* (VideoCommon/FifoBatch.h).  It is a pure function of the values the GPU *)
(* thread has just loaded from the command processor's registers, so it is *)
(* modelled by operators; Fifo.tla calls them at the place RunGpuLoop does *)
(* and MCFifoBatch.tla compares them with the one-block loop they replace. *)
(*                                                                         *)
(* Addresses and distances are naturals.  No u32 wrap-around is modelled:  *)
(* the registers are masked to physical addresses (CommandProcessor.cpp    *)
(* 130-157), far below 2^32.                                               *)
(***************************************************************************)
EXTENDS Integers, FiniteSetsExt

HORIZON_FIFO_LEGACY_BATCH_BLOCKS == 8
HORIZON_FIFO_MAX_BATCH_BLOCKS    == 8

(* The batch sizes a configuration may select: the nearest supported value *)
(* at or below the request, and never less than one block.                 *)
NormalizeFifoBatchBlocks(blocks) ==
  IF blocks >= HORIZON_FIFO_MAX_BATCH_BLOCKS THEN HORIZON_FIFO_MAX_BATCH_BLOCKS
  ELSE IF blocks >= HORIZON_FIFO_LEGACY_BATCH_BLOCKS THEN HORIZON_FIFO_LEGACY_BATCH_BLOCKS
  ELSE IF blocks >= 4 THEN 4 ELSE 1

EffectiveFifoBatchBlocks(configured_blocks, sync_gpu) ==
  IF sync_gpu THEN 1 ELSE NormalizeFifoBatchBlocks(configured_blocks)

(* The read pointer one gather block further round the ring.               *)
Advance(ptr, base, end, gather_size) ==
  IF ptr = end THEN base ELSE ptr + gather_size

(* Inputs for which the planner gives up and plans a single block.         *)
Unplannable(read_ptr, base, end, distance, gather_size, max_blocks) ==
  \/ gather_size = 0
  \/ max_blocks = 0
  \/ distance < gather_size
  \/ read_ptr < base
  \/ read_ptr > end
  \/ (end - read_ptr) % gather_size # 0

(* Mutants: a breakpoint on the last block of the ring is overlooked; a    *)
(* breakpoint that is not enabled is obeyed.                               *)
BreakpointAheadExclusive(read_ptr, end, breakpoint_enabled, breakpoint, gather_size) ==
  /\ breakpoint_enabled
  /\ breakpoint > read_ptr
  /\ breakpoint < end
  /\ (breakpoint - read_ptr) % gather_size = 0

BreakpointAheadDisabled(read_ptr, end, breakpoint_enabled, breakpoint, gather_size) ==
  /\ breakpoint > read_ptr
  /\ breakpoint <= end
  /\ (breakpoint - read_ptr) % gather_size = 0

(* The clamp at a breakpoint that lies ahead of the read pointer.          *)
BreakpointAhead(read_ptr, end, breakpoint_enabled, breakpoint, gather_size) ==
  /\ breakpoint_enabled
  /\ breakpoint > read_ptr
  /\ breakpoint <= end
  /\ (breakpoint - read_ptr) % gather_size = 0

PlannedBlocks(read_ptr, end, distance, breakpoint_enabled, breakpoint, gather_size, max_blocks) ==
  LET available_blocks   == distance \div gather_size
      blocks_before_wrap == (end - read_ptr) \div gather_size + 1
      readable == Max({1, Min({max_blocks, available_blocks, blocks_before_wrap})})
  IN  IF BreakpointAhead(read_ptr, end, breakpoint_enabled, breakpoint, gather_size)
      THEN Max({1, Min({readable, (breakpoint - read_ptr) \div gather_size})})
      ELSE readable

PlanFifoBatch(read_ptr, base, end, distance, breakpoint_enabled, breakpoint, gather_size, max_blocks) ==
  IF Unplannable(read_ptr, base, end, distance, gather_size, max_blocks)
  THEN [blocks |-> 1, bytes |-> gather_size,
        next_read_ptr |-> Advance(read_ptr, base, end, gather_size)]
  ELSE LET blocks == PlannedBlocks(read_ptr, end, distance, breakpoint_enabled,
                                   breakpoint, gather_size, max_blocks)
       IN  [blocks |-> blocks, bytes |-> blocks * gather_size,
            next_read_ptr |-> Advance(read_ptr + (blocks - 1) * gather_size,
                                      base, end, gather_size)]
=============================================================================
