----------------------------- MODULE MCFifoBatch -----------------------------
(***************************************************************************)
(* The planner of FifoBatch against the loop it replaces.                  *)
(*                                                                         *)
(* Before batching, RunGpuLoop consumed one gather block per iteration     *)
(* while the distance was non-zero and the read pointer was not at an      *)
(* enabled breakpoint, and it stays that loop when the batch size is one   *)
(* (Fifo.cpp 336-337).  This module drains a ring that nobody refills,     *)
(* batch by batch, from every start a bounded ring allows, and asks of     *)
(* each plan that it is exactly a run of iterations of the one-block loop. *)
(***************************************************************************)
EXTENDS FifoBatch

CONSTANTS GatherSizes,  \* sizes of a gather block, in bytes
          RingBlocks,   \* sizes of the ring, in gather blocks
          Requests      \* configured batch sizes

ASSUME MCFifoBatchAssumption ==
  /\ GatherSizes \subseteq Nat \ {0}
  /\ RingBlocks  \subseteq Nat \ {0}
  /\ Requests    \subseteq Nat

VARIABLES gather, base, end,      \* the ring: blocks at base, base + gather, ..., end
          max_blocks,             \* what EffectiveFifoBatchBlocks selected
          bp_enabled, breakpoint, \* the breakpoint registers
          read_ptr, distance      \* what the loop advances

vars == <<gather, base, end, max_blocks, bp_enabled, breakpoint, read_ptr, distance>>

Ring == {base + i * gather : i \in 0 .. (end - base) \div gather}

(* Every ring, at address zero or one block above it; a breakpoint         *)
(* register left on the ring, below it or behind it; and at most as much   *)
(* data as the ring holds without becoming full.                           *)
Init ==
  /\ gather \in GatherSizes
  /\ base \in {0, gather}
  /\ \E n \in RingBlocks : end = base + (n - 1) * gather
  /\ \E request \in Requests, sync \in BOOLEAN :
       max_blocks = EffectiveFifoBatchBlocks(request, sync)
  /\ bp_enabled \in BOOLEAN
  /\ breakpoint \in Ring \cup {0, end + gather}
  /\ read_ptr \in Ring
  /\ \E blocks \in 0 .. (end - base) \div gather : distance = blocks * gather

(* The loop condition of RunGpuLoop that PlanFifoBatch may rely on.        *)
Readable(ptr, dist) == dist > 0 /\ ~(bp_enabled /\ ptr = breakpoint)

Plan == PlanFifoBatch(read_ptr, base, end, distance, bp_enabled, breakpoint,
                      gather, max_blocks)

(* One iteration of the batched loop: its read pointer and distance.       *)
Batch ==
  /\ Readable(read_ptr, distance)
  /\ read_ptr' = Plan.next_read_ptr
  /\ distance' = distance - Plan.bytes
  /\ UNCHANGED <<gather, base, end, max_blocks, bp_enabled, breakpoint>>

Next == Batch

Spec == Init /\ [][Next]_vars

-----------------------------------------------------------------------------
(* The read pointer after i iterations of the one-block loop.              *)
OneBlockLoop(blocks) ==
  LET walk[i \in 0 .. blocks] ==
        IF i = 0 THEN read_ptr ELSE Advance(walk[i - 1], base, end, gather)
  IN  walk

(* Every batch is a run of iterations the one-block loop would have made:  *)
(* each of its blocks is readable when its turn comes (so the batch takes  *)
(* no unpublished block and passes no enabled breakpoint), it ends where   *)
(* that many single steps end, and the bytes it copies in one piece are    *)
(* contiguous in memory: only its last step may wrap to the base.          *)
BatchIsRunOfSingleBlocks ==
  Readable(read_ptr, distance) =>
    LET walk == OneBlockLoop(Plan.blocks)
    IN  /\ Plan.blocks >= 1
        /\ \A i \in 0 .. Plan.blocks - 1 :
             /\ Readable(walk[i], distance - i * gather)
             /\ walk[i] = read_ptr + i * gather
        /\ walk[Plan.blocks] = Plan.next_read_ptr
        /\ Plan.bytes = Plan.blocks * gather

(* No batch is cut short: it has the configured number of blocks, or the   *)
(* one-block loop would stop right after it, or it ends at the ring's end. *)
BatchIsMaximal ==
  Readable(read_ptr, distance) =>
    \/ Plan.blocks = max_blocks
    \/ ~Readable(Plan.next_read_ptr, distance - Plan.bytes)
    \/ Plan.next_read_ptr = base
=============================================================================
