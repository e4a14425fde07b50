---------------------------- MODULE CommandStream ----------------------------
(***************************************************************************)
(* What the dual-core FIFO promises the guest, whatever the interleaving   *)
(* of the CPU and the GPU thread: a stream of gather blocks, numbered in   *)
(* the order in which the guest wrote them, that the GPU decodes in that   *)
(* order, each block exactly once, never before the guest published it     *)
(* and never past the point where the guest put a breakpoint.              *)
(***************************************************************************)
EXTENDS Integers, Sequences

CONSTANT NoLimit              \* the value of limit while no breakpoint is enabled

VARIABLES sent,               \* how many blocks the guest has published
          decoded,            \* the blocks the GPU has decoded, in order
          limit               \* how many blocks the breakpoint lets through

vars == <<sent, decoded, limit>>

Init == sent = 0 /\ decoded = <<>> /\ limit = NoLimit

Send == sent' = sent + 1 /\ UNCHANGED <<decoded, limit>>

(* The GPU decodes the next few blocks.                                    *)
Decode ==
  /\ \E n \in Len(decoded) + 1 .. sent :
       /\ limit = NoLimit \/ n <= limit
       /\ decoded' = [i \in 1 .. n |-> IF i <= Len(decoded) THEN decoded[i] ELSE i]
  /\ UNCHANGED <<sent, limit>>

(* The guest puts the breakpoint between blocks it has published and the   *)
(* GPU has not decoded, or takes it away.                                  *)
Limit ==
  /\ limit' \in (Len(decoded) .. sent) \cup {NoLimit}
  /\ UNCHANGED <<sent, decoded>>

Next == Send \/ Decode \/ Limit

Spec == Init /\ [][Next]_vars
=============================================================================
