-------------------------- MODULE MCCommandBuffers --------------------------
(* Small instances of the command buffer ring for TLC. *)
EXTENDS CommandBuffers
=============================================================================
