--------------------------- MODULE MCFenceClients ---------------------------
(* Small instances of the fence clock's clients for TLC. *)
EXTENDS FenceClients

\* One byte, an aligned pair and most of the buffer.
StreamRequests == {<<1, 1>>, <<2, 2>>, <<4, 1>>}
=============================================================================
