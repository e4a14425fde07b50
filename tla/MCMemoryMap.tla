---------------------------- MODULE MCMemoryMap -----------------------------
(* MemoryMap with a region of two pages, a hole and a region of one page.  *)
EXTENDS MemoryMap

TwoRegions == <<[physical |-> 0, size |-> 2], [physical |-> 3, size |-> 1]>>

\* Nothing, one page, the same page in a run of two, the other page elsewhere.
FourTables ==
  {[l \in LogicalPages |-> t[l + 1]] : t \in {<<NONE, NONE>>, <<0, NONE>>, <<0, 1>>, <<NONE, 3>>}}
=============================================================================
