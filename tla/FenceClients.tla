---------------------------- MODULE FenceClients ----------------------------
(* The clients of the fence clock: one client at a time on one clock.  What the other one does *)
(* to the clock is among the steps a client's own module allows for the rest of the thread.   *)
EXTENDS StreamBuffer, PerfQuery

VARIABLE client

vars == <<clockVars, streamVars, queryVars, client>>

Init ==
  /\ ClockInit /\ StreamInit /\ QueryInit
  /\ client \in {"stream", "query"}

Next ==
  \/ client = "stream" /\ StreamNext /\ UNCHANGED <<queryVars, client>>
  \/ client = "query" /\ QueryNext /\ UNCHANGED <<streamVars, client>>

Spec == Init /\ [][Next]_vars
=============================================================================
