---------------------------- MODULE ClockSession ----------------------------
(***************************************************************************)
(* PhocoenaClock::Session and its backends: the CPU and GPU clocks are     *)
(* raised for one game and handed back afterwards.  The clock service is   *)
(* external: a call may fail, a failed write may still have been applied,  *)
(* and another clock manager may change an override at any time.           *)
(***************************************************************************)
EXTENDS Naturals, FiniteSets

CONSTANTS
  Rates,   \* override values, 0 is none
  Target   \* the rate the session asks for

ASSUME RatesAssumption == 0 \in Rates /\ Target \in Rates

Domains == {"CPU", "GPU"}

VARIABLES
  override,  \* the service's override of each domain
  clk,       \* the session: phase, backend, m_attempted, m_previous and what Release read
  ours,      \* the domains whose override was last written by the session's request
  stuck      \* the domains whose restore call failed

clockVars == <<override, clk, ours, stuck>>

Off == [phase |-> "off", backend |-> "none", attempted |-> {},
        previous |-> [d \in Domains |-> 0], read |-> [d \in Domains |-> {}]]

ClockInit ==
  /\ override \in [Domains -> {0}]
  /\ clk = Off
  /\ ours = {} /\ stuck = {}

\* Start: no compatible backend, or its Initialize fails: nothing was attempted.
StartFails ==
  /\ clk.phase = "off"
  /\ UNCHANGED clockVars

\* Start: Initialize remembers the overrides; then the supported rates are read, or that fails
\* and FailAndRelease follows.
StartSucceeds ==
  /\ clk.phase = "off"
  /\ \E backend \in {"sysclk", "direct"}, phase \in {"request", "release"} :
       clk' = [Off EXCEPT !.phase = phase, !.backend = backend, !.previous = override]
  /\ UNCHANGED <<override, ours, stuck>>

\* The domains are handled in this order.
NextOf(domains) == IF "CPU" \in domains THEN "CPU" ELSE "GPU"

\* Mutant: a request counts as attempted only when it was accepted.
RequestRateAccepted ==
  LET d == NextOf(Domains \ clk.attempted)
  IN  /\ clk.phase = "request"
      /\ \E applied \in BOOLEAN, accepted \in BOOLEAN :
           /\ accepted => applied
           /\ override' = IF applied THEN [override EXCEPT ![d] = Target] ELSE override
           /\ ours' = IF applied THEN ours \union {d} ELSE ours
           /\ clk' = [clk EXCEPT !.attempted = IF accepted THEN @ \union {d} ELSE @,
                                 !.phase = IF ~accepted THEN "release"
                                           ELSE IF d = "GPU" THEN "active" ELSE @]
      /\ UNCHANGED stuck

\* RequestRate(CPU), then RequestRate(GPU); a refused one leads to FailAndRelease.
RequestRate ==
  LET d == NextOf(Domains \ clk.attempted)
  IN  /\ clk.phase = "request"
      /\ \E applied \in BOOLEAN, accepted \in BOOLEAN :
           /\ accepted => applied
           /\ override' = IF applied THEN [override EXCEPT ![d] = Target] ELSE override
           /\ ours' = IF applied THEN ours \union {d} ELSE ours
           /\ clk' = [clk EXCEPT !.attempted = @ \union {d},
                                 !.phase = IF ~accepted THEN "release"
                                           ELSE IF d = "GPU" THEN "active" ELSE @]
      /\ UNCHANGED stuck

\* Stop, and the destructor: without a backend there is nothing to release.
StopClocks ==
  /\ clk.phase \in {"off", "active"}
  /\ clk' = IF clk.phase = "off" THEN clk ELSE [clk EXCEPT !.phase = "release"]
  /\ UNCHANGED <<override, ours, stuck>>

\* Release reads who owns the overrides: sys-clk both at once, the direct backend one by one.
\* An empty set stands for an override not read, Rates for a read that failed.
Unread(d) == clk.read[d] = {}

ReadOwnership ==
  LET d == NextOf(clk.attempted)
      domains == IF clk.backend = "sysclk" THEN Domains ELSE {d}
  IN  /\ clk.phase = "release" /\ clk.attempted # {} /\ Unread(d)
      /\ \E valid \in BOOLEAN :
           clk' = [clk EXCEPT !.read = [e \in Domains |->
                     IF e \notin domains THEN clk.read[e]
                     ELSE IF valid THEN {override[e]} ELSE Rates]]
      /\ UNCHANGED <<override, ours, stuck>>

\* An override that was changed by somebody else is kept, the session's own one is replaced by
\* what was there before.  A call that fails leaves it as it was or not.
Restore ==
  LET d == NextOf(clk.attempted)
  IN  /\ clk.phase = "release" /\ clk.attempted # {} /\ ~Unread(d)
      /\ \E replaced \in BOOLEAN, failed \in BOOLEAN :
           /\ IF Target \in clk.read[d] THEN replaced \/ failed ELSE ~replaced /\ ~failed
           /\ override' = IF replaced THEN [override EXCEPT ![d] = clk.previous[d]] ELSE override
           /\ ours' = IF replaced THEN ours \ {d} ELSE ours
           /\ stuck' = IF failed THEN stuck \union {d} ELSE stuck
      /\ clk' = [clk EXCEPT !.attempted = @ \ {d}, !.previous[d] = 0, !.read[d] = {}]

\* The backend is destroyed; an override whose restore failed is given up.
Released ==
  /\ clk.phase = "release" /\ clk.attempted = {}
  /\ clk' = Off
  /\ ours' = ours \ stuck /\ stuck' = {}
  /\ UNCHANGED override

ClockStep == RequestRate \/ ReadOwnership \/ Restore \/ Released

\* The other clock manager.
ManagerWrites ==
  /\ \E d \in Domains, rate \in Rates :
       /\ override' = [override EXCEPT ![d] = rate]
       /\ ours' = ours \ {d}
  /\ UNCHANGED <<clk, stuck>>

\* The process ends: the overrides stay, and nobody remembers whose they are.
ClockEnds ==
  /\ clk' = Off /\ ours' = {} /\ stuck' = {}
  /\ UNCHANGED override

-----------------------------------------------------------------------------
\* A session that is over has left no override of its own in place, unless the call that should
\* have restored it failed: this covers requests that were refused, the roll back of a request
\* before it (ClockPolicy.cpp:103) and the destructor during an exception.
ClocksHandedBack == clk.phase = "off" => ours = {}
=============================================================================
