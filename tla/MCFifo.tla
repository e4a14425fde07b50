------------------------------- MODULE MCFifo -------------------------------
(***************************************************************************)
(* Guest programs for the model checker: what the guest writes to the      *)
(* control register, and where its commands end.                           *)
(***************************************************************************)
EXTENDS Fifo

Control(read, bp, bp_int, hi_int, lo_int) ==
  [GPReadEnable |-> read, BPEnable |-> bp, BPInt |-> bp_int,
   HiWatermarkInt |-> hi_int, LoWatermarkInt |-> lo_int]

(* A game that uses breakpoints: reads on or off, breakpoint with its      *)
(* interrupt or none.                                                      *)
BreakpointControls ==
  {Control(read, bp, bp, FALSE, FALSE) : read \in BOOLEAN, bp \in BOOLEAN}

(* A game that also uses the watermark interrupts, without a breakpoint.   *)
InterruptControls ==
  BreakpointControls \cup {Control(TRUE, FALSE, FALSE, hi, lo) : hi \in BOOLEAN, lo \in BOOLEAN}
=============================================================================
