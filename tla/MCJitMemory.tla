---------------------------- MODULE MCJitMemory ----------------------------
(* Instances of JitMemory for TLC: pages of two bytes, pools of three pages.*)
EXTENDS JitMemory
=============================================================================
