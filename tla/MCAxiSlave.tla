----------------------------- MODULE MCAxiSlave -----------------------------
(***************************************************************************)
(* AxiSlave for TLC.  The time-out is 8 clocks instead of 32; the late     *)
(* data comes 4 clocks before it, the last moment at which the bridge      *)
(* still answers in time.                                                  *)
(***************************************************************************)
EXTENDS AxiSlave

MC_Ports == {"regs", "unused", "mute"}
MC_Lags == [p \in MC_Ports |-> IF p = "regs" THEN {0, 1, 4} ELSE {0}]
============================================================================
