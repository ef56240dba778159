--------------------------- MODULE MCScopeWorker ---------------------------
(***************************************************************************)
(* ScopeWorker for TLC: one setting of each kind that the worker treats in *)
(* a way of its own, and a client that presses one button at a time.       *)
(***************************************************************************)
EXTENDS ScopeWorker

Free == [mode |-> "auto", long |-> FALSE]
Normal == [mode |-> "normal", long |-> FALSE]
Slow == [mode |-> "normal", long |-> TRUE]
Stop == [mode |-> "idle", long |-> FALSE]

MC_Settings == {Free, Normal, Slow, Stop}
MC_Found == {Normal, Slow}
MC_Posted(p) == ~(p.auto /\ p.single)
============================================================================
