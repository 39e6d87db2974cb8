------------------------------- MODULE MCTimer -------------------------------
(* Timer.tla for TLC: three handles let a tick, a delayed timer and a       *)
(* repeating one be due in the same pass of the loop, and let a delayed     *)
(* timer wait while a tick posts another tick.                              *)
EXTENDS Timer

\* AddTimer refuses a negative delay.
MCDelays == {-1, 0, 1}
==============================================================================
