------------------------------ MODULE MCSched ------------------------------
(* Instances of Sched for TLC: calls of proc_sleep for less than a tick,   *)
(* for exactly one and for more than one.                                  *)
EXTENDS Sched

AnySleep == {5, 10, 25}
ShortSleep == {5, 19}
=============================================================================
