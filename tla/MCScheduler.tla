---------------------------- MODULE MCScheduler ----------------------------
(* Three control blocks beside the idle process; a clock of two values      *)
(* (three in the runs that find a violation), whose wrap a sleep reaches,   *)
(* and a switch every second tick.                                          *)
EXTENDS Scheduler

MCSleeps == {0, 1}
=============================================================================
