------------------------------ MODULE MCTimerList ------------------------------
(* Three timers with intervals of one and two ticks. *)
EXTENDS TimerList
CONSTANTS x1, x2, x3
=============================================================================
