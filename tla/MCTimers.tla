------------------------------- MODULE MCTimers -------------------------------
(***************************************************************************)
(* Two devices and one clock.                                              *)
(***************************************************************************)
EXTENDS Timers

CONSTANTS d1, d2

const_Dev == {d1, d2}
const_Delay == {2, 4, 8}
const_TickCount == {0, 2}
=============================================================================
