---------------------------- MODULE MCSystemClock ----------------------------
(***************************************************************************)
(* Words of 6 bits and 5 milliseconds to the second, so that milliseconds  *)
(* run from 0 to 11 or 12 and start again six times while the ticks do     *)
(* once, every time at another place, as 1000 does not divide 2^32 either; *)
(* 3 milliseconds to settle and at most 2 ticks for one round of the loop; *)
(* the alarm started at any tick.                                          *)
(***************************************************************************)
EXTENDS SystemClock

MCWord == 64
=============================================================================
