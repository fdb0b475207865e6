--------------------------- MODULE MCMouthCounter ---------------------------
(***************************************************************************)
(* A picture of 4 x 3 pixels in a frame of 9 x 9, and three frames to a    *)
(* bite.                                                                   *)
(***************************************************************************)
EXTENDS MouthCounter
=============================================================================
