------------------------------ MODULE MCPacman ------------------------------
(***************************************************************************)
(* The shipped maze with blocks of 24 pixels in place of 56: a 9-pixel     *)
(* sprite still turns, stops and passes walls at every offset.  The sprite *)
(* starts in the shipped block, column 2 of row 4.                         *)
(***************************************************************************)
EXTENDS Pacman

MCBlock == 24
MCCenterX == 2 * MCBlock + 8
MCCenterY == 4 * MCBlock + 8
=============================================================================
