---------------------------- MODULE MCGameRules -----------------------------
(***************************************************************************)
(* Small boards for GameRules.  Two ghosts and two fruits, so that one of  *)
(* them can be eaten and the other not; three dots, two of which win; a    *)
(* reversal of two ticks.                                                  *)
(***************************************************************************)
EXTENDS GameRules

CONSTANTS red, aqua, first, second, d1, d2, d3

MCGhosts == {red, aqua}
MCFruits == {first, second}
MCDots == {d1, d2, d3}
=============================================================================
