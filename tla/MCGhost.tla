------------------------------ MODULE MCGhost -------------------------------
(***************************************************************************)
(* The shipped maze with blocks of 20 pixels in place of 56, the ghosts in *)
(* the blocks they are shipped in, and the player in a corner and at two   *)
(* other edges of the maze, so that every direction is the best somewhere. *)
(***************************************************************************)
EXTENDS Ghost

MCBlock == 20
MCHome == [red   |-> <<MCBlock + 8, MCBlock + 8>>,
           green |-> <<5 * MCBlock + 8, MCBlock + 8>>,
           aqua  |-> <<6 * MCBlock + 8, 6 * MCBlock + 8>>]
MCPacmanPositions == {<<MCBlock, MCBlock + 1>>, <<6 * MCBlock + 7, 2 * MCBlock + 5>>,
                      <<3 * MCBlock + 9, 6 * MCBlock + 11>>}
=============================================================================
