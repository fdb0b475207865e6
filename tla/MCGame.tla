------------------------------- MODULE MCGame --------------------------------
(***************************************************************************)
(* A corridor of four blocks of 12 pixels.  The player starts in the       *)
(* middle and walks to and fro; two ghosts come from the left, one from    *)
(* the right, and a fruit is on the way; three dots win.                   *)
(***************************************************************************)
EXTENDS Game

MCBlock == 12
MCWalls == ((0..7) \X (0..7)) \ ((2..5) \X {2})
MCCenterX == 3 * MCBlock + 6
MCCenterY == 2 * MCBlock + 1
MCHome == [red   |-> <<2 * MCBlock, 2 * MCBlock + 1>>,
           green |-> <<2 * MCBlock + 3, 2 * MCBlock>>,
           aqua  |-> <<6 * MCBlock - 9, 2 * MCBlock + 1>>]
MCFruitLocation == [first |-> <<4 * MCBlock + 4, 2 * MCBlock>>]

\* The keys that lead somewhere in this corridor.
CorridorKeys == {KeyA, KeyD, NoKey}

CorridorNext == GameReset \/ \E keycode \in CorridorKeys : GameTick(keycode)
CorridorSpec == GameInit /\ [][CorridorNext]_game
=============================================================================
