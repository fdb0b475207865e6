---------------------------- MODULE CorridorWalk ----------------------------
(***************************************************************************)
(* What the display and the rules expect of a sprite: it starts at home,   *)
(* every frame it stays, moves by one pixel along one axis or is put back  *)
(* home, and no pixel of it is ever drawn over a wall.                     *)
(***************************************************************************)
EXTENDS Maze

CONSTANTS HomeX, HomeY

VARIABLES x, y

Init == x = HomeX /\ y = HomeY

\* One pixel along one axis, into a place where the whole sprite is free.
Step == /\ \/ x' \in {x - 1, x + 1} /\ y' = y
           \/ y' \in {y - 1, y + 1} /\ x' = x
        /\ InMaze(x', y')
        /\ SpriteFree(x', y')

GoHome == x' = HomeX /\ y' = HomeY

Next == Step \/ GoHome

Spec == Init /\ [][Next]_<<x, y>>
=============================================================================
