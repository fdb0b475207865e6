------------------------------ MODULE GhostWalk -----------------------------
(***************************************************************************)
(* What the maze and the rules rely on in a ghost, whomever it chases: a   *)
(* frame moves it by the motion chosen in the frame before, the motion it  *)
(* chooses is one that the wall check finds open, and it may be held where *)
(* it is or put back home.                                                 *)
(***************************************************************************)
EXTENDS Maze

VARIABLES home,          \* where the ghost starts, always the same
          x, y, vx, vy

Units == {<<1, 0>>, <<0, 1>>, <<NegOne, 0>>, <<0, NegOne>>}

Init == <<x, y>> = home /\ vx = 0 /\ vy = 0

Rest == vx' = 0 /\ vy' = 0

GoHome == <<x', y'>> = home /\ Rest

Hold == UNCHANGED <<x, y>> /\ Rest

Roam == /\ \E u \in Units : /\ ~SpriteWall(x, y, u[1], u[2])
                            /\ vx' = u[1] /\ vy' = u[2]
        /\ x' = Add10(x, vx) /\ y' = Add10(y, vy)

Next == UNCHANGED home /\ (GoHome \/ Hold \/ Roam)

Spec == Init /\ [][Next]_<<home, x, y, vx, vy>>
=============================================================================
