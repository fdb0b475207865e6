-------------------------------- MODULE Ghost -------------------------------
(***************************************************************************)
(* A ghost: the modules ghost_red, ghost_green and ghost_aqua of ghost.sv, *)
(* with the four wall checks, the four distances and the minimum that each *)
(* of them instantiates.  The three differ in their home, in the point of  *)
(* the ghost that the distances are measured from, and in what they do     *)
(* when no direction is open; colour says which of them this is.           *)
(*                                                                         *)
(* One step is one rising edge of VGA_VS or an asynchronous Reset.  The    *)
(* player's position and reversal are inputs, chosen anew each frame.      *)
(***************************************************************************)
EXTENDS Maze

CONSTANTS Home,              \* where each of the ghosts starts
          PacmanPositions    \* where the player may be

Colours == {"red", "green", "aqua"}

ASSUME GhostAssumption ==
  /\ Home \in [Colours -> (0..511) \X (0..511)]
  /\ \A c \in Colours : /\ InMaze(Home[c][1], Home[c][2])
                        /\ SpriteFree(Home[c][1], Home[c][2])
  /\ PacmanPositions \subseteq Coordinate \X Coordinate
  /\ PacmanPositions # {}

\* HORIZ_OFFSET and VERT_OFFSET
Offset == [red |-> <<0, 0>>, green |-> <<0, 5>>, aqua |-> <<10, 0>>]

VARIABLES colour,
          ghostX, ghostY,               \* upper left pixel of the sprite
          ghostXmotion, ghostYmotion,   \* applied at the next tick
          hasMoved, death               \* of ball.sv and lab62.sv

ghost == <<ghostX, ghostY, ghostXmotion, ghostYmotion>>
vars == <<colour, ghost, hasMoved, death>>

-----------------------------------------------------------------------------
Right == 0
Down  == 1
Left  == 2
Up    == 3
Directions == 0..3
NoDirection == 5

Unit == << <<1, 0>>, <<0, 1>>, <<NegOne, 0>>, <<0, NegOne>> >>
UnitX(dir) == Unit[dir + 1][1]
UnitY(dir) == Unit[dir + 1][2]

\* ghost_wall_check
Blocked(dir) == SpriteWall(ghostX, ghostY, UnitX(dir), UnitY(dir))
Open == {dir \in Directions : ~Blocked(dir)}

\* The member of a nonempty set of directions that comes first in an order.
First(dirs, order) ==
  order[CHOOSE i \in 1..4 : order[i] \in dirs /\ \A j \in 1..i - 1 : order[j] \notin dirs]

-----------------------------------------------------------------------------
(* Distances are squares, in 20 bits.                                      *)

Wrap20(n) == n % 1048576

\* n * n in 20 bits, by its two halves: TLC's integers have 32.
Square20(n) == LET high == Wrap20(n) \div 1024
                   low  == n % 1024
               IN Wrap20(((2 * high * low) % 1024) * 1024 + low * low)

\* four_direction_distance: of the player from the pixel next to the ghost.
distances(pacman) ==
  [dir \in Directions |->
     LET gx == (ghostX + UnitX(dir) + Offset[colour][1]) % 1024
         gy == (ghostY + UnitY(dir) + Offset[colour][2]) % 1024
     IN Wrap20(Square20(pacman[1] - gx) + Square20(pacman[2] - gy))]

\* findMinFour: the directions of the minimum, in a reversal of the maximum.
findMinFour(distance, reversal) ==
  {dir \in Directions : \A e \in Directions :
     IF reversal THEN distance[dir] >= distance[e] ELSE distance[dir] <= distance[e]}

\* Mutant of Detour: a closed direction is taken all the same.
NoDetour(distance, best) == First(best, <<Up, Down, Left, Right>>)

\* The best direction is closed: the side that is nearer to the best one, then
\* the way back, then any that is open.
Detour(distance, best) ==
  LET min == First(best, <<Up, Down, Left, Right>>)
      lean(dir) == Square20(distance[dir] - distance[min])
      one == IF min \in {Right, Left} THEN Up ELSE Right
      two == IF min \in {Right, Left} THEN Down ELSE Left
      back == (min + 2) % 4
  IN CASE lean(one) <= lean(two) /\ one \in Open -> one
       [] lean(two) <= lean(one) /\ two \in Open
            /\ ~(lean(one) <= lean(two) /\ one \in Open) -> two
       [] OTHER ->
            IF back \in Open THEN back
            ELSE IF Open # {} THEN First(Open, <<Right, Up, Left, Down>>)
            ELSE NoDirection

direction(pacman, reversal) ==
  LET distance == distances(pacman)
      best == findMinFour(distance, reversal)
  IN IF best \cap Open # {} THEN First(best \cap Open, <<Up, Down, Left, Right>>)
     ELSE Detour(distance, best)

-----------------------------------------------------------------------------
GoHome == /\ ghostX' = Home[colour][1] /\ ghostY' = Home[colour][2]
          /\ ghostXmotion' = 0 /\ ghostYmotion' = 0

Halt == /\ ghostXmotion' = 0 /\ ghostYmotion' = 0
        /\ UNCHANGED <<ghostX, ghostY>>

Init == /\ colour \in Colours
        /\ ghostX = Home[colour][1] /\ ghostY = Home[colour][2]
        /\ ghostXmotion = 0 /\ ghostYmotion = 0
        /\ hasMoved = FALSE /\ death = FALSE

Reset == GoHome /\ hasMoved' = FALSE /\ death' = FALSE /\ UNCHANGED colour

\* The game is over.
Freeze == death /\ Halt /\ UNCHANGED <<colour, hasMoved, death>>

\* The player is caught, by this ghost or another one; after a victory perhaps
\* with no life left, so that the game is over in the same frame.
Caught == /\ ~death
          /\ GoHome
          /\ hasMoved' \in {FALSE, hasMoved} /\ death' \in BOOLEAN
          /\ UNCHANGED colour

\* Nobody moves before the player's first key.
Wait == /\ ~death /\ ~hasMoved
        /\ Halt
        /\ hasMoved' \in BOOLEAN /\ death' \in BOOLEAN
        /\ UNCHANGED colour

\* With no way out ghost_red keeps its motion, the other two stop.
MotionOf(dir) == IF dir \in Directions THEN Unit[dir + 1]
                 ELSE IF colour = "red" THEN <<ghostXmotion, ghostYmotion>>
                 ELSE <<0, 0>>

\* The position takes the old motion, the motion the direction that is chosen
\* at the old position.
Pursue(pacman, reversal) ==
  /\ LET m == MotionOf(direction(pacman, reversal))
     IN ghostXmotion' = m[1] /\ ghostYmotion' = m[2]
  /\ ghostX' = Add10(ghostX, ghostXmotion)
  /\ ghostY' = Add10(ghostY, ghostYmotion)

Chase == /\ ~death /\ hasMoved
         /\ \E pacman \in PacmanPositions, reversal \in BOOLEAN : Pursue(pacman, reversal)
         /\ death' \in BOOLEAN
         /\ UNCHANGED <<colour, hasMoved>>

Tick == Freeze \/ Caught \/ Wait \/ Chase

Next == Reset \/ Tick

Spec == Init /\ [][Next]_vars
-----------------------------------------------------------------------------
TypeOK == /\ colour \in Colours
          /\ ghostX \in Coordinate /\ ghostY \in Coordinate
          /\ ghostXmotion \in Motion /\ ghostYmotion \in Motion
          /\ hasMoved \in BOOLEAN /\ death \in BOOLEAN

\* A ghost turns one frame after it looked, so it may run over the edge of a
\* wall, but by one pixel at most: the 7 x 7 pixels in its middle are never
\* over a wall, and the whole ghost is in the maze (ghost.sv:193-194).
OverrunsByOnePixel ==
  /\ InMaze(ghostX, ghostY)
  /\ \A dx, dy \in 1..7 : ~CheckWall(ghostX + dx, ghostY + dy)

\* Wherever a late turn takes the ghost, some direction is open again: the case
\* in which ghost_red keeps its motion, through any wall, does not arise
\* (ghost.sv:102-114, and 170-191, which has no case 5).
NeverCornered == Open # {}

\* Whatever the chooser decides, the ghost only takes open directions, moves by
\* one pixel along one axis per frame, and stops only when it is held.
Walk == INSTANCE GhostWalk WITH home <- Home[colour],
                                x <- ghostX, y <- ghostY,
                                vx <- ghostXmotion, vy <- ghostYmotion
Roams == Walk!Spec
=============================================================================
