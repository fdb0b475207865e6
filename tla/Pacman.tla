------------------------------- MODULE Pacman -------------------------------
(***************************************************************************)
(* The player's sprite (module pacman of ball.sv).  One step is one rising *)
(* edge of the frame clock VGA_VS, at which every register takes its next  *)
(* value from the old values of all of them, or an asynchronous Reset.     *)
(* The keycode and the rules' wires are inputs, chosen anew each frame:    *)
(* the keycode register is written by the firmware at any time.            *)
(***************************************************************************)
EXTENDS Maze

CONSTANTS CenterX, CenterY    \* where the sprite starts: (136, 248)

ASSUME CenterAssumption ==
  /\ CenterX \in Nat /\ CenterY \in Nat
  /\ InMaze(CenterX, CenterY) /\ SpriteFree(CenterX, CenterY)

VARIABLES BallX, BallY,                  \* upper left pixel of the sprite
          Ball_X_Motion, Ball_Y_Motion,  \* applied at the next tick
          last_keypress,                 \* 0 right, 1 down, 2 left, 3 up
          hasMoved                       \* a key was taken since the start

pos == <<BallX, BallY>>
motion == <<Ball_X_Motion, Ball_Y_Motion>>
vars == <<BallX, BallY, Ball_X_Motion, Ball_Y_Motion, last_keypress, hasMoved>>

\* USB HID usage codes of the four keys, and one code of any other key.
KeyA == 4
KeyD == 7
KeyS == 22
KeyW == 26
NoKey == 0
Keycodes == {KeyA, KeyD, KeyS, KeyW, NoKey}

stop_motion == SpriteWall(BallX, BallY, Ball_X_Motion, Ball_Y_Motion)

-----------------------------------------------------------------------------
Init == /\ BallX = CenterX /\ BallY = CenterY
        /\ Ball_X_Motion = 0 /\ Ball_Y_Motion = 0
        /\ last_keypress = 0
        /\ hasMoved = 0

\* Back to the start, facing right and waiting for a key.
ToCenter == /\ BallX' = CenterX /\ BallY' = CenterY
            /\ Ball_X_Motion' = 0 /\ Ball_Y_Motion' = 0
            /\ last_keypress' = 0
            /\ hasMoved' = 0

Reset == ToCenter

Halt == /\ Ball_X_Motion' = 0 /\ Ball_Y_Motion' = 0
        /\ UNCHANGED <<BallX, BallY, last_keypress, hasMoved>>

\* The game is over or won: the sprite stays where it is.
Freeze(death, victory) == (death \/ victory) /\ Halt

LoseLife(death, victory, isDefeated, reversal) ==
  /\ ~(death \/ victory)
  /\ isDefeated /\ ~reversal
  /\ ToCenter

Playing(death, victory, isDefeated, reversal) ==
  /\ ~(death \/ victory)
  /\ ~(isDefeated /\ ~reversal)

\* A wall ahead in the direction of the current motion: the key is ignored.
Stop == stop_motion /\ Halt

Turn(mx, my, facing) ==
  /\ Ball_X_Motion' = mx /\ Ball_Y_Motion' = my
  /\ last_keypress' = facing
  /\ hasMoved' = 1

Steer(keycode) ==
  \/ keycode = KeyA /\ Turn(NegOne, 0, 2)
  \/ keycode = KeyD /\ Turn(1, 0, 0)
  \/ keycode = KeyS /\ Turn(0, 1, 1)
  \/ keycode = KeyW /\ Turn(0, NegOne, 3)
  \/ /\ keycode \notin {KeyA, KeyD, KeyS, KeyW}
     /\ UNCHANGED <<Ball_X_Motion, Ball_Y_Motion, last_keypress, hasMoved>>

\* Mutant of Advance: the position takes the motion chosen at the same edge
\* (the question that the comment at ball.sv:155-162 asks).
AdvanceByNewMotion == /\ BallX' = Add10(BallX, Ball_X_Motion')
                      /\ BallY' = Add10(BallY, Ball_Y_Motion')

\* The position takes the old motion, the motion takes the key.
Advance == /\ BallX' = Add10(BallX, Ball_X_Motion)
           /\ BallY' = Add10(BallY, Ball_Y_Motion)

\* Mutant of Move: the wall ahead is not looked up.
MoveBlindly(keycode) == Steer(keycode) /\ Advance

Move(keycode) == ~stop_motion /\ Steer(keycode) /\ Advance

Tick == \E death, victory, isDefeated, reversal \in BOOLEAN :
          \/ Freeze(death, victory)
          \/ LoseLife(death, victory, isDefeated, reversal)
          \/ /\ Playing(death, victory, isDefeated, reversal)
             /\ Stop \/ \E keycode \in Keycodes : Move(keycode)

Next == Reset \/ Tick

Spec == Init /\ [][Next]_vars
-----------------------------------------------------------------------------
TypeOK == /\ BallX \in Coordinate /\ BallY \in Coordinate
          /\ Ball_X_Motion \in Motion /\ Ball_Y_Motion \in Motion
          /\ last_keypress \in 0..3
          /\ hasMoved \in 0..1

\* No pixel of the sprite is ever over a wall or outside the maze, although
\* the wall ahead is looked up for the motion chosen one frame earlier
\* (sprite_wall, ball.sv:71,172).
NeverInWall == InMaze(BallX, BallY) /\ SpriteFree(BallX, BallY)

\* A sprite at rest is never held: sprite_wall then looks at the sprite's own
\* corners, and a sprite that overlapped a wall there would ignore every key
\* for ever (ball.sv:71-75).
NeverWedged == motion = <<0, 0>> => ~stop_motion

\* The cell of the 42 x 42 dots array that the rules address with the sprite's
\* position (lab62.sv:323-328) exists, whatever the player does.
DotIndex(p) == (p - Block + 4) \div 8
DotIndexInRange ==
  \A p \in {BallX, BallY} :
    p \in Block .. 7 * Block => DotIndex(p) <= (6 * Block) \div 8 - 1

\* hasMoved holds the ghosts back (ghost.sv:164): while it is low the sprite is
\* still at the start, and a sprite that has left it has released the ghosts.
GhostsHeldOnlyAtStart == hasMoved = 0 => pos = <<CenterX, CenterY>>

\* A moving sprite is drawn facing the way it moves, also after a stop, a key
\* taken while it was blocked and a lost life (color mapper, last_keypress).
FacesItsMotion ==
  motion # <<0, 0>> =>
    motion = CASE last_keypress = 0 -> <<1, 0>>
               [] last_keypress = 1 -> <<0, 1>>
               [] last_keypress = 2 -> <<NegOne, 0>>
               [] OTHER -> <<0, NegOne>>

\* The sprite implements a walk through the corridors: every frame it stays,
\* takes one pixel along one axis into free space, or is put back to the start.
Walk == INSTANCE CorridorWalk WITH HomeX <- CenterX, HomeY <- CenterY,
                                   x <- BallX, y <- BallY
WalksCorridors == Walk!Spec
=============================================================================
