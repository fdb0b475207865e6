-------------------------------- MODULE Game ---------------------------------
(***************************************************************************)
(* The whole game of lab62.sv: the player of Pacman, three Ghosts and the  *)
(* registers of GameRules on one board.  The rules compare real positions  *)
(* here, the ghosts chase the real player, and everyone obeys the wires of *)
(* the rules.  A GameTick is one rising edge of VGA_VS, at which every     *)
(* register takes its next value from the old values of all of them.       *)
(***************************************************************************)
EXTENDS Pacman, FiniteSets

CONSTANTS Home,            \* where each of the ghosts starts
          FruitLocation,   \* where each of the fruits is
          NoFruit,
          WinScore,        \* 500
          ReversalTicks    \* 600

Colours == {"red", "green", "aqua"}
Fruits == DOMAIN FruitLocation

VARIABLES redX, redY, redXmotion, redYmotion,
          greenX, greenY, greenXmotion, greenYmotion,
          aquaX, aquaY, aquaXmotion, aquaYmotion,
          lives, death, enabled, reversal, reversal_counter,
          fruits, dots, score

player == vars
red == <<redX, redY, redXmotion, redYmotion>>
green == <<greenX, greenY, greenXmotion, greenYmotion>>
aqua == <<aquaX, aquaY, aquaXmotion, aquaYmotion>>
rules == <<lives, death, enabled, reversal, reversal_counter, fruits, dots, score>>
game == <<player, red, green, aqua, rules>>

\* Where they are on the board: the ghosts' homes and fruit_location.
RedHome == <<64, 64>>
GreenHome == <<304, 64>>
AquaHome == <<368, 368>>
ShippedFruits == [first |-> <<184, 80>>, second |-> <<208, 256>>, third |-> <<232, 352>>]

-----------------------------------------------------------------------------
(* What the rules see of the sprites.                                      *)

Square(n) == n * n

\* ghost_pacman_distance: on the board a difference is less than 512, and its
\* square fits in the register.
distance(p, q) == Square(p[1] - q[1]) + Square(p[2] - q[2])

Touches(p, q) == distance(p, q) < 64

GhostPosition == [c \in Colours |-> CASE c = "red"   -> <<redX, redY>>
                                      [] c = "green" -> <<greenX, greenY>>
                                      [] c = "aqua"  -> <<aquaX, aquaY>>]

near == {c \in Colours : Touches(pos, GhostPosition[c])}

\* The fruits are too far apart for two to be within reach.
FruitAt(p) == IF \E f \in Fruits : Touches(p, FruitLocation[f])
              THEN CHOOSE f \in Fruits : Touches(p, FruitLocation[f])
              ELSE NoFruit

Dots == (0..(6 * Block) \div 8 - 1) \X (0..(6 * Block) \div 8 - 1)

DotAt(p) == <<DotIndex(p[1]), DotIndex(p[2])>>

OnBoard == BallX \in Block..7 * Block /\ BallY \in Block..7 * Block

\* The ghosts start free, the player out of reach of the ghosts and the fruits,
\* and the score register has room for every dot.
Center == <<CenterX, CenterY>>

ASSUME BoardAssumption ==
  /\ Home \in [Colours -> (0..511) \X (0..511)]
  /\ \A c \in Colours : /\ InMaze(Home[c][1], Home[c][2])
                        /\ SpriteFree(Home[c][1], Home[c][2])
  /\ Cardinality(Dots) < 2048
  /\ \A c \in Colours : ~Touches(Center, Home[c])
  /\ NoFruit \notin Fruits
  /\ \A f \in Fruits : ~Touches(Center, FruitLocation[f])
  /\ WinScore \in Nat /\ ReversalTicks \in 1..1023

Rules == INSTANCE GameRules
  WITH Ghosts <- Colours, HomeDot <- DotAt(Center),
       fruit <- FruitAt(pos), dot <- DotAt(pos), hasMoved <- hasMoved = 1

Red == INSTANCE Ghost
  WITH colour <- "red", ghostX <- redX, ghostY <- redY,
       ghostXmotion <- redXmotion, ghostYmotion <- redYmotion,
       PacmanPositions <- Coordinate \X Coordinate, hasMoved <- hasMoved = 1
Green == INSTANCE Ghost
  WITH colour <- "green", ghostX <- greenX, ghostY <- greenY,
       ghostXmotion <- greenXmotion, ghostYmotion <- greenYmotion,
       PacmanPositions <- Coordinate \X Coordinate, hasMoved <- hasMoved = 1
Aqua == INSTANCE Ghost
  WITH colour <- "aqua", ghostX <- aquaX, ghostY <- aquaY,
       ghostXmotion <- aquaXmotion, ghostYmotion <- aquaYmotion,
       PacmanPositions <- Coordinate \X Coordinate, hasMoved <- hasMoved = 1

-----------------------------------------------------------------------------
GhostsInit == /\ redX = Home["red"][1] /\ redY = Home["red"][2]
              /\ greenX = Home["green"][1] /\ greenY = Home["green"][2]
              /\ aquaX = Home["aqua"][1] /\ aquaY = Home["aqua"][2]
              /\ redXmotion = 0 /\ redYmotion = 0
              /\ greenXmotion = 0 /\ greenYmotion = 0
              /\ aquaXmotion = 0 /\ aquaYmotion = 0

GameInit == Init /\ GhostsInit /\ Rules!InitRules

GameReset == Reset /\ Red!GoHome /\ Green!GoHome /\ Aqua!GoHome /\ Rules!ResetRules

\* The player with the wires of the rules.
PlayerTick(keycode) ==
  \/ Freeze(death, Rules!victory)
  \/ LoseLife(death, Rules!victory, Rules!isDefeated, reversal)
  \/ /\ Playing(death, Rules!victory, Rules!isDefeated, reversal)
     /\ Stop \/ Move(keycode)

\* Mutant of GhostTick: a ghost that caught the player stays on his track.
GhostTickPursues(halt, goHome, pursue) ==
  \/ death /\ halt
  \/ ~death /\ hasMoved = 0 /\ halt
  \/ ~death /\ hasMoved = 1 /\ pursue

\* A ghost with the wires of the rules, which do not tell it of a victory.
GhostTick(halt, goHome, pursue) ==
  \/ death /\ halt
  \/ ~death /\ Rules!isDefeated /\ goHome
  \/ ~death /\ ~Rules!isDefeated /\ hasMoved = 0 /\ halt
  \/ ~death /\ ~Rules!isDefeated /\ hasMoved = 1 /\ pursue

GhostTicks == /\ GhostTick(Red!Halt, Red!GoHome, Red!Pursue(pos, reversal))
              /\ GhostTick(Green!Halt, Green!GoHome, Green!Pursue(pos, reversal))
              /\ GhostTick(Aqua!Halt, Aqua!GoHome, Aqua!Pursue(pos, reversal))

\* The dots array is only addressed on the board.
DotsTick == IF OnBoard THEN Rules!EatDots ELSE UNCHANGED <<dots, score>>

GameTick(keycode) ==
  Rules!Lives /\ Rules!Reversal /\ DotsTick /\ PlayerTick(keycode) /\ GhostTicks

GameNext == GameReset \/ \E keycode \in Keycodes : GameTick(keycode)

GameSpec == GameInit /\ [][GameNext]_game
-----------------------------------------------------------------------------
\* The sprites of this game are the sprites that GameRules allows: apart when
\* a life is lost, still before the first key, on a cell of the dots array and
\* within reach of one fruit at most (lab62.sv:176-389).
PlaysByTheRules == Rules!Init /\ [][Rules!Next]_(Rules!vars)

\* No ghost and player ever pass through each other, and none is met in the
\* middle of a sprite: in every frame in which a ghost that was not eaten is
\* within reach it came there in that frame, by two pixels at most, however
\* the reversal began or ended (lab62.sv:297-307, ghost.sv:155-162).  Only a
\* player who has won, and whose victory the ghosts do not notice, may be met
\* anywhere.
TouchIsNoticed ==
  dots # {} /\ score < WinScore =>
    \A c \in enabled : distance(pos, GhostPosition[c]) >= 36
=============================================================================
