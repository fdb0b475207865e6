----------------------------- MODULE GameRules ------------------------------
(***************************************************************************)
(* The rules of the game, the registers of lab62.sv: lives and death,      *)
(* which ghosts are still on the board, the reversal in which the ghosts   *)
(* are prey, the fruits that start it, the dots and the score.             *)
(*                                                                         *)
(* All registers, the sprites' positions included, take their next values  *)
(* at the same rising edge of VGA_VS from the old values of all of them,   *)
(* so one Tick is the conjunction of what each always_ff block does.       *)
(*                                                                         *)
(* Positions matter to the rules only through what they are near: near is  *)
(* the set of ghosts less than 8 pixels away from the player, fruit the    *)
(* fruit less than 8 pixels away, dot the cell of the dots array under the *)
(* player (always one that exists: DotsInBounds of GameProofs).            *)
(***************************************************************************)
EXTENDS Integers, FiniteSets

CONSTANTS Ghosts,         \* {red, green, aqua}
          Fruits,         \* the three of fruit_location
          NoFruit,        \* no fruit within reach
          Dots,           \* the cells of the dots array, 42 x 42
          HomeDot,        \* the cell under the player's start position
          WinScore,       \* 500
          ReversalTicks   \* 600 frames, 10 seconds

\* The score is an 11-bit register.
ASSUME RulesAssumption ==
  /\ NoFruit \notin Fruits
  /\ HomeDot \in Dots
  /\ IsFiniteSet(Dots) /\ Cardinality(Dots) < 2048
  /\ WinScore \in Nat
  /\ ReversalTicks \in 1..1023

VARIABLES lives, death,
          enabled,            \* red_enable, green_enable, aqua_enable
          reversal, reversal_counter,
          fruits,             \* first_on, second_on, third_on
          dots, score,
          near, fruit, dot,   \* the sprites' positions, see above
          hasMoved            \* of ball.sv: the player has left the start

rules == <<lives, death, enabled, reversal, reversal_counter, fruits, dots, score>>
sprites == <<near, fruit, dot, hasMoved>>
vars == <<rules, sprites>>

StartLives == 2

-----------------------------------------------------------------------------
touching == near \cap enabled # {}

\* A ghost catches the player.
isDefeated == ~reversal /\ touching

\* The player catches a ghost.
predator == reversal /\ touching

victory == (dots = {} \/ score >= WinScore) /\ ~death

-----------------------------------------------------------------------------
\* Powered up and reset: reversal, which Reset leaves alone, powers up low.
InitRules == /\ lives = StartLives /\ death = FALSE /\ enabled = Ghosts
             /\ reversal = FALSE /\ reversal_counter = 0
             /\ fruits = Fruits /\ dots = Dots /\ score = 0

Init == /\ InitRules
        /\ near = {} /\ fruit = NoFruit /\ dot = HomeDot
        /\ hasMoved = FALSE

\* The sprites' homes are farther apart than a contact reaches.
GoHome == near' = {} /\ fruit' = NoFruit /\ dot' = HomeDot /\ hasMoved' = FALSE

\* Every register but reversal is given a value by Reset.
ResetRules == /\ lives' = StartLives /\ death' = FALSE /\ enabled' = Ghosts
              /\ reversal_counter' = 0 /\ UNCHANGED reversal
              /\ fruits' = Fruits /\ dots' = Dots /\ score' = 0

Reset == ResetRules /\ GoHome

-----------------------------------------------------------------------------
\* Mutant of Lives: the ghost that catches the player is looked at first.
LivesLate ==
  \/ /\ isDefeated
     /\ lives' = IF lives > 0 THEN lives - 1 ELSE lives
     /\ UNCHANGED <<death, enabled>>
  \/ /\ ~isDefeated /\ lives = 0
     /\ death' = TRUE
     /\ UNCHANGED <<lives, enabled>>
  \/ /\ ~isDefeated /\ lives > 0
     /\ enabled' = IF predator THEN enabled \ near ELSE enabled
     /\ UNCHANGED <<lives, death>>

\* Mutant of Lives: dead with one life left.
LivesEarly ==
  \/ /\ lives <= 1
     /\ death' = TRUE
     /\ UNCHANGED <<lives, enabled>>
  \/ /\ lives > 1
     /\ lives' = IF isDefeated THEN lives - 1 ELSE lives
     /\ enabled' = IF ~isDefeated /\ predator THEN enabled \ near ELSE enabled
     /\ UNCHANGED death

\* The first always_ff block: out of lives, a life lost, or ghosts eaten.
Lives ==
  \/ /\ lives = 0
     /\ death' = TRUE
     /\ UNCHANGED <<lives, enabled>>
  \/ /\ lives > 0 /\ isDefeated
     /\ lives' = lives - 1
     /\ UNCHANGED <<death, enabled>>
  \/ /\ lives > 0 /\ ~isDefeated /\ predator
     /\ enabled' = enabled \ near
     /\ UNCHANGED <<lives, death>>
  \/ /\ lives > 0 /\ ~isDefeated /\ ~predator
     /\ UNCHANGED <<lives, death, enabled>>

-----------------------------------------------------------------------------
ReversalOver == reversal_counter = ReversalTicks

\* Mutant of EndReversal: the counter starts again, the reversal goes on.
RestartReversal == /\ reversal_counter' = 0
                   /\ UNCHANGED <<reversal, fruits>>

EndReversal == /\ reversal' = FALSE
               /\ reversal_counter' = 0
               /\ UNCHANGED fruits

CountReversal == /\ reversal_counter' = (reversal_counter + 1) % 1024
                 /\ UNCHANGED <<reversal, fruits>>

EatFruit == /\ fruit \in fruits
            /\ fruits' = fruits \ {fruit}
            /\ reversal' = TRUE
            /\ UNCHANGED reversal_counter

\* Mutant of Reversal: a fruit is taken during a reversal, too.
ReversalOverlapping ==
  \/ ReversalOver /\ EndReversal
  \/ ~ReversalOver /\ EatFruit
  \/ ~ReversalOver /\ reversal /\ fruit \notin fruits /\ CountReversal
  \/ /\ ~ReversalOver /\ ~reversal /\ fruit \notin fruits
     /\ UNCHANGED <<reversal, reversal_counter, fruits>>

\* The second always_ff block: a fruit is taken only outside a reversal.
Reversal ==
  \/ ReversalOver /\ EndReversal
  \/ ~ReversalOver /\ reversal /\ CountReversal
  \/ ~ReversalOver /\ ~reversal /\ EatFruit
  \/ /\ ~ReversalOver /\ ~reversal /\ fruit \notin fruits
     /\ UNCHANGED <<reversal, reversal_counter, fruits>>

\* Mutant of EatDots: every frame on a cell scores.
EatDotsTwice == /\ dots' = dots \ {dot}
                /\ score' = (score + 1) % 2048

\* The third always_ff block: the dot under the player, once.
EatDots ==
  \/ /\ dot \in dots
     /\ dots' = dots \ {dot}
     /\ score' = (score + 1) % 2048
  \/ dot \notin dots /\ UNCHANGED <<dots, score>>

-----------------------------------------------------------------------------
\* Where ball.sv and ghost.sv put the sprites at the same edge.

\* Out of lives: nothing moves any more.
SpritesFrozen == death /\ UNCHANGED sprites

\* Caught: everyone goes home, far from each other, and waits for a key.
SpritesGoHome == ~death /\ ~victory /\ isDefeated /\ GoHome

\* Caught after the game is won: the ghosts go home, but the player stays,
\* and may have stopped near the home of some of them.
GhostsGoHome == /\ ~death /\ victory /\ isDefeated
                /\ near' \in SUBSET Ghosts
                /\ UNCHANGED <<fruit, dot, hasMoved>>

\* Nothing moves before the first key.
SpritesWait == /\ ~death /\ ~isDefeated /\ ~hasMoved
               /\ hasMoved' \in IF victory THEN {FALSE} ELSE BOOLEAN
               /\ UNCHANGED <<near, fruit, dot>>

\* Ghosts go on moving after the game is won.
GhostsMove == /\ ~death /\ victory /\ ~isDefeated /\ hasMoved
              /\ near' \in SUBSET Ghosts
              /\ UNCHANGED <<fruit, dot, hasMoved>>

SpritesMove == /\ ~death /\ ~victory /\ ~isDefeated /\ hasMoved
               /\ near' \in SUBSET Ghosts
               /\ fruit' \in Fruits \cup {NoFruit}
               /\ dot' \in Dots
               /\ UNCHANGED hasMoved

\* Mutant of Sprites: the ghosts do not go home when the player is caught.
SpritesStay ==
  \/ SpritesFrozen \/ SpritesWait \/ GhostsMove \/ SpritesMove
  \/ /\ ~death /\ isDefeated
     /\ fruit' = NoFruit /\ dot' = HomeDot /\ hasMoved' = FALSE
     /\ UNCHANGED near

Sprites == \/ SpritesFrozen \/ SpritesGoHome \/ GhostsGoHome
           \/ SpritesWait \/ GhostsMove \/ SpritesMove

-----------------------------------------------------------------------------
Tick == Lives /\ Reversal /\ EatDots /\ Sprites

Next == Reset \/ Tick

\* VGA_VS never stops.
Spec == Init /\ [][Next]_vars /\ WF_vars(Tick)

\* Reset is pressed again and again.
AlwaysReset == []<><<Reset>>_vars
-----------------------------------------------------------------------------
TypeOK == /\ lives \in 0..StartLives /\ death \in BOOLEAN
          /\ enabled \subseteq Ghosts
          /\ reversal \in BOOLEAN /\ reversal_counter \in 0..ReversalTicks
          /\ fruits \subseteq Fruits
          /\ dots \subseteq Dots /\ score \in 0..Cardinality(Dots)
          /\ near \subseteq Ghosts /\ fruit \in Fruits \cup {NoFruit}
          /\ dot \in Dots /\ hasMoved \in BOOLEAN

\* Every dot is paid once and every point is a dot (lab62.sv:323-330), so that
\* the 11 bits of the score never overflow.
ScoreIsDotsEaten == score = Cardinality(Dots \ dots)

\* A reversal that starts finds its counter at 0 and lasts its full time,
\* also after a Reset in the middle of one, which clears the counter but not
\* the reversal (lab62.sv:228-246).
CounterIdle == ~reversal => reversal_counter = 0

\* The game is over only when no life is left (lab62.sv:189-197).
DeathHasNoLives == death => lives = 0

\* The player is caught only after a key was taken: with no key pressed no
\* sprite moves, and the sprites' homes are apart (ball.sv:56-68).
NotCaughtAtStart == ~hasMoved => ~touching

\* One contact costs one life: the contact is over when the life is gone,
\* unless the game was won before (lab62.sv:192-197, ball.sv:48-54).
OneLifePerContact ==
  [][lives' < lives => ~isDefeated' \/ victory]_vars

\* Who eats whom: ghosts are eaten only in a reversal and lives lost only
\* outside one; a ghost that was eaten never costs a life (lab62.sv:297-307).
ReversalDecides ==
  [][Tick => /\ enabled' # enabled => reversal /\ lives' = lives
             /\ lives' # lives => ~reversal /\ enabled \cap near # {}]_vars

\* A reversal starts with a fruit that is gone afterwards, is not restarted,
\* and ends when it has run its time (lab62.sv:236-287).
OneReversalPerFruit ==
  [][Tick => /\ ~reversal /\ reversal' => \E f \in fruits : fruits' = fruits \ {f}
             /\ fruits' # fruits => ~reversal /\ reversal'
             /\ reversal /\ ~reversal' => ReversalOver]_vars

\* A victory is over only when the last life is lost or the game is reset
\* (lab62.sv:340-345): no dot comes back and no point is taken away.
VictoryEndsByDeath ==
  [][Tick /\ victory /\ ~victory' => death' /\ lives = 0]_vars

\* Every reversal ends, the one that outlives the last Reset included.
ReversalEnds == AlwaysReset \/ (reversal ~> ~reversal)

\* When the last life is gone the game is over, caught again or not, unless a
\* Reset comes first.
GameOverComes == lives = 0 ~> death \/ lives = StartLives
=============================================================================
