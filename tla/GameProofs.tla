----------------------------- MODULE GameProofs ------------------------------
(***************************************************************************)
(* The player alone, and the whole game: a game of real positions is a     *)
(* behaviour of Pacman, of three Ghosts and of GameRules, so what is       *)
(* proved of each of them holds on every board and in every game.          *)
(***************************************************************************)
EXTENDS Game, MazeProofs, FiniteSetTheorems

-----------------------------------------------------------------------------
(* The player, as Pacman describes him.                                   *)

NotDiagonal == Ball_X_Motion = 0 \/ Ball_Y_Motion = 0

\* The inductive invariant: a free sprite that moves along one axis only.
\* NeverInWall alone is not inductive: a diagonal motion would slip past the
\* corner between the two pixels that sprite_wall looks at.
Inv == TypeOK /\ NotDiagonal /\ NeverInWall

\* An unstopped tick leaves the sprite free, at most one pixel away.
LEMMA Unstopped ==
  ASSUME Inv, ~stop_motion
  PROVE  LET X2 == Add10(BallX, Ball_X_Motion)
             Y2 == Add10(BallY, Ball_Y_Motion)
         IN /\ X2 \in Coordinate /\ Y2 \in Coordinate
            /\ InMaze(X2, Y2) /\ SpriteFree(X2, Y2)
            /\ \/ X2 = BallX /\ Y2 = BallY
               \/ X2 \in {BallX - 1, BallX + 1} /\ Y2 = BallY
               \/ Y2 \in {BallY - 1, BallY + 1} /\ X2 = BallX
<1> DEFINE X2 == Add10(BallX, Ball_X_Motion)
           Y2 == Add10(BallY, Ball_Y_Motion)
<1>1. /\ BallX \in Nat /\ BallY \in Nat
      /\ InMaze(BallX, BallY) /\ SpriteFree(BallX, BallY)
  BY DEF Inv, TypeOK, Coordinate, NeverInWall
<1>2. BallX \in 2..1014 /\ BallY \in 2..1014
  BY <1>1, FreeInside, MazeAssumption
<1>3. /\ Add10(BallX, 0) = BallX /\ Add10(BallY, 0) = BallY
      /\ Add10(BallX, 1) = BallX + 1 /\ Add10(BallY, 1) = BallY + 1
      /\ Add10(BallX, NegOne) = BallX - 1 /\ Add10(BallY, NegOne) = BallY - 1
  BY <1>1, <1>2 DEF Add10, NegOne
<1>4. /\ BallX - 1 \in Coordinate /\ BallX + 1 \in Coordinate
      /\ BallY - 1 \in Coordinate /\ BallY + 1 \in Coordinate
      /\ BallX \in Coordinate /\ BallY \in Coordinate
  BY <1>1, <1>2 DEF Coordinate
<1>5. ~SpriteWall(BallX, BallY, Ball_X_Motion, Ball_Y_Motion)
  BY DEF stop_motion
<1>6. /\ ~SpriteWall(BallX, BallY, 1, 0) =>
           ~CheckWall(BallX + 9, BallY) /\ ~CheckWall(BallX + 9, BallY + 8)
      /\ ~SpriteWall(BallX, BallY, 0, 1) =>
           ~CheckWall(BallX, BallY + 9) /\ ~CheckWall(BallX + 8, BallY + 9)
      /\ ~SpriteWall(BallX, BallY, NegOne, 0) =>
           ~CheckWall(BallX - 2, BallY) /\ ~CheckWall(BallX - 2, BallY + 8)
      /\ ~SpriteWall(BallX, BallY, 0, NegOne) =>
           ~CheckWall(BallX, BallY - 2) /\ ~CheckWall(BallX + 8, BallY - 2)
  BY <1>2, OpenAhead, Zenon
<1>7. CASE Ball_X_Motion = 0 /\ Ball_Y_Motion = 0
  BY <1>1, <1>3, <1>4, <1>7
<1>8. CASE Ball_X_Motion = 1 /\ Ball_Y_Motion = 0
  <2>1. ~CheckWall(BallX + 9, BallY) /\ ~CheckWall(BallX + 9, BallY + 8)
    BY <1>5, <1>8, <1>6
  <2>2. InMaze(BallX + 1, BallY) /\ SpriteFree(BallX + 1, BallY)
    BY <1>1, <2>1, StepRight
  <2> QED
    BY <2>2, <1>1, <1>3, <1>4, <1>8
<1>9. CASE Ball_X_Motion = NegOne /\ Ball_Y_Motion = 0
  <2>1. ~CheckWall(BallX - 2, BallY) /\ ~CheckWall(BallX - 2, BallY + 8)
    BY <1>5, <1>9, <1>6
  <2>2. InMaze(BallX - 1, BallY) /\ SpriteFree(BallX - 1, BallY)
    BY <1>1, <2>1, StepLeft
  <2> QED
    BY <2>2, <1>1, <1>3, <1>4, <1>9
<1>10. CASE Ball_X_Motion = 0 /\ Ball_Y_Motion = 1
  <2>1. ~CheckWall(BallX, BallY + 9) /\ ~CheckWall(BallX + 8, BallY + 9)
    BY <1>5, <1>10, <1>6
  <2>2. InMaze(BallX, BallY + 1) /\ SpriteFree(BallX, BallY + 1)
    BY <1>1, <2>1, StepDown
  <2> QED
    BY <2>2, <1>1, <1>3, <1>4, <1>10
<1>11. CASE Ball_X_Motion = 0 /\ Ball_Y_Motion = NegOne
  <2>1. ~CheckWall(BallX, BallY - 2) /\ ~CheckWall(BallX + 8, BallY - 2)
    BY <1>5, <1>11, <1>6
  <2>2. InMaze(BallX, BallY - 1) /\ SpriteFree(BallX, BallY - 1)
    BY <1>1, <2>1, StepUp
  <2> QED
    BY <2>2, <1>1, <1>3, <1>4, <1>11
<1> QED
  BY <1>7, <1>8, <1>9, <1>10, <1>11 DEF Inv, TypeOK, Motion, NotDiagonal

-----------------------------------------------------------------------------
LEMMA CenterFree ==
  /\ CenterX \in Coordinate /\ CenterY \in Coordinate
  /\ InMaze(CenterX, CenterY) /\ SpriteFree(CenterX, CenterY)
  BY CenterAssumption, MazeAssumption DEF InMaze, Coordinate

LEMMA InitInv == Init => Inv
  BY CenterFree DEF Init, Inv, TypeOK, NotDiagonal, NeverInWall, Motion

LEMMA ToCenterInv == ToCenter => Inv'
  BY CenterFree DEF ToCenter, Inv, TypeOK, NotDiagonal, NeverInWall, Motion

LEMMA HaltInv == Inv /\ Halt => Inv'
  BY DEF Halt, Inv, TypeOK, NotDiagonal, NeverInWall, Motion

LEMMA MoveInv ==
  ASSUME Inv, NEW keycode \in Keycodes, Move(keycode)
  PROVE  Inv'
<1>1. /\ BallX' \in Coordinate /\ BallY' \in Coordinate
      /\ InMaze(BallX', BallY') /\ SpriteFree(BallX', BallY')
  BY Unstopped DEF Move, Advance
<1>2. /\ Ball_X_Motion' \in Motion /\ Ball_Y_Motion' \in Motion
      /\ last_keypress' \in 0..3 /\ hasMoved' \in 0..1
      /\ Ball_X_Motion' = 0 \/ Ball_Y_Motion' = 0
  BY DEF Move, Steer, Turn, Inv, TypeOK, NotDiagonal, Motion, NegOne
<1> QED
  BY <1>1, <1>2 DEF Inv, TypeOK, NotDiagonal, NeverInWall

\* Every step is a return to the start, a halt or an unstopped tick.
LEMMA StepKinds ==
  ASSUME Next
  PROVE  ToCenter \/ Halt \/ \E keycode \in Keycodes : Move(keycode)
  BY DEF Next, Reset, Tick, Freeze, LoseLife, Stop

LEMMA NextInv == Inv /\ [Next]_vars => Inv'
<1> SUFFICES ASSUME Inv, [Next]_vars
             PROVE  Inv'
  OBVIOUS
<1>1. CASE ToCenter
  BY <1>1, ToCenterInv
<1>2. CASE Halt
  BY <1>2, HaltInv
<1>3. CASE \E keycode \in Keycodes : Move(keycode)
  BY <1>3, MoveInv
<1>4. CASE UNCHANGED vars
  BY <1>4 DEF vars, Inv, TypeOK, NotDiagonal, NeverInWall
<1> QED
  BY <1>1, <1>2, <1>3, <1>4, StepKinds

\* The player moves along one axis, over open pixels, whatever keys are pressed
\* and whatever the rules command (ball.sv:56-175).
THEOREM Invariance == Spec => []Inv
<1>1. Init => Inv
  BY InitInv
<1>2. Inv /\ [Next]_vars => Inv'
  BY NextInv
<1> QED
  BY <1>1, <1>2, PTL DEF Spec

\* Every register keeps to its width, although every sum wraps.
THEOREM TypeCorrect == Spec => []TypeOK
<1>1. Inv => TypeOK
  BY DEF Inv
<1> QED
  BY <1>1, Invariance, PTL

\* No pixel of the sprite is ever over a wall (sprite_wall, ball.sv:71-154).
THEOREM WallSafety == Spec => []NeverInWall
<1>1. Inv => NeverInWall
  BY DEF Inv
<1> QED
  BY <1>1, Invariance, PTL

\* A sprite at rest obeys the next key (ball.sv:71-75, wall.sv:28-31).
THEOREM Responsive == Spec => []NeverWedged
<1>1. Inv => NeverWedged
  <2> SUFFICES ASSUME Inv, motion = <<0, 0>>
               PROVE  ~stop_motion
    BY DEF NeverWedged
  <2>1. /\ BallX \in Nat /\ BallY \in Nat
        /\ InMaze(BallX, BallY) /\ SpriteFree(BallX, BallY)
    BY DEF Inv, TypeOK, Coordinate, NeverInWall
  <2>2. Ball_X_Motion = 0 /\ Ball_Y_Motion = 0
    BY DEF motion
  <2> QED
    <3>1. BallX \in 2..1014 /\ BallY \in 2..1014
      BY <2>1, FreeInside, MazeAssumption
    <3>2. SpriteWall(BallX, BallY, 0, 0)
            => CheckWall(BallX, BallY) \/ CheckWall(BallX + 8, BallY + 8)
      BY <3>1, Lookahead, Zenon
    <3> QED
      BY <2>1, <2>2, <3>2, FreeCorners DEF stop_motion
<1> QED
  BY <1>1, Invariance, PTL

\* The rules never address a dot that does not exist (lab62.sv:323-328).
THEOREM DotsInBounds == Spec => []DotIndexInRange
<1>1. Inv => DotIndexInRange
  <2> SUFFICES ASSUME Inv
               PROVE  DotIndexInRange
    OBVIOUS
  <2>1. /\ BallX \in Nat /\ BallY \in Nat
        /\ Block <= BallX /\ BallX + 8 < 7 * Block
        /\ Block <= BallY /\ BallY + 8 < 7 * Block
    BY FreeInside DEF Inv, TypeOK, Coordinate, NeverInWall
  <2>2. \A p \in Nat : Block <= p /\ p + 8 < 7 * Block
                         => DotIndex(p) <= (6 * Block) \div 8 - 1
    BY MazeAssumption DEF DotIndex
  <2> QED
    BY <2>1, <2>2 DEF DotIndexInRange
<1> QED
  BY <1>1, Invariance, PTL

\* Every step of the sprite is a step of the walk, or leaves it in place.
THEOREM Refinement == Spec => WalksCorridors
<1>1. Init => Walk!Init
  BY DEF Init, Walk!Init
<1>2. Inv /\ [Next]_vars => [Walk!Next]_<<BallX, BallY>>
  <2> SUFFICES ASSUME Inv, [Next]_vars
               PROVE  [Walk!Next]_<<BallX, BallY>>
    OBVIOUS
  <2>1. CASE ToCenter
    BY <2>1 DEF ToCenter, Walk!Next, Walk!GoHome
  <2>2. CASE Halt
    BY <2>2 DEF Halt
  <2>3. ASSUME NEW keycode \in Keycodes, Move(keycode)
        PROVE  [Walk!Next]_<<BallX, BallY>>
    BY <2>3, Unstopped DEF Move, Advance, Walk!Next, Walk!Step, Walk!InMaze,
       Walk!SpriteFree, Walk!CheckWall, Walk!Cell, InMaze, SpriteFree,
       CheckWall, Cell
  <2>4. CASE UNCHANGED vars
    BY <2>4 DEF vars
  <2> QED
    BY <2>1, <2>2, <2>3, <2>4, StepKinds
<1> QED
  BY <1>1, <1>2, Invariance, PTL DEF Spec, WalksCorridors, Walk!Spec

-----------------------------------------------------------------------------
\* Nothing but a key sets the sprite in motion, and a key raises hasMoved.
Held == hasMoved = 0 => pos = <<CenterX, CenterY>> /\ motion = <<0, 0>>

LEMMA NextHeld == Inv /\ Held /\ [Next]_vars => Held'
<1> SUFFICES ASSUME Inv, Held, [Next]_vars
             PROVE  Held'
  OBVIOUS
<1> USE DEF Held, pos, motion
<1>1. CASE ToCenter
  BY <1>1 DEF ToCenter
<1>2. CASE Halt
  BY <1>2 DEF Halt
<1>3. ASSUME NEW keycode \in Keycodes, Move(keycode)
      PROVE  Held'
  <2>1. CASE hasMoved' = 1
    BY <2>1
  <2>2. CASE /\ keycode \notin {KeyA, KeyD, KeyS, KeyW}
             /\ UNCHANGED <<Ball_X_Motion, Ball_Y_Motion, last_keypress, hasMoved>>
    <3>1. /\ BallX' = Add10(BallX, Ball_X_Motion)
          /\ BallY' = Add10(BallY, Ball_Y_Motion)
      BY <1>3 DEF Move, Advance
    <3>2. /\ Add10(CenterX, 0) = CenterX
          /\ Add10(CenterY, 0) = CenterY
      BY CenterFree DEF Add10, Coordinate
    <3> QED
      BY <2>2, <3>1, <3>2
  <2> QED
    BY <1>3, <2>1, <2>2 DEF Move, Steer, Turn
<1>4. CASE UNCHANGED vars
  BY <1>4 DEF vars
<1> QED
  BY <1>1, <1>2, <1>3, <1>4, StepKinds

\* The player cannot leave the start without releasing the ghosts.
THEOREM GhostsReleased == Spec => []GhostsHeldOnlyAtStart
<1>1. Init => Held
  BY DEF Init, Held, pos, motion
<1>2. Inv /\ Held /\ [Next]_vars => Held'
  BY NextHeld
<1>3. Held => GhostsHeldOnlyAtStart
  BY DEF Held, GhostsHeldOnlyAtStart
<1> QED
  BY <1>1, <1>2, <1>3, Invariance, PTL DEF Spec

LEMMA NextFacing == FacesItsMotion /\ [Next]_vars => FacesItsMotion'
<1> SUFFICES ASSUME FacesItsMotion, [Next]_vars
             PROVE  FacesItsMotion'
  OBVIOUS
<1> USE DEF FacesItsMotion, motion
<1>1. CASE ToCenter
  BY <1>1 DEF ToCenter
<1>2. CASE Halt
  BY <1>2 DEF Halt
<1>3. ASSUME NEW keycode \in Keycodes, Move(keycode)
      PROVE  FacesItsMotion'
  BY <1>3 DEF Move, Steer, Turn
<1>4. CASE UNCHANGED vars
  BY <1>4 DEF vars
<1> QED
  BY <1>1, <1>2, <1>3, <1>4, StepKinds

\* The register that the color mapper draws from agrees with the motion.
THEOREM Facing == Spec => []FacesItsMotion
<1>1. Init => FacesItsMotion
  BY DEF Init, FacesItsMotion, motion
<1> QED
  BY <1>1, NextFacing, PTL DEF Spec
-----------------------------------------------------------------------------
(* The player in the game.                                                *)

\* A tick with the wires of the rules is a tick of the player's own.
LEMMA PlayerSteps ==
  ASSUME NEW keycode \in Keycodes, PlayerTick(keycode)
  PROVE  Next
<1>1. CASE ToCenter
  BY <1>1 DEF Next, Reset
<1>2. CASE Halt
  <2>1. Freeze(TRUE, FALSE)
    BY <1>2 DEF Freeze
  <2> QED
    BY <2>1 DEF Next, Tick
<1>3. CASE Move(keycode)
  <2>1. Playing(FALSE, FALSE, FALSE, FALSE)
    BY DEF Playing
  <2> QED
    BY <1>3, <2>1 DEF Next, Tick
<1> QED
  BY <1>1, <1>2, <1>3 DEF PlayerTick, Freeze, LoseLife, Stop

LEMMA GameSteps == [GameNext]_game => [Next]_vars
<1> SUFFICES ASSUME [GameNext]_game
             PROVE  [Next]_vars
  OBVIOUS
<1>1. CASE GameReset
  BY <1>1 DEF GameReset, Next
<1>2. CASE \E keycode \in Keycodes : GameTick(keycode)
  BY <1>2, PlayerSteps DEF GameTick
<1>3. CASE UNCHANGED game
  BY <1>3 DEF game, player
<1> QED
  BY <1>1, <1>2, <1>3 DEF GameNext

\* Whatever the ghosts and the rules do, the player moves as Pacman describes.
THEOREM PlayerInGame == GameSpec => Spec
<1>1. GameInit => Init
  BY DEF GameInit
<1> QED
  BY <1>1, GameSteps, PTL DEF GameSpec, Spec

\* In a game, too, no pixel of the player is ever over a wall.
THEOREM WallSafetyInGame == GameSpec => []NeverInWall
  BY PlayerInGame, WallSafety, PTL

\* In a game the player always obeys the next key, and the rules never address
\* a dot that does not exist.
THEOREM PlayerFreeInGame == GameSpec => [](NeverWedged /\ DotIndexInRange)
  BY PlayerInGame, Responsive, DotsInBounds, PTL

-----------------------------------------------------------------------------
(* What the rules see.                                                     *)

LEMMA CellOnBoard == Inv => OnBoard /\ DotAt(pos) \in Dots
<1> SUFFICES ASSUME Inv
             PROVE  OnBoard /\ DotAt(pos) \in Dots
  OBVIOUS
<1>1. BallX \in Nat /\ BallY \in Nat
  BY DEF Inv, TypeOK, Coordinate
<1>2. /\ Block <= BallX /\ BallX + 8 < 7 * Block
      /\ Block <= BallY /\ BallY + 8 < 7 * Block
  BY <1>1, FreeInside DEF Inv, NeverInWall
<1>3. OnBoard
  BY <1>1, <1>2, MazeAssumption DEF OnBoard
<1>4. DotIndex(BallX) \in 0..(6 * Block) \div 8 - 1
  BY <1>1, <1>2, MazeAssumption DEF DotIndex
<1>5. DotIndex(BallY) \in 0..(6 * Block) \div 8 - 1
  BY <1>1, <1>2, MazeAssumption DEF DotIndex
<1> QED
  BY <1>3, <1>4, <1>5 DEF DotAt, Dots, pos

LEMMA FruitKnown == ASSUME NEW p PROVE FruitAt(p) \in Fruits \cup {NoFruit}
  BY DEF FruitAt

GhostsHome == \A c \in Colours : /\ GhostPosition[c][1] = Home[c][1]
                                 /\ GhostPosition[c][2] = Home[c][2]

LEMMA Apart == pos = Center /\ GhostsHome => near = {}
  BY BoardAssumption DEF near, GhostsHome, Touches, distance

LEMMA NoFruitAtCenter == FruitAt(Center) = NoFruit
  BY BoardAssumption DEF FruitAt

-----------------------------------------------------------------------------
LEMMA GhostsStart == GhostsInit => GhostsHome
  BY DEF GhostsInit, GhostsHome, GhostPosition, Colours

LEMMA GhostsReturn ==
  Red!GoHome /\ Green!GoHome /\ Aqua!GoHome => GhostsHome'
  BY DEF Red!GoHome, Green!GoHome, Aqua!GoHome, GhostsHome, GhostPosition, Colours

LEMMA GhostsStay ==
  Red!Halt /\ Green!Halt /\ Aqua!Halt => GhostPosition' = GhostPosition
  BY DEF Red!Halt, Green!Halt, Aqua!Halt, GhostPosition

LEMMA SpritesStay ==
  pos' = pos /\ GhostPosition' = GhostPosition =>
    near' = near /\ FruitAt(pos)' = FruitAt(pos) /\ DotAt(pos)' = DotAt(pos)
  BY DEF near, FruitAt, DotAt

-----------------------------------------------------------------------------
LEMMA InitRulesInit == GameInit => Rules!Init
<1> SUFFICES ASSUME GameInit
             PROVE  Rules!Init
  OBVIOUS
<1>1. pos = Center /\ hasMoved = 0
  BY DEF GameInit, Init, pos, Center
<1>2. near = {}
  BY <1>1, GhostsStart, Apart DEF GameInit
<1>3. FruitAt(pos) = NoFruit /\ DotAt(pos) = DotAt(Center)
  BY <1>1, NoFruitAtCenter
<1> QED
  BY <1>1, <1>2, <1>3 DEF GameInit, Rules!Init

LEMMA PlayerReturns == ToCenter => pos' = Center /\ hasMoved' = 0
  BY DEF ToCenter, pos, Center

LEMMA EveryoneReturns ==
  ASSUME ToCenter, Red!GoHome, Green!GoHome, Aqua!GoHome
  PROVE  Rules!GoHome
<1>1. pos' = Center /\ hasMoved' = 0
  BY PlayerReturns
<1>2. GhostsHome'
  BY GhostsReturn
<1>3. near' = {}
  BY <1>1, <1>2, BoardAssumption DEF near, GhostsHome, Touches, distance
<1>4. FruitAt(pos)' = NoFruit /\ DotAt(pos)' = DotAt(Center)
  <2>1. FruitAt(pos') = NoFruit
    BY <1>1, NoFruitAtCenter
  <2>2. DotAt(pos') = DotAt(Center)
    BY <1>1
  <2> QED
    BY <2>1, <2>2 DEF FruitAt, DotAt
<1> QED
  BY <1>1, <1>3, <1>4 DEF Rules!GoHome

LEMMA ResetStep == GameReset => Rules!Reset
  BY EveryoneReturns DEF GameReset, Reset, Rules!Reset

-----------------------------------------------------------------------------
(* One tick: the sprites do what the abstract Sprites allow.               *)

LEMMA PlayerAtRest ==
  ASSUME Inv, Held, hasMoved = 0, NEW keycode \in Keycodes, Move(keycode)
  PROVE  pos' = pos
<1>1. pos = <<CenterX, CenterY>> /\ Ball_X_Motion = 0 /\ Ball_Y_Motion = 0
  BY DEF Held, motion
<1>2. Add10(CenterX, 0) = CenterX /\ Add10(CenterY, 0) = CenterY
  BY CenterFree DEF Add10, Coordinate
<1> QED
  BY <1>1, <1>2 DEF Move, Advance, pos

LEMMA HaltStays == Halt => pos' = pos /\ hasMoved' = hasMoved
  BY DEF Halt, pos

LEMMA SpritesStep ==
  ASSUME Inv, Inv', Held, NEW keycode \in Keycodes,
         PlayerTick(keycode), GhostTicks
  PROVE  Rules!Sprites
<1> USE DEF GhostTicks, GhostTick, PlayerTick
<1>1. near' \in SUBSET Colours
  BY DEF near
<1>2. FruitAt(pos)' \in Fruits \cup {NoFruit}
  BY FruitKnown DEF FruitAt
<1>3. DotAt(pos)' \in Dots
  <2>1. Inv' => (OnBoard /\ DotAt(pos) \in Dots)'
    BY CellOnBoard, PTL
  <2> QED
    BY <2>1
<1>4. hasMoved \in 0..1 /\ hasMoved' \in 0..1
  BY DEF Inv, TypeOK
<1>5. CASE death
  <2>1. Halt /\ Red!Halt /\ Green!Halt /\ Aqua!Halt
    BY <1>5 DEF Freeze, LoseLife, Playing
  <2> QED
    BY <1>5, <2>1, HaltStays, GhostsStay, SpritesStay
    DEF Rules!Sprites, Rules!SpritesFrozen, Rules!sprites
<1>6. CASE ~death /\ Rules!isDefeated /\ ~Rules!victory
  <2>1. ToCenter
    BY <1>6 DEF Freeze, LoseLife, Playing, Rules!isDefeated
  <2>2. Red!GoHome /\ Green!GoHome /\ Aqua!GoHome
    BY <1>6
  <2> QED
    BY <1>6, <2>1, <2>2, EveryoneReturns DEF Rules!Sprites, Rules!SpritesGoHome
<1>7. CASE ~death /\ Rules!isDefeated /\ Rules!victory
  <2>1. Halt
    BY <1>7 DEF Freeze, LoseLife, Playing
  <2>2. FruitAt(pos)' = FruitAt(pos) /\ DotAt(pos)' = DotAt(pos)
    BY <2>1, HaltStays DEF FruitAt, DotAt
  <2> QED
    BY <1>1, <1>7, <2>1, <2>2, HaltStays DEF Rules!Sprites, Rules!GhostsGoHome
<1>8. CASE ~death /\ ~Rules!isDefeated /\ hasMoved = 0
  <2>1. GhostPosition' = GhostPosition
    BY <1>8, GhostsStay
  <2>2. pos' = pos
    BY <1>8, HaltStays, PlayerAtRest DEF Freeze, LoseLife, Playing, Stop
  <2>3. Rules!victory => hasMoved' = 0
    BY <1>8, HaltStays DEF Freeze, LoseLife, Playing
  <2>4. UNCHANGED <<near, FruitAt(pos), DotAt(pos)>>
    BY <2>1, <2>2, SpritesStay
  <2>5. (hasMoved = 1)' \in (IF Rules!victory THEN {FALSE} ELSE BOOLEAN)
    <3>1. CASE Rules!victory
      <4>1. (hasMoved = 1)' = FALSE
        BY <2>3, <3>1
      <4> QED
        BY <3>1, <4>1, Zenon
    <3>2. CASE ~Rules!victory
      <4>1. (hasMoved = 1)' \in BOOLEAN
        BY Zenon
      <4> QED
        BY <3>2, <4>1, Zenon
    <3> QED
      BY <3>1, <3>2
  <2>6. ~(hasMoved = 1)
    BY <1>8
  <2>7. Rules!SpritesWait
    BY <1>8, <2>4, <2>5, <2>6, Zenon DEF Rules!SpritesWait
  <2> QED
    BY <2>7, Zenon DEF Rules!Sprites
<1>9. CASE ~death /\ ~Rules!isDefeated /\ hasMoved = 1 /\ Rules!victory
  <2>1. Halt
    BY <1>9 DEF Freeze, LoseLife, Playing
  <2>2. FruitAt(pos)' = FruitAt(pos) /\ DotAt(pos)' = DotAt(pos)
    BY <2>1, HaltStays DEF FruitAt, DotAt
  <2> QED
    BY <1>1, <1>9, <2>1, <2>2, HaltStays DEF Rules!Sprites, Rules!GhostsMove
<1>10. CASE ~death /\ ~Rules!isDefeated /\ hasMoved = 1 /\ ~Rules!victory
  <2>1. Stop \/ Move(keycode)
    BY <1>10 DEF Freeze, LoseLife, Playing
  <2>2. hasMoved' = 1
    BY <1>10, <2>1, HaltStays DEF Stop, Move, Steer, Turn
  <2> QED
    BY <1>1, <1>2, <1>3, <1>10, <2>2 DEF Rules!Sprites, Rules!SpritesMove
<1> QED
  BY <1>4, <1>5, <1>6, <1>7, <1>8, <1>9, <1>10

LEMMA TickStep ==
  ASSUME Inv, Inv', Held, NEW keycode \in Keycodes, GameTick(keycode)
  PROVE  Rules!Tick
<1>1. Rules!EatDots
  BY CellOnBoard DEF GameTick, DotsTick
<1>2. Rules!Sprites
  BY SpritesStep DEF GameTick
<1> QED
  BY <1>1, <1>2 DEF GameTick, Rules!Tick

LEMMA RulesStep ==
  Inv /\ Inv' /\ Held /\ [GameNext]_game => [Rules!Next]_(Rules!vars)
<1> SUFFICES ASSUME Inv, Inv', Held, [GameNext]_game
             PROVE  [Rules!Next]_(Rules!vars)
  OBVIOUS
<1>1. CASE GameReset
  BY <1>1, ResetStep DEF Rules!Next
<1>2. CASE \E keycode \in Keycodes : GameTick(keycode)
  BY <1>2, TickStep DEF Rules!Next
<1>3. CASE UNCHANGED game
  <2>1. pos' = pos /\ GhostPosition' = GhostPosition /\ hasMoved' = hasMoved
    BY <1>3 DEF game, player, vars, red, green, aqua, pos, GhostPosition
  <2>2. UNCHANGED rules
    BY <1>3 DEF game
  <2> QED
    BY <2>1, <2>2, SpritesStay DEF rules, Rules!vars, Rules!rules, Rules!sprites
<1> QED
  BY <1>1, <1>2, <1>3 DEF GameNext

\* On every board with a closed border, wherever the ghosts and the fruits are
\* as long as the player starts out of their reach, the game of real positions
\* plays by the abstract rules: GameRules assumes nothing of the sprites that
\* ball.sv and ghost.sv do not do.
THEOREM GameImplementsRules == GameSpec => PlaysByTheRules
<1>1. Init => Inv /\ Held
  BY InitInv DEF Init, Held, pos, motion
<1>2. Spec => [](Inv /\ Held)
  BY <1>1, NextInv, NextHeld, PTL DEF Spec
<1>3. GameSpec => [](Inv /\ Held)
  BY <1>2, PlayerInGame, PTL
<1> QED
  BY <1>3, InitRulesInit, RulesStep, PTL DEF GameSpec, PlaysByTheRules

-----------------------------------------------------------------------------
(* The ghosts in the game.                                                 *)

RedProofs == INSTANCE GhostProofs
  WITH colour <- "red", ghostX <- redX, ghostY <- redY,
       ghostXmotion <- redXmotion, ghostYmotion <- redYmotion,
       PacmanPositions <- Coordinate \X Coordinate, hasMoved <- hasMoved = 1
GreenProofs == INSTANCE GhostProofs
  WITH colour <- "green", ghostX <- greenX, ghostY <- greenY,
       ghostXmotion <- greenXmotion, ghostYmotion <- greenYmotion,
       PacmanPositions <- Coordinate \X Coordinate, hasMoved <- hasMoved = 1
AquaProofs == INSTANCE GhostProofs
  WITH colour <- "aqua", ghostX <- aquaX, ghostY <- aquaY,
       ghostXmotion <- aquaXmotion, ghostYmotion <- aquaYmotion,
       PacmanPositions <- Coordinate \X Coordinate, hasMoved <- hasMoved = 1

LEMMA RedAssumption == RedProofs!GhostAssumption /\ RedProofs!MazeAssumption
<1>1. \A X, Y : RedProofs!InMaze(X, Y) <=> InMaze(X, Y)
  BY DEF RedProofs!InMaze, InMaze
<1>2. \A X, Y : RedProofs!SpriteFree(X, Y) <=> SpriteFree(X, Y)
  BY DEF RedProofs!SpriteFree, RedProofs!CheckWall, RedProofs!Cell,
     SpriteFree, CheckWall, Cell
<1>3. RedProofs!Colours = Colours /\ RedProofs!Coordinate = Coordinate
  BY DEF RedProofs!Colours, Colours, RedProofs!Coordinate, Coordinate
<1>4. <<0, 0>> \in Coordinate \X Coordinate
  BY DEF Coordinate
<1>5. Home \in [Colours -> (0..511) \X (0..511)]
  BY BoardAssumption
<1>6. \A c \in Colours : /\ InMaze(Home[c][1], Home[c][2])
                         /\ SpriteFree(Home[c][1], Home[c][2])
  BY BoardAssumption
<1>7. \A c \in Colours : /\ RedProofs!InMaze(Home[c][1], Home[c][2])
                         /\ RedProofs!SpriteFree(Home[c][1], Home[c][2])
  BY <1>1, <1>2, <1>6, Zenon
<1>8. RedProofs!GhostAssumption
  BY <1>3, <1>4, <1>5, <1>7 DEF RedProofs!GhostAssumption
<1>9. RedProofs!MazeAssumption
  BY MazeAssumption DEF RedProofs!MazeAssumption
<1> QED
  BY <1>8, <1>9

LEMMA GreenAssumption == GreenProofs!GhostAssumption /\ GreenProofs!MazeAssumption
<1>1. \A X, Y : GreenProofs!InMaze(X, Y) <=> InMaze(X, Y)
  BY DEF GreenProofs!InMaze, InMaze
<1>2. \A X, Y : GreenProofs!SpriteFree(X, Y) <=> SpriteFree(X, Y)
  BY DEF GreenProofs!SpriteFree, GreenProofs!CheckWall, GreenProofs!Cell,
     SpriteFree, CheckWall, Cell
<1>3. GreenProofs!Colours = Colours /\ GreenProofs!Coordinate = Coordinate
  BY DEF GreenProofs!Colours, Colours, GreenProofs!Coordinate, Coordinate
<1>4. <<0, 0>> \in Coordinate \X Coordinate
  BY DEF Coordinate
<1>5. Home \in [Colours -> (0..511) \X (0..511)]
  BY BoardAssumption
<1>6. \A c \in Colours : /\ InMaze(Home[c][1], Home[c][2])
                         /\ SpriteFree(Home[c][1], Home[c][2])
  BY BoardAssumption
<1>7. \A c \in Colours : /\ GreenProofs!InMaze(Home[c][1], Home[c][2])
                         /\ GreenProofs!SpriteFree(Home[c][1], Home[c][2])
  BY <1>1, <1>2, <1>6, Zenon
<1>8. GreenProofs!GhostAssumption
  BY <1>3, <1>4, <1>5, <1>7 DEF GreenProofs!GhostAssumption
<1>9. GreenProofs!MazeAssumption
  BY MazeAssumption DEF GreenProofs!MazeAssumption
<1> QED
  BY <1>8, <1>9

LEMMA AquaAssumption == AquaProofs!GhostAssumption /\ AquaProofs!MazeAssumption
<1>1. \A X, Y : AquaProofs!InMaze(X, Y) <=> InMaze(X, Y)
  BY DEF AquaProofs!InMaze, InMaze
<1>2. \A X, Y : AquaProofs!SpriteFree(X, Y) <=> SpriteFree(X, Y)
  BY DEF AquaProofs!SpriteFree, AquaProofs!CheckWall, AquaProofs!Cell,
     SpriteFree, CheckWall, Cell
<1>3. AquaProofs!Colours = Colours /\ AquaProofs!Coordinate = Coordinate
  BY DEF AquaProofs!Colours, Colours, AquaProofs!Coordinate, Coordinate
<1>4. <<0, 0>> \in Coordinate \X Coordinate
  BY DEF Coordinate
<1>5. Home \in [Colours -> (0..511) \X (0..511)]
  BY BoardAssumption
<1>6. \A c \in Colours : /\ InMaze(Home[c][1], Home[c][2])
                         /\ SpriteFree(Home[c][1], Home[c][2])
  BY BoardAssumption
<1>7. \A c \in Colours : /\ AquaProofs!InMaze(Home[c][1], Home[c][2])
                         /\ AquaProofs!SpriteFree(Home[c][1], Home[c][2])
  BY <1>1, <1>2, <1>6, Zenon
<1>8. AquaProofs!GhostAssumption
  BY <1>3, <1>4, <1>5, <1>7 DEF AquaProofs!GhostAssumption
<1>9. AquaProofs!MazeAssumption
  BY MazeAssumption DEF AquaProofs!MazeAssumption
<1> QED
  BY <1>8, <1>9

\* What the ghosts rely on in the rest of the game.
Registers == /\ lives \in 0..2 /\ death \in BOOLEAN /\ (death => lives = 0)
             /\ enabled \subseteq Colours /\ reversal \in BOOLEAN

LEMMA InitRegisters == GameInit => Registers
<1> USE DEF GameInit, Rules!InitRules, Rules!StartLives
<1>1. GameInit => lives \in 0..2
  OBVIOUS
<1>2. GameInit => death \in BOOLEAN /\ (death => lives = 0)
  OBVIOUS
<1>3. GameInit => enabled \subseteq Colours
  OBVIOUS
<1>4. GameInit => reversal \in BOOLEAN
  OBVIOUS
<1> QED
  BY <1>1, <1>2, <1>3, <1>4 DEF Registers

LEMMA NextRegisters == Registers /\ [GameNext]_game => Registers'
<1> SUFFICES ASSUME Registers, [GameNext]_game
             PROVE  Registers'
  OBVIOUS
<1>1. CASE GameReset
  <2> USE <1>1 DEF GameReset, Rules!ResetRules, Rules!StartLives
  <2>1. lives' \in 0..2
    OBVIOUS
  <2>2. death' \in BOOLEAN /\ (death' => lives' = 0)
    OBVIOUS
  <2>3. enabled' \subseteq Colours
    OBVIOUS
  <2>4. reversal' \in BOOLEAN
    BY DEF Registers
  <2> QED
    BY <2>1, <2>2, <2>3, <2>4 DEF Registers
<1>2. CASE \E keycode \in Keycodes : GameTick(keycode)
  <2>1. Rules!Lives /\ Rules!Reversal
    BY <1>2 DEF GameTick
  <2>2. lives' \in 0..2
    BY <2>1 DEF Rules!Lives, Registers
  <2>3. death' \in BOOLEAN
    BY <2>1 DEF Rules!Lives, Registers
  <2>4. death' => lives' = 0
    <3>1. lives = 0 => lives' = 0
      BY <2>1 DEF Rules!Lives
    <3>2. lives > 0 => death' = death
      BY <2>1 DEF Rules!Lives
    <3>3. lives = 0 \/ (lives > 0 /\ ~death)
      BY DEF Registers
    <3> QED
      BY <3>1, <3>2, <3>3, Zenon
  <2>5. enabled' \subseteq Colours
    BY <2>1 DEF Rules!Lives, Registers
  <2>6. reversal' \in BOOLEAN
    BY <2>1 DEF Rules!Reversal, Rules!EndReversal, Rules!CountReversal,
       Rules!EatFruit, Registers
  <2> QED
    BY <2>2, <2>3, <2>4, <2>5, <2>6 DEF Registers
<1>3. CASE UNCHANGED game
  BY <1>3 DEF game, rules, Registers
<1> QED
  BY <1>1, <1>2, <1>3 DEF GameNext

\* The wires of the player and the rules in a tick, as the ghosts see them.
LEMMA TickWires ==
  ASSUME Inv, Registers, NEW keycode \in Keycodes, GameTick(keycode)
  PROVE  /\ death' \in BOOLEAN /\ hasMoved \in 0..1
         /\ death => death' = death /\ hasMoved' = hasMoved
         /\ ~death /\ Rules!isDefeated => hasMoved' = 0 \/ hasMoved' = hasMoved
         /\ ~death /\ ~Rules!isDefeated /\ hasMoved = 1 => hasMoved' = 1
<1> USE DEF GameTick, PlayerTick
<1>1. death' \in BOOLEAN /\ (death => death' = death) /\ hasMoved \in 0..1
  BY DEF Rules!Lives, Registers, Inv, TypeOK
<1>2. death => hasMoved' = hasMoved
  BY HaltStays DEF Freeze, LoseLife, Playing
<1>3. ~death /\ Rules!isDefeated => hasMoved' = 0 \/ hasMoved' = hasMoved
  BY HaltStays, PlayerReturns DEF Freeze, LoseLife, Playing, Rules!isDefeated
<1>4. ~death /\ ~Rules!isDefeated /\ hasMoved = 1 => hasMoved' = 1
  BY HaltStays DEF Freeze, LoseLife, Playing, Stop, Move, Steer, Turn
<1> QED
  BY <1>1, <1>2, <1>3, <1>4

\* The ghost of the game and the ghost of the proofs decide alike.
LEMMA RedChooses ==
  ASSUME NEW p, NEW r
  PROVE  Red!direction(p, r) = RedProofs!direction(p, r)
<1> DEFINE d == Red!distances(p)
<1>1. /\ Red!Directions = RedProofs!Directions
      /\ Red!Right = RedProofs!Right /\ Red!Down = RedProofs!Down
      /\ Red!Left = RedProofs!Left /\ Red!Up = RedProofs!Up
      /\ Red!NoDirection = RedProofs!NoDirection
  BY DEF Red!Directions, Red!Right, Red!Down, Red!Left, Red!Up, Red!NoDirection,
     RedProofs!Directions, RedProofs!Right, RedProofs!Down, RedProofs!Left,
     RedProofs!Up, RedProofs!NoDirection
<1>2. Red!Open = RedProofs!Open
  BY DEF Red!Open, Red!Blocked, Red!Directions, Red!UnitX, Red!UnitY, Red!Unit,
     Red!NegOne, Red!SpriteWall, Red!Add10, Red!Sub10, Red!FarEdge, Red!CheckWall,
     Red!Cell, RedProofs!Open, RedProofs!Blocked, RedProofs!Directions,
     RedProofs!UnitX, RedProofs!UnitY, RedProofs!Unit, RedProofs!NegOne,
     RedProofs!SpriteWall, RedProofs!Add10, RedProofs!Sub10, RedProofs!FarEdge,
     RedProofs!CheckWall, RedProofs!Cell
<1>3. d = RedProofs!distances(p)
  BY DEF Red!distances, Red!Directions, Red!UnitX, Red!UnitY, Red!Unit, Red!NegOne,
     Red!Wrap20, Red!Square20, Red!Offset, RedProofs!distances,
     RedProofs!Directions, RedProofs!UnitX, RedProofs!UnitY, RedProofs!Unit,
     RedProofs!NegOne, RedProofs!Wrap20, RedProofs!Square20, RedProofs!Offset
<1> HIDE DEF d
<1>4. Red!findMinFour(d, r) = RedProofs!findMinFour(d, r)
  BY <1>1 DEF Red!findMinFour, RedProofs!findMinFour
<1>5. \A dirs, order : Red!First(dirs, order) = RedProofs!First(dirs, order)
  BY DEF Red!First, RedProofs!First
<1>6. \A n : Red!Square20(n) = RedProofs!Square20(n)
  BY DEF Red!Square20, Red!Wrap20, RedProofs!Square20, RedProofs!Wrap20
<1> DEFINE best == Red!findMinFour(d, r)
<1> HIDE DEF best
<1>7. Red!Detour(d, best) = RedProofs!Detour(d, best)
  BY <1>1, <1>2, <1>5, <1>6 DEF Red!Detour, RedProofs!Detour
<1> QED
  BY <1>1, <1>2, <1>3, <1>4, <1>5, <1>7 DEF Red!direction, RedProofs!direction, d, best

LEMMA RedPursues ==
  ASSUME NEW p, NEW r, Red!Pursue(p, r)
  PROVE  RedProofs!Pursue(p, r)
<1>1. \A dir : Red!MotionOf(dir) = RedProofs!MotionOf(dir)
  BY DEF Red!MotionOf, Red!Directions, Red!Unit, Red!NegOne,
     RedProofs!MotionOf, RedProofs!Directions, RedProofs!Unit, RedProofs!NegOne
<1>2. Red!MotionOf(Red!direction(p, r)) = RedProofs!MotionOf(RedProofs!direction(p, r))
  BY <1>1, RedChooses
<1>3. /\ redX' = RedProofs!Add10(redX, redXmotion)
      /\ redY' = RedProofs!Add10(redY, redYmotion)
  BY DEF Red!Pursue, Red!Add10, RedProofs!Add10
<1> QED
  BY <1>2, <1>3 DEF Red!Pursue, RedProofs!Pursue

LEMMA RedInit == GameInit => RedProofs!Init
<1> SUFFICES ASSUME GameInit
             PROVE  RedProofs!Init
  OBVIOUS
<1>1. (hasMoved = 1) = FALSE /\ death = FALSE
  BY DEF GameInit, Init, Rules!InitRules
<1> QED
  BY <1>1 DEF GameInit, GhostsInit, RedProofs!Init, RedProofs!Colours

LEMMA RedTick ==
  ASSUME Inv, Registers, NEW keycode \in Keycodes, GameTick(keycode)
  PROVE  RedProofs!Tick
<1>1. GhostTick(Red!Halt, Red!GoHome, Red!Pursue(pos, reversal))
  BY DEF GameTick, GhostTicks
<1>2. CASE death /\ Red!Halt
  <2>1. hasMoved' = hasMoved /\ death' = death
    BY <1>2, TickWires
  <2> QED
    BY <1>2, <2>1 DEF Red!Halt, RedProofs!Halt, RedProofs!Freeze, RedProofs!Tick
<1>3. CASE ~death /\ Rules!isDefeated /\ Red!GoHome
  <2>1. death' \in BOOLEAN /\ (hasMoved' = 0 \/ hasMoved' = hasMoved)
    BY <1>3, TickWires
  <2>2. hasMoved' = 0 => (hasMoved = 1)' = FALSE
    OBVIOUS
  <2>3. hasMoved' = hasMoved => (hasMoved = 1)' = (hasMoved = 1)
    BY Zenon
  <2>4. (hasMoved = 1)' \in {FALSE, hasMoved = 1}
    BY <2>1, <2>2, <2>3, Zenon
  <2>5. RedProofs!GoHome
    BY <1>3 DEF Red!GoHome, RedProofs!GoHome
  <2>6. RedProofs!Caught
    BY <1>3, <2>1, <2>4, <2>5, Zenon DEF RedProofs!Caught
  <2> QED
    BY <2>6, Zenon DEF RedProofs!Tick
<1>4. CASE ~death /\ ~Rules!isDefeated /\ hasMoved = 0 /\ Red!Halt
  <2>1. death' \in BOOLEAN
    BY TickWires
  <2>2. (hasMoved = 1)' \in BOOLEAN
    BY Zenon
  <2>3. ~(hasMoved = 1)
    BY <1>4
  <2>4. RedProofs!Halt
    BY <1>4 DEF Red!Halt, RedProofs!Halt
  <2>5. RedProofs!Wait
    BY <1>4, <2>1, <2>2, <2>3, <2>4, Zenon DEF RedProofs!Wait
  <2> QED
    BY <2>5, Zenon DEF RedProofs!Tick
<1>5. CASE ~death /\ ~Rules!isDefeated /\ hasMoved = 1 /\ Red!Pursue(pos, reversal)
  <2>1. death' \in BOOLEAN /\ hasMoved' = 1
    BY <1>5, TickWires
  <2>2. pos \in Coordinate \X Coordinate /\ reversal \in BOOLEAN
    BY DEF Inv, TypeOK, pos, Registers
  <2>3. RedProofs!Pursue(pos, reversal)
    BY <1>5, RedPursues
  <2>4. (hasMoved = 1)' = (hasMoved = 1) /\ (hasMoved = 1)
    BY <1>5, <2>1
  <2>5. RedProofs!Chase
    BY <1>5, <2>1, <2>2, <2>3, <2>4, Zenon DEF RedProofs!Chase
  <2> QED
    BY <2>5, Zenon DEF RedProofs!Tick
<1> QED
  BY <1>1, <1>2, <1>3, <1>4, <1>5, TickWires DEF GhostTick

LEMMA RedStep ==
  Inv /\ Registers /\ [GameNext]_game => [RedProofs!Next]_(RedProofs!vars)
<1> SUFFICES ASSUME Inv, Registers, [GameNext]_game
             PROVE  [RedProofs!Next]_(RedProofs!vars)
  OBVIOUS
<1>1. CASE GameReset
  <2>1. (hasMoved = 1)' = FALSE /\ death' = FALSE /\ Red!GoHome
    BY <1>1 DEF GameReset, Reset, ToCenter, Rules!ResetRules
  <2> QED
    BY <2>1 DEF Red!GoHome, RedProofs!GoHome, RedProofs!Reset, RedProofs!Next
<1>2. CASE \E keycode \in Keycodes : GameTick(keycode)
  BY <1>2, RedTick DEF RedProofs!Next
<1>3. CASE UNCHANGED game
  <2>1. UNCHANGED <<red, death, hasMoved>>
    BY <1>3 DEF game, player, vars, rules
  <2> QED
    BY <2>1 DEF red, RedProofs!vars, RedProofs!ghost
<1> QED
  BY <1>1, <1>2, <1>3 DEF GameNext

\* The ghost of the game and the ghost of the proofs decide alike.
LEMMA GreenChooses ==
  ASSUME NEW p, NEW r
  PROVE  Green!direction(p, r) = GreenProofs!direction(p, r)
<1> DEFINE d == Green!distances(p)
<1>1. /\ Green!Directions = GreenProofs!Directions
      /\ Green!Right = GreenProofs!Right /\ Green!Down = GreenProofs!Down
      /\ Green!Left = GreenProofs!Left /\ Green!Up = GreenProofs!Up
      /\ Green!NoDirection = GreenProofs!NoDirection
  BY DEF Green!Directions, Green!Right, Green!Down, Green!Left, Green!Up, Green!NoDirection,
     GreenProofs!Directions, GreenProofs!Right, GreenProofs!Down, GreenProofs!Left,
     GreenProofs!Up, GreenProofs!NoDirection
<1>2. Green!Open = GreenProofs!Open
  BY DEF Green!Open, Green!Blocked, Green!Directions, Green!UnitX, Green!UnitY, Green!Unit,
     Green!NegOne, Green!SpriteWall, Green!Add10, Green!Sub10, Green!FarEdge, Green!CheckWall,
     Green!Cell, GreenProofs!Open, GreenProofs!Blocked, GreenProofs!Directions,
     GreenProofs!UnitX, GreenProofs!UnitY, GreenProofs!Unit, GreenProofs!NegOne,
     GreenProofs!SpriteWall, GreenProofs!Add10, GreenProofs!Sub10, GreenProofs!FarEdge,
     GreenProofs!CheckWall, GreenProofs!Cell
<1>3. d = GreenProofs!distances(p)
  BY DEF Green!distances, Green!Directions, Green!UnitX, Green!UnitY, Green!Unit, Green!NegOne,
     Green!Wrap20, Green!Square20, Green!Offset, GreenProofs!distances,
     GreenProofs!Directions, GreenProofs!UnitX, GreenProofs!UnitY, GreenProofs!Unit,
     GreenProofs!NegOne, GreenProofs!Wrap20, GreenProofs!Square20, GreenProofs!Offset
<1> HIDE DEF d
<1>4. Green!findMinFour(d, r) = GreenProofs!findMinFour(d, r)
  BY <1>1 DEF Green!findMinFour, GreenProofs!findMinFour
<1>5. \A dirs, order : Green!First(dirs, order) = GreenProofs!First(dirs, order)
  BY DEF Green!First, GreenProofs!First
<1>6. \A n : Green!Square20(n) = GreenProofs!Square20(n)
  BY DEF Green!Square20, Green!Wrap20, GreenProofs!Square20, GreenProofs!Wrap20
<1> DEFINE best == Green!findMinFour(d, r)
<1> HIDE DEF best
<1>7. Green!Detour(d, best) = GreenProofs!Detour(d, best)
  BY <1>1, <1>2, <1>5, <1>6 DEF Green!Detour, GreenProofs!Detour
<1> QED
  BY <1>1, <1>2, <1>3, <1>4, <1>5, <1>7 DEF Green!direction, GreenProofs!direction, d, best

LEMMA GreenPursues ==
  ASSUME NEW p, NEW r, Green!Pursue(p, r)
  PROVE  GreenProofs!Pursue(p, r)
<1>1. \A dir : Green!MotionOf(dir) = GreenProofs!MotionOf(dir)
  BY DEF Green!MotionOf, Green!Directions, Green!Unit, Green!NegOne,
     GreenProofs!MotionOf, GreenProofs!Directions, GreenProofs!Unit, GreenProofs!NegOne
<1>2. Green!MotionOf(Green!direction(p, r)) = GreenProofs!MotionOf(GreenProofs!direction(p, r))
  BY <1>1, GreenChooses
<1>3. /\ greenX' = GreenProofs!Add10(greenX, greenXmotion)
      /\ greenY' = GreenProofs!Add10(greenY, greenYmotion)
  BY DEF Green!Pursue, Green!Add10, GreenProofs!Add10
<1> QED
  BY <1>2, <1>3 DEF Green!Pursue, GreenProofs!Pursue

LEMMA GreenInit == GameInit => GreenProofs!Init
<1> SUFFICES ASSUME GameInit
             PROVE  GreenProofs!Init
  OBVIOUS
<1>1. (hasMoved = 1) = FALSE /\ death = FALSE
  BY DEF GameInit, Init, Rules!InitRules
<1> QED
  BY <1>1 DEF GameInit, GhostsInit, GreenProofs!Init, GreenProofs!Colours

LEMMA GreenTick ==
  ASSUME Inv, Registers, NEW keycode \in Keycodes, GameTick(keycode)
  PROVE  GreenProofs!Tick
<1>1. GhostTick(Green!Halt, Green!GoHome, Green!Pursue(pos, reversal))
  BY DEF GameTick, GhostTicks
<1>2. CASE death /\ Green!Halt
  <2>1. hasMoved' = hasMoved /\ death' = death
    BY <1>2, TickWires
  <2> QED
    BY <1>2, <2>1 DEF Green!Halt, GreenProofs!Halt, GreenProofs!Freeze, GreenProofs!Tick
<1>3. CASE ~death /\ Rules!isDefeated /\ Green!GoHome
  <2>1. death' \in BOOLEAN /\ (hasMoved' = 0 \/ hasMoved' = hasMoved)
    BY <1>3, TickWires
  <2>2. hasMoved' = 0 => (hasMoved = 1)' = FALSE
    OBVIOUS
  <2>3. hasMoved' = hasMoved => (hasMoved = 1)' = (hasMoved = 1)
    BY Zenon
  <2>4. (hasMoved = 1)' \in {FALSE, hasMoved = 1}
    BY <2>1, <2>2, <2>3, Zenon
  <2>5. GreenProofs!GoHome
    BY <1>3 DEF Green!GoHome, GreenProofs!GoHome
  <2>6. GreenProofs!Caught
    BY <1>3, <2>1, <2>4, <2>5, Zenon DEF GreenProofs!Caught
  <2> QED
    BY <2>6, Zenon DEF GreenProofs!Tick
<1>4. CASE ~death /\ ~Rules!isDefeated /\ hasMoved = 0 /\ Green!Halt
  <2>1. death' \in BOOLEAN
    BY TickWires
  <2>2. (hasMoved = 1)' \in BOOLEAN
    BY Zenon
  <2>3. ~(hasMoved = 1)
    BY <1>4
  <2>4. GreenProofs!Halt
    BY <1>4 DEF Green!Halt, GreenProofs!Halt
  <2>5. GreenProofs!Wait
    BY <1>4, <2>1, <2>2, <2>3, <2>4, Zenon DEF GreenProofs!Wait
  <2> QED
    BY <2>5, Zenon DEF GreenProofs!Tick
<1>5. CASE ~death /\ ~Rules!isDefeated /\ hasMoved = 1 /\ Green!Pursue(pos, reversal)
  <2>1. death' \in BOOLEAN /\ hasMoved' = 1
    BY <1>5, TickWires
  <2>2. pos \in Coordinate \X Coordinate /\ reversal \in BOOLEAN
    BY DEF Inv, TypeOK, pos, Registers
  <2>3. GreenProofs!Pursue(pos, reversal)
    BY <1>5, GreenPursues
  <2>4. (hasMoved = 1)' = (hasMoved = 1) /\ (hasMoved = 1)
    BY <1>5, <2>1
  <2>5. GreenProofs!Chase
    BY <1>5, <2>1, <2>2, <2>3, <2>4, Zenon DEF GreenProofs!Chase
  <2> QED
    BY <2>5, Zenon DEF GreenProofs!Tick
<1> QED
  BY <1>1, <1>2, <1>3, <1>4, <1>5, TickWires DEF GhostTick

LEMMA GreenStep ==
  Inv /\ Registers /\ [GameNext]_game => [GreenProofs!Next]_(GreenProofs!vars)
<1> SUFFICES ASSUME Inv, Registers, [GameNext]_game
             PROVE  [GreenProofs!Next]_(GreenProofs!vars)
  OBVIOUS
<1>1. CASE GameReset
  <2>1. (hasMoved = 1)' = FALSE /\ death' = FALSE /\ Green!GoHome
    BY <1>1 DEF GameReset, Reset, ToCenter, Rules!ResetRules
  <2> QED
    BY <2>1 DEF Green!GoHome, GreenProofs!GoHome, GreenProofs!Reset, GreenProofs!Next
<1>2. CASE \E keycode \in Keycodes : GameTick(keycode)
  BY <1>2, GreenTick DEF GreenProofs!Next
<1>3. CASE UNCHANGED game
  <2>1. UNCHANGED <<green, death, hasMoved>>
    BY <1>3 DEF game, player, vars, rules
  <2> QED
    BY <2>1 DEF green, GreenProofs!vars, GreenProofs!ghost
<1> QED
  BY <1>1, <1>2, <1>3 DEF GameNext

\* The ghost of the game and the ghost of the proofs decide alike.
LEMMA AquaChooses ==
  ASSUME NEW p, NEW r
  PROVE  Aqua!direction(p, r) = AquaProofs!direction(p, r)
<1> DEFINE d == Aqua!distances(p)
<1>1. /\ Aqua!Directions = AquaProofs!Directions
      /\ Aqua!Right = AquaProofs!Right /\ Aqua!Down = AquaProofs!Down
      /\ Aqua!Left = AquaProofs!Left /\ Aqua!Up = AquaProofs!Up
      /\ Aqua!NoDirection = AquaProofs!NoDirection
  BY DEF Aqua!Directions, Aqua!Right, Aqua!Down, Aqua!Left, Aqua!Up, Aqua!NoDirection,
     AquaProofs!Directions, AquaProofs!Right, AquaProofs!Down, AquaProofs!Left,
     AquaProofs!Up, AquaProofs!NoDirection
<1>2. Aqua!Open = AquaProofs!Open
  BY DEF Aqua!Open, Aqua!Blocked, Aqua!Directions, Aqua!UnitX, Aqua!UnitY, Aqua!Unit,
     Aqua!NegOne, Aqua!SpriteWall, Aqua!Add10, Aqua!Sub10, Aqua!FarEdge, Aqua!CheckWall,
     Aqua!Cell, AquaProofs!Open, AquaProofs!Blocked, AquaProofs!Directions,
     AquaProofs!UnitX, AquaProofs!UnitY, AquaProofs!Unit, AquaProofs!NegOne,
     AquaProofs!SpriteWall, AquaProofs!Add10, AquaProofs!Sub10, AquaProofs!FarEdge,
     AquaProofs!CheckWall, AquaProofs!Cell
<1>3. d = AquaProofs!distances(p)
  BY DEF Aqua!distances, Aqua!Directions, Aqua!UnitX, Aqua!UnitY, Aqua!Unit, Aqua!NegOne,
     Aqua!Wrap20, Aqua!Square20, Aqua!Offset, AquaProofs!distances,
     AquaProofs!Directions, AquaProofs!UnitX, AquaProofs!UnitY, AquaProofs!Unit,
     AquaProofs!NegOne, AquaProofs!Wrap20, AquaProofs!Square20, AquaProofs!Offset
<1> HIDE DEF d
<1>4. Aqua!findMinFour(d, r) = AquaProofs!findMinFour(d, r)
  BY <1>1 DEF Aqua!findMinFour, AquaProofs!findMinFour
<1>5. \A dirs, order : Aqua!First(dirs, order) = AquaProofs!First(dirs, order)
  BY DEF Aqua!First, AquaProofs!First
<1>6. \A n : Aqua!Square20(n) = AquaProofs!Square20(n)
  BY DEF Aqua!Square20, Aqua!Wrap20, AquaProofs!Square20, AquaProofs!Wrap20
<1> DEFINE best == Aqua!findMinFour(d, r)
<1> HIDE DEF best
<1>7. Aqua!Detour(d, best) = AquaProofs!Detour(d, best)
  BY <1>1, <1>2, <1>5, <1>6 DEF Aqua!Detour, AquaProofs!Detour
<1> QED
  BY <1>1, <1>2, <1>3, <1>4, <1>5, <1>7 DEF Aqua!direction, AquaProofs!direction, d, best

LEMMA AquaPursues ==
  ASSUME NEW p, NEW r, Aqua!Pursue(p, r)
  PROVE  AquaProofs!Pursue(p, r)
<1>1. \A dir : Aqua!MotionOf(dir) = AquaProofs!MotionOf(dir)
  BY DEF Aqua!MotionOf, Aqua!Directions, Aqua!Unit, Aqua!NegOne,
     AquaProofs!MotionOf, AquaProofs!Directions, AquaProofs!Unit, AquaProofs!NegOne
<1>2. Aqua!MotionOf(Aqua!direction(p, r)) = AquaProofs!MotionOf(AquaProofs!direction(p, r))
  BY <1>1, AquaChooses
<1>3. /\ aquaX' = AquaProofs!Add10(aquaX, aquaXmotion)
      /\ aquaY' = AquaProofs!Add10(aquaY, aquaYmotion)
  BY DEF Aqua!Pursue, Aqua!Add10, AquaProofs!Add10
<1> QED
  BY <1>2, <1>3 DEF Aqua!Pursue, AquaProofs!Pursue

LEMMA AquaInit == GameInit => AquaProofs!Init
<1> SUFFICES ASSUME GameInit
             PROVE  AquaProofs!Init
  OBVIOUS
<1>1. (hasMoved = 1) = FALSE /\ death = FALSE
  BY DEF GameInit, Init, Rules!InitRules
<1> QED
  BY <1>1 DEF GameInit, GhostsInit, AquaProofs!Init, AquaProofs!Colours

LEMMA AquaTick ==
  ASSUME Inv, Registers, NEW keycode \in Keycodes, GameTick(keycode)
  PROVE  AquaProofs!Tick
<1>1. GhostTick(Aqua!Halt, Aqua!GoHome, Aqua!Pursue(pos, reversal))
  BY DEF GameTick, GhostTicks
<1>2. CASE death /\ Aqua!Halt
  <2>1. hasMoved' = hasMoved /\ death' = death
    BY <1>2, TickWires
  <2> QED
    BY <1>2, <2>1 DEF Aqua!Halt, AquaProofs!Halt, AquaProofs!Freeze, AquaProofs!Tick
<1>3. CASE ~death /\ Rules!isDefeated /\ Aqua!GoHome
  <2>1. death' \in BOOLEAN /\ (hasMoved' = 0 \/ hasMoved' = hasMoved)
    BY <1>3, TickWires
  <2>2. hasMoved' = 0 => (hasMoved = 1)' = FALSE
    OBVIOUS
  <2>3. hasMoved' = hasMoved => (hasMoved = 1)' = (hasMoved = 1)
    BY Zenon
  <2>4. (hasMoved = 1)' \in {FALSE, hasMoved = 1}
    BY <2>1, <2>2, <2>3, Zenon
  <2>5. AquaProofs!GoHome
    BY <1>3 DEF Aqua!GoHome, AquaProofs!GoHome
  <2>6. AquaProofs!Caught
    BY <1>3, <2>1, <2>4, <2>5, Zenon DEF AquaProofs!Caught
  <2> QED
    BY <2>6, Zenon DEF AquaProofs!Tick
<1>4. CASE ~death /\ ~Rules!isDefeated /\ hasMoved = 0 /\ Aqua!Halt
  <2>1. death' \in BOOLEAN
    BY TickWires
  <2>2. (hasMoved = 1)' \in BOOLEAN
    BY Zenon
  <2>3. ~(hasMoved = 1)
    BY <1>4
  <2>4. AquaProofs!Halt
    BY <1>4 DEF Aqua!Halt, AquaProofs!Halt
  <2>5. AquaProofs!Wait
    BY <1>4, <2>1, <2>2, <2>3, <2>4, Zenon DEF AquaProofs!Wait
  <2> QED
    BY <2>5, Zenon DEF AquaProofs!Tick
<1>5. CASE ~death /\ ~Rules!isDefeated /\ hasMoved = 1 /\ Aqua!Pursue(pos, reversal)
  <2>1. death' \in BOOLEAN /\ hasMoved' = 1
    BY <1>5, TickWires
  <2>2. pos \in Coordinate \X Coordinate /\ reversal \in BOOLEAN
    BY DEF Inv, TypeOK, pos, Registers
  <2>3. AquaProofs!Pursue(pos, reversal)
    BY <1>5, AquaPursues
  <2>4. (hasMoved = 1)' = (hasMoved = 1) /\ (hasMoved = 1)
    BY <1>5, <2>1
  <2>5. AquaProofs!Chase
    BY <1>5, <2>1, <2>2, <2>3, <2>4, Zenon DEF AquaProofs!Chase
  <2> QED
    BY <2>5, Zenon DEF AquaProofs!Tick
<1> QED
  BY <1>1, <1>2, <1>3, <1>4, <1>5, TickWires DEF GhostTick

LEMMA AquaStep ==
  Inv /\ Registers /\ [GameNext]_game => [AquaProofs!Next]_(AquaProofs!vars)
<1> SUFFICES ASSUME Inv, Registers, [GameNext]_game
             PROVE  [AquaProofs!Next]_(AquaProofs!vars)
  OBVIOUS
<1>1. CASE GameReset
  <2>1. (hasMoved = 1)' = FALSE /\ death' = FALSE /\ Aqua!GoHome
    BY <1>1 DEF GameReset, Reset, ToCenter, Rules!ResetRules
  <2> QED
    BY <2>1 DEF Aqua!GoHome, AquaProofs!GoHome, AquaProofs!Reset, AquaProofs!Next
<1>2. CASE \E keycode \in Keycodes : GameTick(keycode)
  BY <1>2, AquaTick DEF AquaProofs!Next
<1>3. CASE UNCHANGED game
  <2>1. UNCHANGED <<aqua, death, hasMoved>>
    BY <1>3 DEF game, player, vars, rules
  <2> QED
    BY <2>1 DEF aqua, AquaProofs!vars, AquaProofs!ghost
<1> QED
  BY <1>1, <1>2, <1>3 DEF GameNext

\* Both the player and the ghosts keep to their own specifications, whatever the
\* other and the rules do.
GhostsInv == RedProofs!Inv /\ GreenProofs!Inv /\ AquaProofs!Inv

LEMMA InitGhosts == GameInit => GhostsInv
  BY RedInit, GreenInit, AquaInit, RedAssumption, GreenAssumption, AquaAssumption,
     RedProofs!InitInv, GreenProofs!InitInv, AquaProofs!InitInv DEF GhostsInv

LEMMA NextGhosts ==
  Inv /\ Registers /\ GhostsInv /\ [GameNext]_game => GhostsInv'
<1> SUFFICES ASSUME Inv, Registers, GhostsInv, [GameNext]_game
             PROVE  GhostsInv'
  OBVIOUS
<1>1. RedProofs!Inv'
  BY RedStep, RedAssumption, RedProofs!NextInv DEF GhostsInv
<1>2. GreenProofs!Inv'
  BY GreenStep, GreenAssumption, GreenProofs!NextInv DEF GhostsInv
<1>3. AquaProofs!Inv'
  BY AquaStep, AquaAssumption, AquaProofs!NextInv DEF GhostsInv
<1> QED
  BY <1>1, <1>2, <1>3 DEF GhostsInv

-----------------------------------------------------------------------------
(* Two sprites that move by one pixel each.                                *)

\* How the difference of their positions may change on the two axes.
Approaches == {<<0, 0>>, <<1, 0>>, <<-1, 0>>, <<0, 1>>, <<0, -1>>,
               <<2, 0>>, <<-2, 0>>, <<0, 2>>, <<0, -2>>,
               <<1, 1>>, <<1, -1>>, <<-1, 1>>, <<-1, -1>>}

LEMMA SmallRoot ==
  ASSUME NEW p \in Int, p * p < 36
  PROVE  p \in -5..5
<1>1. p >= 6 => p * p >= 36
  <2> SUFFICES ASSUME p >= 6 PROVE p * p >= 36
    OBVIOUS
  <2>1. p * p >= 6 * p
    OBVIOUS
  <2> QED
    BY <2>1
<1>2. p <= -6 => p * p >= 36
  <2> SUFFICES ASSUME p <= -6 PROVE p * p >= 36
    OBVIOUS
  <2>1. (-p) * (-p) >= 6 * (-p)
    OBVIOUS
  <2>2. (-p) * (-p) = p * p
    OBVIOUS
  <2> QED
    BY <2>1, <2>2
<1> QED
  BY <1>1, <1>2

LEMMA SquarePositive == ASSUME NEW p \in Int PROVE p * p >= 0
  OBVIOUS

LEMMA SquareAround ==
  ASSUME NEW p \in -5..5
  PROVE  /\ (p - 0) * (p - 0) = p * p
         /\ (p - 1) * (p - 1) <= p * p + 11
         /\ (p - (-1)) * (p - (-1)) <= p * p + 11
         /\ (p - 2) * (p - 2) <= p * p + 24
         /\ (p - (-2)) * (p - (-2)) <= p * p + 24
  OBVIOUS

LEMMA StillApart ==
  ASSUME NEW a \in Int, NEW b \in Int, NEW m \in Approaches,
         Square(a) + Square(b) >= 64
  PROVE  Square(a + m[1]) + Square(b + m[2]) >= 36
<1> DEFINE p == a + m[1]
           q == b + m[2]
<1> SUFFICES ASSUME Square(p) + Square(q) < 36
             PROVE  FALSE
  BY DEF Square, Approaches
<1>0. m[1] \in -2..2 /\ m[2] \in -2..2
  BY DEF Approaches
<1>1. p \in Int /\ q \in Int /\ a = p - m[1] /\ b = q - m[2]
  BY <1>0
<1> HIDE DEF p, q
<1>2. p * p >= 0 /\ q * q >= 0
  BY <1>1, SquarePositive
<1>3. p \in -5..5 /\ q \in -5..5
  BY <1>1, <1>2, SmallRoot DEF Square
<1>4. /\ m[1] = 0 => a * a = p * p
      /\ m[1] \in {1, -1} => a * a <= p * p + 11
      /\ m[1] \in {2, -2} => a * a <= p * p + 24
  BY <1>1, <1>3, SquareAround
<1>5. /\ m[2] = 0 => b * b = q * q
      /\ m[2] \in {1, -1} => b * b <= q * q + 11
      /\ m[2] \in {2, -2} => b * b <= q * q + 24
  BY <1>1, <1>3, SquareAround
<1> QED
  BY <1>1, <1>2, <1>4, <1>5 DEF Approaches, Square

LEMMA Displacement ==
  ASSUME NEW X \in Int, NEW Y \in Int, NEW U \in Int, NEW V \in Int,
         NEW X2, NEW Y2, NEW U2, NEW V2,
         <<X2, Y2>> \in Near(X, Y), <<U2, V2>> \in Near(U, V)
  PROVE  \E m \in Approaches : X2 - U2 = X - U + m[1] /\ Y2 - V2 = Y - V + m[2]
  BY SMTT(60) DEF Near, Approaches

LEMMA ComesNoNearer ==
  ASSUME NEW X \in Int, NEW Y \in Int, NEW U \in Int, NEW V \in Int,
         NEW X2, NEW Y2, NEW U2, NEW V2,
         <<X2, Y2>> \in Near(X, Y), <<U2, V2>> \in Near(U, V),
         ~Touches(<<X, Y>>, <<U, V>>)
  PROVE  distance(<<X2, Y2>>, <<U2, V2>>) >= 36
<1>1. PICK m \in Approaches : X2 - U2 = X - U + m[1] /\ Y2 - V2 = Y - V + m[2]
  BY Displacement
<1>2. Square(X - U) + Square(Y - V) >= 64
  BY DEF Touches, distance, Square
<1>3. X - U \in Int /\ Y - V \in Int
  OBVIOUS
<1>4. Square(X - U + m[1]) + Square(Y - V + m[2]) >= 36
  BY <1>2, <1>3, StillApart
<1> QED
  BY <1>1, <1>4 DEF distance

-----------------------------------------------------------------------------
(* A touch is noticed at once.                                             *)

InPlay == dots # {} /\ score < WinScore

\* Every point was a dot, so that the 11 bits of the score never overflow and a
\* game that was won stays won.
Account == /\ dots \subseteq Dots /\ score \in Nat
           /\ score + Cardinality(dots) < 2048

\* In the frame after the last life is lost everyone is home.
LastLife == InPlay /\ lives = 0 => near \cap enabled = {} /\ (death \/ hasMoved = 0)

\* The inductive invariant.
TouchInv == /\ Inv /\ Held /\ Registers /\ GhostsInv
            /\ Account /\ LastLife /\ TouchIsNoticed

LEMMA DotsFinite == IsFiniteSet(Dots)
<1> DEFINE n == (6 * Block) \div 8 - 1
<1>1. n \in Int
  BY MazeAssumption
<1>2. IsFiniteSet(0..n)
  BY <1>1, FS_Interval
<1> QED
  BY <1>2, FS_Product DEF Dots

LEMMA InitAccount == GameInit => Account
<1>1. Cardinality(Dots) \in Nat
  BY DotsFinite, FS_CardinalityType
<1> QED
  BY <1>1, BoardAssumption DEF GameInit, Rules!InitRules, Account

LEMMA TickAccount ==
  ASSUME Account, NEW keycode \in Keycodes, GameTick(keycode)
  PROVE  Account' /\ (InPlay' => InPlay)
<1>1. Rules!EatDots \/ UNCHANGED <<dots, score>>
  BY DEF GameTick, DotsTick
<1>2. CASE UNCHANGED <<dots, score>>
  BY <1>2 DEF Account, InPlay
<1>3. CASE DotAt(pos) \in dots /\ Rules!EatDots
  <2> DEFINE d == DotAt(pos)
  <2>1. d \in dots /\ dots' = dots \ {d} /\ score' = (score + 1) % 2048
    BY <1>3 DEF Rules!EatDots
  <2> HIDE DEF d
  <2>2. IsFiniteSet(dots)
    BY DotsFinite, FS_Subset DEF Account
  <2>3. /\ Cardinality(dots) \in Nat /\ Cardinality(dots \ {d}) \in Nat
        /\ Cardinality(dots \ {d}) = Cardinality(dots) - 1
    BY <2>1, <2>2, FS_RemoveElement, FS_CardinalityType
  <2>4. score' = score + 1
    BY <2>1, <2>3 DEF Account
  <2>5. Account'
    BY <2>1, <2>3, <2>4 DEF Account
  <2>6. InPlay' => InPlay
    BY <2>1, <2>4, BoardAssumption DEF Account, InPlay
  <2> QED
    BY <2>5, <2>6
<1> QED
  BY <1>1, <1>2, <1>3 DEF Rules!EatDots

LEMMA NextAccount == Account /\ [GameNext]_game => Account'
<1> SUFFICES ASSUME Account, [GameNext]_game
             PROVE  Account'
  OBVIOUS
<1>1. CASE GameReset
  <2>1. Cardinality(Dots) \in Nat
    BY DotsFinite, FS_CardinalityType
  <2> QED
    BY <1>1, <2>1, BoardAssumption DEF GameReset, Rules!ResetRules, Account
<1>2. CASE \E keycode \in Keycodes : GameTick(keycode)
  BY <1>2, TickAccount
<1>3. CASE UNCHANGED game
  BY <1>3 DEF game, rules, Account
<1> QED
  BY <1>1, <1>2, <1>3 DEF GameNext

\* Everyone at home is out of reach.
OutOfReach == near = {} /\ \A c \in Colours : distance(pos, GhostPosition[c]) >= 36

LEMMA AllHome == pos = Center /\ GhostsHome => OutOfReach
<1> SUFFICES ASSUME pos = Center, GhostsHome
             PROVE  OutOfReach
  OBVIOUS
<1>1. near = {}
  BY Apart
<1>2. ASSUME NEW c \in Colours
      PROVE  distance(pos, GhostPosition[c]) >= 36
  <2> DEFINE hx == Home[c][1]
             hy == Home[c][2]
  <2>1. hx \in Int /\ hy \in Int
    <3>1. hx \in 0..511 /\ hy \in 0..511
      BY BoardAssumption
    <3> QED
      BY <3>1
  <2>2. ~(Square(CenterX - hx) + Square(CenterY - hy) < 64)
    BY BoardAssumption DEF Touches, distance, Center
  <2>3. GhostPosition[c][1] = hx /\ GhostPosition[c][2] = hy
    BY DEF GhostsHome
  <2>4. distance(pos, GhostPosition[c]) = Square(CenterX - hx) + Square(CenterY - hy)
    BY <2>3 DEF distance, Center
  <2> HIDE DEF hx, hy
  <2> QED
    BY <2>1, <2>2, <2>4, CenterAssumption DEF Square
<1> QED
  BY <1>1, <1>2 DEF OutOfReach

LEMMA AllHomeNext ==
  ASSUME ToCenter, Red!GoHome, Green!GoHome, Aqua!GoHome
  PROVE  OutOfReach'
<1>1. (pos = Center)'
  BY PlayerReturns DEF Center
<1>2. GhostsHome'
  BY GhostsReturn
<1>3. (pos = Center)' /\ GhostsHome' => OutOfReach'
  BY AllHome, PTL
<1> QED
  BY <1>1, <1>2, <1>3

LEMMA InitTouch == GameInit => TouchInv
<1> SUFFICES ASSUME GameInit
             PROVE  TouchInv
  OBVIOUS
<1>1. Inv /\ Held
  BY InitInv DEF GameInit, Init, Held, pos, motion
<1>2. Registers /\ GhostsInv /\ Account
  BY InitRegisters, InitGhosts, InitAccount
<1>3. pos = Center /\ GhostsHome
  BY GhostsStart DEF GameInit, Init, pos, Center
<1>4. TouchIsNoticed
  BY <1>2, <1>3, AllHome DEF OutOfReach, TouchIsNoticed, Registers
<1>5. LastLife
  BY DEF LastLife, GameInit, Rules!InitRules, Rules!StartLives
<1> QED
  BY <1>1, <1>2, <1>4, <1>5 DEF TouchInv

\* The player of a game moves by one pixel at most, or goes back to the start.
LEMMA PlayerNear ==
  ASSUME Inv, NEW keycode \in Keycodes, Stop \/ Move(keycode) \/ Halt
  PROVE  <<BallX', BallY'>> \in Near(BallX, BallY)
<1>1. CASE Stop \/ Halt
  BY <1>1 DEF Stop, Halt, Near
<1>2. CASE Move(keycode)
  BY <1>2, Unstopped DEF Move, Advance, Near
<1> QED
  BY <1>1, <1>2

LEMMA RedNear ==
  ASSUME GhostsInv, Red!Pursue(pos, reversal)
  PROVE  /\ redX \in Int /\ redY \in Int
         /\ <<redX', redY'>> \in Near(redX, redY)
<1>1. RedProofs!Pursue(pos, reversal)
  BY RedPursues
<1> QED
  BY <1>1, RedAssumption, RedProofs!PursueNear DEF GhostsInv, RedProofs!Near, Near

LEMMA GreenNear ==
  ASSUME GhostsInv, Green!Pursue(pos, reversal)
  PROVE  /\ greenX \in Int /\ greenY \in Int
         /\ <<greenX', greenY'>> \in Near(greenX, greenY)
<1>1. GreenProofs!Pursue(pos, reversal)
  BY GreenPursues
<1> QED
  BY <1>1, GreenAssumption, GreenProofs!PursueNear DEF GhostsInv, GreenProofs!Near, Near

LEMMA AquaNear ==
  ASSUME GhostsInv, Aqua!Pursue(pos, reversal)
  PROVE  /\ aquaX \in Int /\ aquaY \in Int
         /\ <<aquaX', aquaY'>> \in Near(aquaX, aquaY)
<1>1. AquaProofs!Pursue(pos, reversal)
  BY AquaPursues
<1> QED
  BY <1>1, AquaAssumption, AquaProofs!PursueNear DEF GhostsInv, AquaProofs!Near, Near

\* A sprite that was out of reach comes into reach, but not into the other one.
LEMMA ChaseNoNearer ==
  ASSUME Inv, GhostsInv, <<BallX', BallY'>> \in Near(BallX, BallY),
         Red!Pursue(pos, reversal), Green!Pursue(pos, reversal), Aqua!Pursue(pos, reversal),
         NEW c \in Colours, c \notin near
  PROVE  distance(pos', GhostPosition'[c]) >= 36
<1>1. BallX \in Int /\ BallY \in Int
  BY DEF Inv, TypeOK, Coordinate
<1>2. ~Touches(<<BallX, BallY>>, GhostPosition[c])
  BY DEF near, pos
<1>3. pos' = <<BallX', BallY'>>
  BY DEF pos
<1>4. CASE c = "red"
  BY <1>1, <1>2, <1>3, <1>4, RedNear, ComesNoNearer DEF GhostPosition, Colours
<1>5. CASE c = "green"
  BY <1>1, <1>2, <1>3, <1>5, GreenNear, ComesNoNearer DEF GhostPosition, Colours
<1>6. CASE c = "aqua"
  BY <1>1, <1>2, <1>3, <1>6, AquaNear, ComesNoNearer DEF GhostPosition, Colours
<1> QED
  BY <1>4, <1>5, <1>6 DEF Colours

LEMMA TickTouch ==
  ASSUME TouchInv, NEW keycode \in Keycodes, GameTick(keycode), InPlay
  PROVE  TouchIsNoticed' /\ LastLife'
<1> USE DEF GameTick
<1>1. /\ Inv /\ Held /\ Registers /\ GhostsInv /\ TouchIsNoticed /\ LastLife
      /\ ~(dots = {} \/ score >= WinScore)
      /\ \A c \in enabled : distance(pos, GhostPosition[c]) >= 36
  <2>1. Inv /\ Held /\ Registers /\ GhostsInv /\ TouchIsNoticed /\ LastLife
    BY DEF TouchInv
  <2>2. score \in Nat /\ WinScore \in Nat
    BY BoardAssumption DEF TouchInv, Account
  <2> QED
    BY <2>1, <2>2 DEF InPlay, TouchIsNoticed
<1>2. ~Rules!victory
  BY <1>1 DEF Rules!victory
<1>3. enabled' \subseteq enabled
  BY DEF Rules!Lives
<1>4. CASE death
  <2>1. Halt /\ Red!Halt /\ Green!Halt /\ Aqua!Halt
    BY <1>4 DEF PlayerTick, GhostTicks, GhostTick, Freeze, LoseLife, Playing
  <2>2. pos' = pos /\ GhostPosition' = GhostPosition /\ near' = near
    BY <2>1, HaltStays, GhostsStay, SpritesStay
  <2>3. lives = 0 /\ lives' = lives /\ enabled' = enabled /\ death'
    BY <1>1, <1>4 DEF Registers, Rules!Lives
  <2> QED
    BY <1>1, <2>2, <2>3, <1>4 DEF TouchIsNoticed, LastLife, InPlay
<1>5. CASE ~death /\ Rules!isDefeated
  <2>1. ToCenter /\ Red!GoHome /\ Green!GoHome /\ Aqua!GoHome
    BY <1>2, <1>5 DEF PlayerTick, GhostTicks, GhostTick, Freeze, LoseLife, Playing,
       Rules!isDefeated
  <2>2. near' = {} /\ \A c \in Colours : distance(pos', GhostPosition'[c]) >= 36
    BY <2>1, AllHomeNext DEF OutOfReach
  <2>3. hasMoved' = 0 /\ enabled' \subseteq Colours
    BY <1>1, <1>3, <2>1, PlayerReturns DEF Registers
  <2> QED
    BY <2>2, <2>3 DEF TouchIsNoticed, LastLife
<1>6. CASE ~death /\ ~Rules!isDefeated /\ hasMoved = 0
  <2>1. Red!Halt /\ Green!Halt /\ Aqua!Halt
    BY <1>6 DEF GhostTicks, GhostTick
  <2>2. pos' = pos
    BY <1>1, <1>6, HaltStays, PlayerAtRest DEF PlayerTick, Freeze, LoseLife, Playing, Stop
  <2>3. GhostPosition' = GhostPosition /\ near' = near
    BY <2>1, <2>2, GhostsStay, SpritesStay
  <2>4. TouchIsNoticed'
    BY <1>1, <1>3, <2>2, <2>3 DEF TouchIsNoticed
  <2>5. LastLife'
    <3>1. lives' = 0 => lives = 0 /\ death'
      BY <1>1, <1>6 DEF Rules!Lives, Registers
    <3> QED
      BY <1>1, <1>3, <2>3, <3>1 DEF LastLife
  <2> QED
    BY <2>4, <2>5
<1>7. CASE ~death /\ ~Rules!isDefeated /\ hasMoved = 1
  <2>1. lives > 0 /\ lives' = lives
    BY <1>1, <1>7 DEF LastLife, Registers, Rules!Lives
  <2>2. \A c \in enabled' : c \in Colours /\ c \notin near
    <3>1. CASE Rules!predator
      BY <1>1, <1>7, <2>1, <3>1 DEF Rules!Lives, Registers
    <3>2. CASE ~Rules!predator
      BY <1>1, <1>3, <1>7, <3>2 DEF Rules!predator, Rules!isDefeated, Rules!touching, Registers
    <3> QED
      BY <3>1, <3>2
  <2>3. Red!Pursue(pos, reversal) /\ Green!Pursue(pos, reversal) /\ Aqua!Pursue(pos, reversal)
    BY <1>7 DEF GhostTicks, GhostTick
  <2>4. <<BallX', BallY'>> \in Near(BallX, BallY)
    BY <1>1, <1>2, <1>7, PlayerNear DEF PlayerTick, Freeze, LoseLife, Playing
  <2>5. \A c \in enabled' : distance(pos', GhostPosition'[c]) >= 36
    BY <1>1, <2>2, <2>3, <2>4, ChaseNoNearer
  <2> QED
    BY <2>1, <2>5 DEF TouchIsNoticed, LastLife
<1> QED
  BY <1>1, <1>4, <1>5, <1>6, <1>7 DEF Inv, TypeOK

LEMMA NextTouch == TouchInv /\ [GameNext]_game => TouchInv'
<1> SUFFICES ASSUME TouchInv, [GameNext]_game
             PROVE  TouchInv'
  OBVIOUS
<1>1. /\ Inv /\ Held /\ Registers /\ GhostsInv /\ Account
  BY DEF TouchInv
<1>2. Inv' /\ Held' /\ Registers' /\ GhostsInv' /\ Account'
  BY <1>1, GameSteps, NextInv, NextHeld, NextRegisters, NextGhosts, NextAccount
<1>3. CASE GameReset
  <2>1. ToCenter /\ Red!GoHome /\ Green!GoHome /\ Aqua!GoHome
    BY <1>3 DEF GameReset, Reset
  <2>2. near' = {} /\ (\A c \in Colours : distance(pos', GhostPosition'[c]) >= 36)
    BY <2>1, AllHomeNext DEF OutOfReach
  <2>3. hasMoved' = 0
    BY <2>1, PlayerReturns
  <2> QED
    BY <1>2, <2>2, <2>3 DEF TouchInv, TouchIsNoticed, LastLife, Registers
<1>4. ASSUME NEW keycode \in Keycodes, GameTick(keycode)
      PROVE  TouchIsNoticed' /\ LastLife'
  <2>1. CASE InPlay
    BY <1>4, <2>1, TickTouch
  <2>2. CASE ~InPlay /\ ~InPlay'
    BY <2>2 DEF TouchIsNoticed, LastLife, InPlay
  <2>3. CASE ~InPlay /\ InPlay'
    BY <1>1, <1>4, <2>3, TickAccount
  <2> QED
    BY <2>1, <2>2, <2>3
<1>5. CASE UNCHANGED game
  <2>1. pos' = pos /\ GhostPosition' = GhostPosition /\ hasMoved' = hasMoved
    BY <1>5 DEF game, player, vars, red, green, aqua, pos, GhostPosition
  <2>2. UNCHANGED rules
    BY <1>5 DEF game
  <2> QED
    BY <1>2, <2>1, <2>2, SpritesStay DEF rules, TouchInv, TouchIsNoticed, LastLife, InPlay
<1> QED
  BY <1>2, <1>3, <1>4, <1>5 DEF GameNext, TouchInv

\* On every board and in every game that is not won, a ghost within reach came
\* there in this frame: no contact is missed (lab62.sv:189-197, 297-307).
THEOREM TouchesAreNoticed == GameSpec => []TouchIsNoticed
<1>1. TouchInv => TouchIsNoticed
  BY DEF TouchInv
<1> QED
  BY <1>1, InitTouch, NextTouch, PTL DEF GameSpec

\* The ghosts of a game keep to the tracks that Ghost gives them.
THEOREM GhostsInGame == GameSpec => RedProofs!Spec /\ GreenProofs!Spec /\ AquaProofs!Spec
<1>1. TouchInv => Inv /\ Registers
  BY DEF TouchInv
<1>2. GameSpec => [](Inv /\ Registers)
  BY <1>1, InitTouch, NextTouch, PTL DEF GameSpec
<1>3. GameSpec => RedProofs!Spec
  BY <1>2, RedInit, RedStep, PTL DEF GameSpec, RedProofs!Spec
<1>4. GameSpec => GreenProofs!Spec
  BY <1>2, GreenInit, GreenStep, PTL DEF GameSpec, GreenProofs!Spec
<1>5. GameSpec => AquaProofs!Spec
  BY <1>2, AquaInit, AquaStep, PTL DEF GameSpec, AquaProofs!Spec
<1> QED
  BY <1>3, <1>4, <1>5

\* In a game no ghost is ever further than one pixel in a wall, whatever the
\* player it chases does and however often the reversal turns it.
THEOREM GhostsOnTrack ==
  GameSpec => [](/\ RedProofs!OverrunsByOnePixel
                 /\ GreenProofs!OverrunsByOnePixel
                 /\ AquaProofs!OverrunsByOnePixel)
<1>1. RedProofs!Spec => []RedProofs!OverrunsByOnePixel
  BY RedAssumption, RedProofs!StaysOnTrack
<1>2. GreenProofs!Spec => []GreenProofs!OverrunsByOnePixel
  BY GreenAssumption, GreenProofs!StaysOnTrack
<1>3. AquaProofs!Spec => []AquaProofs!OverrunsByOnePixel
  BY AquaAssumption, AquaProofs!StaysOnTrack
<1> QED
  BY <1>1, <1>2, <1>3, GhostsInGame, PTL

\* In a game no ghost is ever without a way out.
THEOREM GhostsNeverCornered ==
  GameSpec => [](/\ RedProofs!NeverCornered
                 /\ GreenProofs!NeverCornered
                 /\ AquaProofs!NeverCornered)
<1>1. RedProofs!Spec => []RedProofs!NeverCornered
  BY RedAssumption, RedProofs!AlwaysAWay
<1>2. GreenProofs!Spec => []GreenProofs!NeverCornered
  BY GreenAssumption, GreenProofs!AlwaysAWay
<1>3. AquaProofs!Spec => []AquaProofs!NeverCornered
  BY AquaAssumption, AquaProofs!AlwaysAWay
<1> QED
  BY <1>1, <1>2, <1>3, GhostsInGame, PTL

-----------------------------------------------------------------------------
(* What the rules promise, in the game.                                    *)

RulesProofs == INSTANCE GameRulesProofs
  WITH Ghosts <- Colours, HomeDot <- DotAt(Center),
       fruit <- FruitAt(pos), dot <- DotAt(pos), hasMoved <- hasMoved = 1

LEMMA CenterDot == DotAt(Center) \in Dots
<1>1. CenterX \in Nat /\ CenterY \in Nat /\ SpriteFree(CenterX, CenterY)
  BY CenterAssumption DEF Coordinate, InMaze
<1>2. /\ Block <= CenterX /\ CenterX + 8 < 7 * Block
      /\ Block <= CenterY /\ CenterY + 8 < 7 * Block
  BY <1>1, FreeInside, CenterAssumption
<1>3. /\ DotIndex(CenterX) \in 0..(6 * Block) \div 8 - 1
      /\ DotIndex(CenterY) \in 0..(6 * Block) \div 8 - 1
  BY <1>1, <1>2, MazeAssumption DEF DotIndex
<1> QED
  BY <1>3 DEF DotAt, Dots, Center

LEMMA RulesAssumptionHolds == RulesProofs!RulesAssumption
<1>1. IsFiniteSet(Dots)
  BY DotsFinite
<1>2. DotAt(Center) \in Dots
  BY CenterDot
<1>3. Cardinality(Dots) < 2048 /\ NoFruit \notin Fruits
  BY BoardAssumption
<1>4. WinScore \in Nat /\ ReversalTicks \in 1..1023
  BY BoardAssumption
<1>5. RulesProofs!IsFiniteSet(Dots) /\ RulesProofs!Cardinality(Dots) = Cardinality(Dots)
  <2>1. RulesProofs!IsFiniteSet(Dots)
    BY <1>1 DEF RulesProofs!IsFiniteSet, IsFiniteSet
  <2>2. RulesProofs!Cardinality(Dots) = Cardinality(Dots)
    BY DEF RulesProofs!Cardinality, Cardinality
  <2> QED
    BY <2>1, <2>2
<1> QED
  BY <1>2, <1>3, <1>4, <1>5 DEF RulesProofs!RulesAssumption

LEMMA SameRules ==
  /\ Rules!Init => RulesProofs!Init
  /\ Rules!Next => RulesProofs!Next
  /\ Rules!vars = RulesProofs!vars
<1> USE DEF Rules!InitRules, RulesProofs!InitRules, Rules!rules, RulesProofs!rules,
            Rules!sprites, RulesProofs!sprites
<1>1. Rules!Init => RulesProofs!Init
  BY DEF Rules!Init, RulesProofs!Init, Rules!StartLives, RulesProofs!StartLives
<1>2. Rules!touching = RulesProofs!touching /\ Rules!StartLives = RulesProofs!StartLives
  BY DEF Rules!touching, RulesProofs!touching, Rules!StartLives, RulesProofs!StartLives
<1>3. /\ Rules!isDefeated <=> RulesProofs!isDefeated
      /\ Rules!predator <=> RulesProofs!predator
      /\ Rules!victory <=> RulesProofs!victory
  BY <1>2 DEF Rules!isDefeated, RulesProofs!isDefeated, Rules!predator, RulesProofs!predator,
     Rules!victory, RulesProofs!victory
<1>4. Rules!GoHome <=> RulesProofs!GoHome
  BY DEF Rules!GoHome, RulesProofs!GoHome
<1>5. Rules!Reset => RulesProofs!Reset
  BY <1>2, <1>4 DEF Rules!Reset, RulesProofs!Reset, Rules!ResetRules, RulesProofs!ResetRules
<1>6. Rules!Lives => RulesProofs!Lives
  BY <1>3 DEF Rules!Lives, RulesProofs!Lives
<1>7. Rules!Reversal => RulesProofs!Reversal
  BY DEF Rules!Reversal, RulesProofs!Reversal, Rules!ReversalOver, RulesProofs!ReversalOver,
     Rules!EndReversal, RulesProofs!EndReversal, Rules!CountReversal, RulesProofs!CountReversal,
     Rules!EatFruit, RulesProofs!EatFruit
<1>8. Rules!EatDots => RulesProofs!EatDots
  BY DEF Rules!EatDots, RulesProofs!EatDots
<1>9. Rules!Sprites => RulesProofs!Sprites
  BY <1>3, <1>4 DEF Rules!Sprites, RulesProofs!Sprites,
     Rules!SpritesFrozen, RulesProofs!SpritesFrozen, Rules!SpritesGoHome, RulesProofs!SpritesGoHome,
     Rules!GhostsGoHome, RulesProofs!GhostsGoHome, Rules!SpritesWait, RulesProofs!SpritesWait,
     Rules!GhostsMove, RulesProofs!GhostsMove, Rules!SpritesMove, RulesProofs!SpritesMove
<1>10. Rules!Next => RulesProofs!Next
  BY <1>5, <1>6, <1>7, <1>8, <1>9 DEF Rules!Next, RulesProofs!Next, Rules!Tick, RulesProofs!Tick
<1>11. Rules!vars = RulesProofs!vars
  BY DEF Rules!vars, RulesProofs!vars
<1> QED
  BY <1>1, <1>10, <1>11

LEMMA RulesSafe == GameSpec => RulesProofs!Safety
<1>1. [Rules!Next]_(Rules!vars) => [RulesProofs!Next]_(RulesProofs!vars)
  <2>1. Rules!Next => RulesProofs!Next
    BY SameRules
  <2>2. UNCHANGED Rules!vars => UNCHANGED RulesProofs!vars
    BY DEF Rules!vars, RulesProofs!vars, Rules!rules, RulesProofs!rules,
       Rules!sprites, RulesProofs!sprites
  <2> QED
    BY <2>1, <2>2
<1>2. Rules!Init => RulesProofs!Init
  BY SameRules
<1> QED
  BY <1>1, <1>2, GameImplementsRules, PTL DEF PlaysByTheRules, RulesProofs!Safety

\* In the whole game the score counts the dots that are eaten, and the game is
\* over only without lives (lab62.sv:189-197,323-330).
THEOREM ScoreInGame ==
  GameSpec => [](RulesProofs!TypeOK /\ RulesProofs!ScoreIsDotsEaten /\ RulesProofs!DeathHasNoLives)
<1>1. RulesProofs!Safety => []RulesProofs!TypeOK
  BY RulesAssumptionHolds, RulesProofs!TypeCorrect
<1>2. RulesProofs!Safety => []RulesProofs!ScoreIsDotsEaten
  BY RulesAssumptionHolds, RulesProofs!ScoreCorrect
<1>3. RulesProofs!Safety => []RulesProofs!DeathHasNoLives
  BY RulesAssumptionHolds, RulesProofs!DeathCorrect
<1> QED
  BY <1>1, <1>2, <1>3, RulesSafe, PTL

\* In the whole game a contact costs one life, a reversal costs one fruit and
\* runs its time, and a victory stands until the last life is lost
\* (lab62.sv:192-197,236-287,340-345).
THEOREM RulesInGame ==
  GameSpec => /\ RulesProofs!OneLifePerContact
              /\ RulesProofs!OneReversalPerFruit
              /\ RulesProofs!VictoryEndsByDeath
<1>1. RulesProofs!Safety => RulesProofs!OneLifePerContact
  BY RulesAssumptionHolds, RulesProofs!OneLife
<1>2. RulesProofs!Safety => RulesProofs!OneReversalPerFruit
  BY RulesAssumptionHolds, RulesProofs!OneFruit
<1>3. RulesProofs!Safety => RulesProofs!VictoryEndsByDeath
  BY RulesAssumptionHolds, RulesProofs!VictoryStands
<1> QED
  BY <1>1, <1>2, <1>3, RulesSafe
-----------------------------------------------------------------------------
(* The board as it is shipped.                                             *)

Shipped == INSTANCE Game
  WITH Block <- 56, WallBlocks <- RomBlocks, CenterX <- 136, CenterY <- 248,
       Home <- [red |-> RedHome, green |-> GreenHome, aqua |-> AquaHome],
       FruitLocation <- ShippedFruits, NoFruit <- "none",
       WinScore <- 500, ReversalTicks <- 600

\* A sprite whose 9 x 9 pixels are all in one open block is free.
LEMMA FreeInBlock ==
  ASSUME NEW X \in Nat, NEW Y \in Nat, NEW c \in 0..7, NEW r \in 0..7,
         56 * c <= X, X + 8 < 56 * c + 56, 56 * r <= Y, Y + 8 < 56 * r + 56,
         RomRows[r + 1][c + 1] = 0
  PROVE  Shipped!InMaze(X, Y) /\ Shipped!SpriteFree(X, Y)
<1>1. Shipped!InMaze(X, Y)
  BY DEF Shipped!InMaze
<1>2. ASSUME NEW dx \in 0..8, NEW dy \in 0..8
      PROVE  ~Shipped!CheckWall(X + dx, Y + dy)
  <2>1. Shipped!Cell(X + dx) = c /\ Shipped!Cell(Y + dy) = r
    BY DEF Shipped!Cell
  <2>2. <<c, r>> \notin RomBlocks
    BY DEF RomBlocks
  <2> QED
    BY <2>1, <2>2 DEF Shipped!CheckWall
<1> QED
  BY <1>1, <1>2 DEF Shipped!SpriteFree

LEMMA ShippedMaze == Shipped!MazeAssumption
<1>1. RomBlocks \subseteq (0..7) \X (0..7)
  BY DEF RomBlocks
<1>2. ASSUME NEW i \in 0..7
      PROVE  {<<0, i>>, <<7, i>>, <<i, 0>>, <<i, 7>>} \subseteq RomBlocks
  <2>1. RomRows[1][i + 1] = 1 /\ RomRows[8][i + 1] = 1
    BY DEF RomRows
  <2>2. RomRows[i + 1][1] = 1 /\ RomRows[i + 1][8] = 1
    BY DEF RomRows
  <2> QED
    BY <2>1, <2>2 DEF RomBlocks
<1> QED
  BY <1>1, <1>2 DEF Shipped!MazeAssumption

LEMMA ShippedCenter == Shipped!CenterAssumption
<1>1. RomRows[4 + 1][2 + 1] = 0
  BY DEF RomRows
<1> QED
  BY <1>1, FreeInBlock DEF Shipped!CenterAssumption

LEMMA ShippedDots == Shipped!Cardinality(Shipped!Dots) = 1764
<1>1. Shipped!Dots = (0..41) \X (0..41)
  BY DEF Shipped!Dots
<1>2. IsFiniteSet(0..41) /\ Cardinality(0..41) = 42
  <2>1. \A n \in Nat : IsFiniteSet(0..n) /\ Cardinality(0..n) = n + 1
    BY FS_Interval
  <2>2. \A n : n = 41 => n \in Nat /\ n + 1 = 42
    OBVIOUS
  <2> QED
    BY <2>1, <2>2, Zenon
<1>3. Cardinality((0..41) \X (0..41)) = 42 * 42
  BY <1>2, FS_Product
<1>4. Shipped!Cardinality(Shipped!Dots) = Cardinality(Shipped!Dots)
  BY DEF Shipped!Cardinality, Cardinality
<1> QED
  BY <1>1, <1>3, <1>4

LEMMA ShippedHomes ==
  LET home == [red |-> RedHome, green |-> GreenHome, aqua |-> AquaHome]
  IN /\ home \in [Shipped!Colours -> (0..511) \X (0..511)]
     /\ \A c \in Shipped!Colours : /\ Shipped!InMaze(home[c][1], home[c][2])
                                    /\ Shipped!SpriteFree(home[c][1], home[c][2])
                                    /\ ~Shipped!Touches(Shipped!Center, home[c])
<1> DEFINE home == [red |-> RedHome, green |-> GreenHome, aqua |-> AquaHome]
<1>1. home["red"] = <<64, 64>> /\ home["green"] = <<304, 64>> /\ home["aqua"] = <<368, 368>>
  BY DEF RedHome, GreenHome, AquaHome
<1>2. home \in [Shipped!Colours -> (0..511) \X (0..511)]
  BY DEF Shipped!Colours, RedHome, GreenHome, AquaHome
<1>3. /\ RomRows[1 + 1][1 + 1] = 0 /\ RomRows[1 + 1][5 + 1] = 0
      /\ RomRows[6 + 1][6 + 1] = 0
  BY DEF RomRows
<1>4. /\ Shipped!InMaze(64, 64) /\ Shipped!SpriteFree(64, 64)
      /\ Shipped!InMaze(304, 64) /\ Shipped!SpriteFree(304, 64)
      /\ Shipped!InMaze(368, 368) /\ Shipped!SpriteFree(368, 368)
  BY <1>3, FreeInBlock
<1>5. /\ ~Shipped!Touches(<<136, 248>>, <<64, 64>>)
      /\ ~Shipped!Touches(<<136, 248>>, <<304, 64>>)
      /\ ~Shipped!Touches(<<136, 248>>, <<368, 368>>)
  BY DEF Shipped!Touches, Shipped!distance, Shipped!Square
<1> HIDE DEF home
<1>6. \A c \in Shipped!Colours : /\ Shipped!InMaze(home[c][1], home[c][2])
                                 /\ Shipped!SpriteFree(home[c][1], home[c][2])
                                 /\ ~Shipped!Touches(<<136, 248>>, home[c])
  BY <1>1, <1>4, <1>5 DEF Shipped!Colours
<1> QED
  BY <1>2, <1>6 DEF Shipped!Center, home

LEMMA ShippedFruitsApart ==
  \A f \in DOMAIN ShippedFruits : f # "none" /\ ~Shipped!Touches(Shipped!Center, ShippedFruits[f])
<1>1. /\ ~Shipped!Touches(<<136, 248>>, <<184, 80>>)
      /\ ~Shipped!Touches(<<136, 248>>, <<208, 256>>)
      /\ ~Shipped!Touches(<<136, 248>>, <<232, 352>>)
  BY DEF Shipped!Touches, Shipped!distance, Shipped!Square
<1> QED
  BY <1>1 DEF Shipped!Center, ShippedFruits

\* What the theorems of this module assume of the board is true of the one that
\* is shipped: the maze of wall.sv, the start positions of ball.sv and ghost.sv,
\* the fruits and the limits of lab62.sv.
THEOREM ShippedBoard ==
  Shipped!MazeAssumption /\ Shipped!CenterAssumption /\ Shipped!BoardAssumption
<1>1. /\ "none" \notin Shipped!Fruits
      /\ \A f \in Shipped!Fruits : ~Shipped!Touches(Shipped!Center, ShippedFruits[f])
  BY ShippedFruitsApart DEF Shipped!Fruits
<1>2. Shipped!BoardAssumption
  BY <1>1, ShippedHomes, ShippedDots DEF Shipped!BoardAssumption
<1> QED
  BY <1>2, ShippedMaze, ShippedCenter
=============================================================================
