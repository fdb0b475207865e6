-------------------------------- MODULE Maze --------------------------------
(***************************************************************************)
(* The maze of wall.sv: the wall ROM, check_wall (is this pixel a wall?)   *)
(* and sprite_wall (may a 9 x 9 sprite take its next step?).               *)
(*                                                                         *)
(* The 448 x 512 bits of the ROM form 56 x 56 pixel blocks, so a maze is a *)
(* block size and the set of its wall blocks; RomBlocks is the shipped     *)
(* one.  Coordinates and motions are 10-bit registers: -1 is 1023 and      *)
(* every sum is taken modulo 1024.                                         *)
(***************************************************************************)
EXTENDS Integers

CONSTANTS Block,       \* pixels in the side of a block (56 in the ROM)
          WallBlocks   \* the <<column, row>> of the blocks that are walls

\* A sprite is 9 pixels wide and looks at most 2 pixels beyond its edge, 8
\* blocks fit in the 512 rows that check_wall looks up, and the 6 inner blocks
\* are whole cells of 8 pixels.  The outer ring of blocks is a wall.
ASSUME MazeAssumption ==
  /\ Block \in 12..64 /\ Block % 4 = 0
  /\ WallBlocks \subseteq (0..7) \X (0..7)
  /\ \A i \in 0..7 : {<<0, i>>, <<7, i>>, <<i, 0>>, <<i, 7>>} \subseteq WallBlocks

\* Row r, column c of the ROM's blocks: 1 is a wall.
RomRows == << <<1, 1, 1, 1, 1, 1, 1, 1>>,
              <<1, 0, 1, 0, 0, 0, 1, 1>>,
              <<1, 0, 0, 0, 1, 0, 0, 1>>,
              <<1, 1, 1, 0, 1, 1, 0, 1>>,
              <<1, 0, 0, 0, 0, 1, 0, 1>>,
              <<1, 0, 1, 0, 1, 1, 0, 1>>,
              <<1, 0, 0, 0, 0, 0, 0, 1>>,
              <<1, 1, 1, 1, 1, 1, 1, 1>> >>

RomBlocks == {b \in (0..7) \X (0..7) : RomRows[b[2] + 1][b[1] + 1] = 1}

-----------------------------------------------------------------------------
Coordinate == 0..1023        \* a 10-bit register

NegOne == 1023               \* -1 in 10 bits

\* Mutant of Add10: a sum kept in a wider register.
AddWide(a, b) == a + b

Add10(a, b) == (a + b) % 1024

Sub10(a, b) == (a - b) % 1024

\* One tick of motion along one axis: still, one pixel up, one pixel down.
Motion == {0, 1, NegOne}

-----------------------------------------------------------------------------
Cell(p) == p \div Block

\* check_wall: pixels outside the ROM's columns and rows are open.
CheckWall(X, Y) ==
  /\ X <= 8 * Block - 1
  /\ Y <= 511
  /\ <<Cell(X), Cell(Y)>> \in WallBlocks

\* Mutant of FarEdge: one pixel too far.
FarEdgeOffByOne(p) == Add10(p, 9)

\* The last pixel, right or below, of a sprite whose first pixel is at p.
FarEdge(p) == Add10(p, 8)

\* sprite_wall: two pixels ahead of the sprite, one pixel away to the right
\* and below, two pixels away to the left and above; at rest, two of its
\* corners.
SpriteWall(X, Y, mx, my) ==
  LET right == mx = 1 /\ my = 0
      left  == mx # 0 /\ ~right
      down  == my = 1
      up    == my \notin {0, 1}
      posX == IF right THEN Add10(X, 9) ELSE IF left THEN Sub10(X, 2) ELSE X
      posY == IF down THEN Add10(Y, 9) ELSE IF up THEN Sub10(Y, 2) ELSE Y
      minPosX == IF (right \/ left) /\ my = 0 THEN posX ELSE FarEdge(X)
      minPosY == IF down \/ up THEN posY ELSE FarEdge(Y)
  IN CheckWall(posX, posY) \/ CheckWall(minPosX, minPosY)

-----------------------------------------------------------------------------
\* What the game means by "not in a wall": every pixel of the 9 x 9 sprite
\* whose upper left pixel is (X, Y) is an open pixel of the maze.
InMaze(X, Y) == X + 8 < 8 * Block /\ Y + 8 < 8 * Block

SpriteFree(X, Y) == \A dx, dy \in 0..8 : ~CheckWall(X + dx, Y + dy)
=============================================================================
