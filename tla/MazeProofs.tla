----------------------------- MODULE MazeProofs ------------------------------
(***************************************************************************)
(* The geometry that the proofs about the player and the ghosts share, for *)
(* every block size and every maze with a closed border: what the two      *)
(* pixels that sprite_wall looks up say of a sprite's next steps, whether  *)
(* it is steered at once (the player) or one frame late (the ghosts).      *)
(***************************************************************************)
EXTENDS Maze, TLAPS

\* What the definition of the quotient gives, with the product by Block.
LEMMA CellBounds ==
  ASSUME NEW p \in Nat
  PROVE  /\ Cell(p) \in Nat
         /\ Block * Cell(p) <= p
         /\ p < Block * Cell(p) + Block
  BY MazeAssumption DEF Cell

LEMMA ProductMonotone ==
  ASSUME NEW a \in Nat, NEW b \in Nat, a < b
  PROVE  Block * a + Block <= Block * b
  BY MazeAssumption

\* Pixels closer than a block lie in one block or in two neighbouring ones:
\* this is why looking at the two ends of an edge sees every wall on it.
LEMMA CellBetween ==
  ASSUME NEW a \in Nat, NEW b \in Nat, NEW c \in Nat,
         a <= c, c <= b, b <= a + 11
  PROVE  Cell(c) = Cell(a) \/ Cell(c) = Cell(b)
<1> DEFINE qa == Cell(a)
           qb == Cell(b)
           qc == Cell(c)
<1>1. qa \in Nat /\ qb \in Nat /\ qc \in Nat
  BY CellBounds
<1>2. /\ Block * qa <= a /\ a < Block * qa + Block
      /\ Block * qb <= b /\ b < Block * qb + Block
      /\ Block * qc <= c /\ c < Block * qc + Block
  BY CellBounds
<1> HIDE DEF qa, qb, qc
<1>3. ~(qa < qc /\ qc < qb)
  <2> SUFFICES ASSUME qa < qc, qc < qb
               PROVE  FALSE
    OBVIOUS
  <2>1. Block * qa + Block <= Block * qc /\ Block * qc + Block <= Block * qb
    BY <1>1, ProductMonotone
  <2>2. Block * qa \in Int /\ Block * qb \in Int /\ Block * qc \in Int
    BY <1>1, MazeAssumption
  <2> QED
    BY <2>1, <2>2, <1>2, MazeAssumption
<1>4. ~(qc < qa)
  BY <1>1, <1>2, ProductMonotone, MazeAssumption
<1>5. ~(qb < qc)
  BY <1>1, <1>2, ProductMonotone, MazeAssumption
<1> QED
  BY <1>1, <1>3, <1>4, <1>5 DEF qa, qb, qc

\* An open pixel inside the maze is inside its border.
LEMMA InsideBorder ==
  ASSUME NEW p \in Nat, NEW q \in Nat, p < 8 * Block, q < 8 * Block,
         ~CheckWall(p, q)
  PROVE  /\ Block <= p /\ p < 7 * Block
         /\ Block <= q /\ q < 7 * Block
<1>1. Cell(p) \in 0..7 /\ Cell(q) \in 0..7
  BY MazeAssumption DEF Cell
<1>2. <<Cell(p), Cell(q)>> \notin WallBlocks
  BY MazeAssumption DEF CheckWall
<1>3. Cell(p) \notin {0, 7} /\ Cell(q) \notin {0, 7}
  BY <1>1, <1>2, MazeAssumption
<1> QED
  BY <1>1, <1>3, MazeAssumption DEF Cell

\* A vertical edge whose two ends are open is open all along.
LEMMA ColumnFree ==
  ASSUME NEW p \in Nat, NEW q \in Nat, NEW d \in 0..8,
         p < 8 * Block, q + 8 < 8 * Block,
         ~CheckWall(p, q), ~CheckWall(p, q + 8)
  PROVE  ~CheckWall(p, q + d)
<1>1. Cell(q + d) = Cell(q) \/ Cell(q + d) = Cell(q + 8)
  BY CellBetween
<1> QED
  BY <1>1, MazeAssumption DEF CheckWall

\* The same for a horizontal edge.
LEMMA RowFree ==
  ASSUME NEW p \in Nat, NEW q \in Nat, NEW d \in 0..8,
         p + 8 < 8 * Block, q < 8 * Block,
         ~CheckWall(p, q), ~CheckWall(p + 8, q)
  PROVE  ~CheckWall(p + d, q)
<1>1. Cell(p + d) = Cell(p) \/ Cell(p + d) = Cell(p + 8)
  BY CellBetween
<1> QED
  BY <1>1, MazeAssumption DEF CheckWall

-----------------------------------------------------------------------------
\* A free sprite stands inside the border.
LEMMA FreeInside ==
  ASSUME NEW X \in Nat, NEW Y \in Nat, InMaze(X, Y), SpriteFree(X, Y)
  PROVE  /\ Block <= X /\ X + 8 < 7 * Block
         /\ Block <= Y /\ Y + 8 < 7 * Block
<1>1. ~CheckWall(X + 0, Y + 0) /\ ~CheckWall(X + 8, Y + 8)
  BY DEF SpriteFree
<1>2. Block <= X + 0 /\ Block <= Y + 0
  BY <1>1, InsideBorder, MazeAssumption DEF InMaze
<1>3. X + 8 < 7 * Block /\ Y + 8 < 7 * Block
  BY <1>1, InsideBorder, MazeAssumption DEF InMaze
<1> QED
  BY <1>2, <1>3

LEMMA FreeCorners ==
  ASSUME NEW X \in Nat, NEW Y \in Nat, SpriteFree(X, Y)
  PROVE  /\ ~CheckWall(X, Y) /\ ~CheckWall(X + 8, Y)
         /\ ~CheckWall(X, Y + 8) /\ ~CheckWall(X + 8, Y + 8)
<1>1. /\ ~CheckWall(X + 0, Y + 0) /\ ~CheckWall(X + 8, Y + 0)
      /\ ~CheckWall(X + 0, Y + 8) /\ ~CheckWall(X + 8, Y + 8)
  BY DEF SpriteFree
<1>2. X + 0 = X /\ Y + 0 = Y
  OBVIOUS
<1> QED
  BY <1>1, <1>2

\* What one open pixel says of the pixels of its block, column and row.
LEMMA SameColumn ==
  ASSUME NEW p \in Nat, NEW p2 \in Nat, NEW q \in Nat,
         p2 < 8 * Block, Cell(p) = Cell(p2), ~CheckWall(p2, q)
  PROVE  ~CheckWall(p, q)
  BY MazeAssumption DEF CheckWall

LEMMA SameRow ==
  ASSUME NEW p \in Nat, NEW q \in Nat, NEW q2 \in Nat,
         q2 < 8 * Block, Cell(q) = Cell(q2), ~CheckWall(p, q2)
  PROVE  ~CheckWall(p, q)
  BY MazeAssumption DEF CheckWall

\* The four steps: two open pixels ahead make room for the whole sprite.
LEMMA StepRight ==
  ASSUME NEW X \in Nat, NEW Y \in Nat, InMaze(X, Y), SpriteFree(X, Y),
         ~CheckWall(X + 9, Y), ~CheckWall(X + 9, Y + 8)
  PROVE  InMaze(X + 1, Y) /\ SpriteFree(X + 1, Y)
<1>1. X + 8 < 7 * Block /\ Y + 8 < 7 * Block
  BY FreeInside
<1>2. SUFFICES ASSUME NEW dx \in 0..8, NEW dy \in 0..8
               PROVE  ~CheckWall(X + 1 + dx, Y + dy)
  BY <1>1, MazeAssumption DEF InMaze, SpriteFree
<1>3. CASE dx = 8
  <2>1. ~CheckWall(X + 9, Y + dy)
    BY <1>1, ColumnFree, MazeAssumption
  <2> QED
    BY <2>1, <1>3
<1>4. CASE dx # 8
  <2>1. ~CheckWall(X + (dx + 1), Y + dy)
    BY <1>4 DEF SpriteFree
  <2>2. X + (dx + 1) = X + 1 + dx
    OBVIOUS
  <2> QED
    BY <2>1, <2>2
<1> QED
  BY <1>3, <1>4

LEMMA StepLeft ==
  ASSUME NEW X \in Nat, NEW Y \in Nat, InMaze(X, Y), SpriteFree(X, Y),
         ~CheckWall(X - 2, Y), ~CheckWall(X - 2, Y + 8)
  PROVE  X >= 1 /\ InMaze(X - 1, Y) /\ SpriteFree(X - 1, Y)
<1>1. Block <= X /\ X + 8 < 7 * Block /\ Y + 8 < 7 * Block
  BY FreeInside
<1>2. SUFFICES ASSUME NEW dx \in 0..8, NEW dy \in 0..8
               PROVE  ~CheckWall(X - 1 + dx, Y + dy)
  BY <1>1, MazeAssumption DEF InMaze, SpriteFree
<1>3. CASE dx = 0
  <2>1. X - 2 \in Nat /\ X - 1 \in Nat /\ X - 1 < 8 * Block
    BY <1>1, MazeAssumption
  <2>2. Cell(X - 1) = Cell(X - 2) \/ Cell(X - 1) = Cell(X)
    BY <2>1, CellBetween
  <2>3. ~CheckWall(X - 1, Y) /\ ~CheckWall(X - 1, Y + 8)
    <3>1. CASE Cell(X - 1) = Cell(X - 2)
      BY <3>1, <2>1, <1>1, SameColumn, MazeAssumption
    <3>2. CASE Cell(X - 1) = Cell(X)
      <4>1. ~CheckWall(X, Y) /\ ~CheckWall(X, Y + 8)
        BY FreeCorners
      <4> QED
        BY <4>1, <3>2, <2>1, <1>1, SameColumn, MazeAssumption
    <3> QED
      BY <2>2, <3>1, <3>2
  <2>4. ~CheckWall(X - 1, Y + dy)
    BY <2>1, <2>3, <1>1, ColumnFree, MazeAssumption
  <2> QED
    BY <2>4, <1>3
<1>4. CASE dx # 0
  <2>1. ~CheckWall(X + (dx - 1), Y + dy)
    BY <1>4 DEF SpriteFree
  <2>2. X + (dx - 1) = X - 1 + dx
    OBVIOUS
  <2> QED
    BY <2>1, <2>2
<1> QED
  BY <1>3, <1>4

LEMMA StepDown ==
  ASSUME NEW X \in Nat, NEW Y \in Nat, InMaze(X, Y), SpriteFree(X, Y),
         ~CheckWall(X, Y + 9), ~CheckWall(X + 8, Y + 9)
  PROVE  InMaze(X, Y + 1) /\ SpriteFree(X, Y + 1)
<1>1. X + 8 < 7 * Block /\ Y + 8 < 7 * Block
  BY FreeInside
<1>2. SUFFICES ASSUME NEW dx \in 0..8, NEW dy \in 0..8
               PROVE  ~CheckWall(X + dx, Y + 1 + dy)
  BY <1>1, MazeAssumption DEF InMaze, SpriteFree
<1>3. CASE dy = 8
  <2>1. ~CheckWall(X + dx, Y + 9)
    BY <1>1, RowFree, MazeAssumption
  <2> QED
    BY <2>1, <1>3
<1>4. CASE dy # 8
  <2>1. ~CheckWall(X + dx, Y + (dy + 1))
    BY <1>4 DEF SpriteFree
  <2>2. Y + (dy + 1) = Y + 1 + dy
    OBVIOUS
  <2> QED
    BY <2>1, <2>2
<1> QED
  BY <1>3, <1>4

LEMMA StepUp ==
  ASSUME NEW X \in Nat, NEW Y \in Nat, InMaze(X, Y), SpriteFree(X, Y),
         ~CheckWall(X, Y - 2), ~CheckWall(X + 8, Y - 2)
  PROVE  Y >= 1 /\ InMaze(X, Y - 1) /\ SpriteFree(X, Y - 1)
<1>1. X + 8 < 7 * Block /\ Block <= Y /\ Y + 8 < 7 * Block
  BY FreeInside
<1>2. SUFFICES ASSUME NEW dx \in 0..8, NEW dy \in 0..8
               PROVE  ~CheckWall(X + dx, Y - 1 + dy)
  BY <1>1, MazeAssumption DEF InMaze, SpriteFree
<1>3. CASE dy = 0
  <2>1. Y - 2 \in Nat /\ Y - 1 \in Nat /\ Y - 1 < 8 * Block
    BY <1>1, MazeAssumption
  <2>2. Cell(Y - 1) = Cell(Y - 2) \/ Cell(Y - 1) = Cell(Y)
    BY <2>1, CellBetween
  <2>3. ~CheckWall(X, Y - 1) /\ ~CheckWall(X + 8, Y - 1)
    <3>1. CASE Cell(Y - 1) = Cell(Y - 2)
      BY <3>1, <2>1, <1>1, SameRow, MazeAssumption
    <3>2. CASE Cell(Y - 1) = Cell(Y)
      <4>1. ~CheckWall(X, Y) /\ ~CheckWall(X + 8, Y)
        BY FreeCorners
      <4> QED
        BY <4>1, <3>2, <2>1, <1>1, SameRow, MazeAssumption
    <3> QED
      BY <2>2, <3>1, <3>2
  <2>4. X + 8 < 8 * Block
    BY <1>1, MazeAssumption
  <2>5. ~CheckWall(X + dx, Y - 1)
    BY <2>1, <2>3, <2>4, RowFree
  <2> QED
    BY <2>5, <1>3
<1>4. CASE dy # 0
  <2>1. ~CheckWall(X + dx, Y + (dy - 1))
    BY <1>4 DEF SpriteFree
  <2>2. Y + (dy - 1) = Y - 1 + dy
    OBVIOUS
  <2> QED
    BY <2>1, <2>2
<1> QED
  BY <1>3, <1>4

\* The two lookups that sprite_wall makes for each motion, without the
\* 10-bit wrap: no sum overflows on the board.
LEMMA Lookahead ==
  ASSUME NEW X \in 2..1014, NEW Y \in 2..1014
  PROVE  /\ SpriteWall(X, Y, 0, 0)
              <=> (CheckWall(X, Y) \/ CheckWall(X + 8, Y + 8))
         /\ SpriteWall(X, Y, 1, 0)
              <=> (CheckWall(X + 9, Y) \/ CheckWall(X + 9, Y + 8))
         /\ SpriteWall(X, Y, NegOne, 0)
              <=> (CheckWall(X - 2, Y) \/ CheckWall(X - 2, Y + 8))
         /\ SpriteWall(X, Y, 0, 1)
              <=> (CheckWall(X, Y + 9) \/ CheckWall(X + 8, Y + 9))
         /\ SpriteWall(X, Y, 0, NegOne)
              <=> (CheckWall(X, Y - 2) \/ CheckWall(X + 8, Y - 2))
<1>1. /\ Add10(X, 8) = X + 8 /\ Add10(X, 9) = X + 9 /\ Sub10(X, 2) = X - 2
      /\ Add10(Y, 8) = Y + 8 /\ Add10(Y, 9) = Y + 9 /\ Sub10(Y, 2) = Y - 2
  BY DEF Add10, Sub10
<1> QED
  BY <1>1 DEF SpriteWall, FarEdge, NegOne

LEMMA OpenAhead ==
  ASSUME NEW X \in 2..1014, NEW Y \in 2..1014
  PROVE  /\ ~SpriteWall(X, Y, 1, 0) => ~CheckWall(X + 9, Y) /\ ~CheckWall(X + 9, Y + 8)
         /\ ~SpriteWall(X, Y, 0, 1) => ~CheckWall(X, Y + 9) /\ ~CheckWall(X + 8, Y + 9)
         /\ ~SpriteWall(X, Y, NegOne, 0) => ~CheckWall(X - 2, Y) /\ ~CheckWall(X - 2, Y + 8)
         /\ ~SpriteWall(X, Y, 0, NegOne) => ~CheckWall(X, Y - 2) /\ ~CheckWall(X + 8, Y - 2)
<1>1. /\ Add10(X, 8) = X + 8 /\ Add10(X, 9) = X + 9 /\ Sub10(X, 2) = X - 2
      /\ Add10(Y, 8) = Y + 8 /\ Add10(Y, 9) = Y + 9 /\ Sub10(Y, 2) = Y - 2
  BY DEF Add10, Sub10
<1> QED
  BY <1>1 DEF SpriteWall, FarEdge, NegOne

LEMMA OneStep ==
  ASSUME NEW X \in 2..1014
  PROVE  /\ Add10(X, 0) = X /\ Add10(X, 1) = X + 1 /\ Add10(X, NegOne) = X - 1
  BY DEF Add10, NegOne

-----------------------------------------------------------------------------
(* A ghost takes a turn one frame late, and may then stand one pixel over  *)
(* the edge of a wall.                                                     *)

\* At most its left or right column of pixels is over a wall; at most its upper
\* or lower row is.  The corners speak for all of the pixels between them.
Tall(X, Y) == /\ ~CheckWall(X + 1, Y) /\ ~CheckWall(X + 7, Y)
              /\ ~CheckWall(X + 1, Y + 8) /\ ~CheckWall(X + 7, Y + 8)

Wide(X, Y) == /\ ~CheckWall(X, Y + 1) /\ ~CheckWall(X, Y + 7)
              /\ ~CheckWall(X + 8, Y + 1) /\ ~CheckWall(X + 8, Y + 7)

\* Where a ghost may be.
Passable(X, Y) == InMaze(X, Y) /\ (Tall(X, Y) \/ Wide(X, Y))

LEMMA PassableInside ==
  ASSUME NEW X \in Nat, NEW Y \in Nat, Passable(X, Y)
  PROVE  /\ Block - 1 <= X /\ X + 7 < 7 * Block
         /\ Block - 1 <= Y /\ Y + 7 < 7 * Block
<1>1. /\ X + 1 < 8 * Block /\ X + 7 < 8 * Block /\ X + 8 < 8 * Block
      /\ Y + 1 < 8 * Block /\ Y + 7 < 8 * Block /\ Y + 8 < 8 * Block
  BY MazeAssumption DEF Passable, InMaze
<1>2. CASE Tall(X, Y)
  <2>1. Block <= X + 1 /\ Block <= Y
    BY <1>1, <1>2, InsideBorder, MazeAssumption DEF Tall
  <2>2. X + 7 < 7 * Block /\ Y + 8 < 7 * Block
    BY <1>1, <1>2, InsideBorder, MazeAssumption DEF Tall
  <2> QED
    BY <2>1, <2>2, MazeAssumption
<1>3. CASE Wide(X, Y)
  <2>1. Block <= X /\ Block <= Y + 1
    BY <1>1, <1>3, InsideBorder, MazeAssumption DEF Wide
  <2>2. X + 8 < 7 * Block /\ Y + 7 < 7 * Block
    BY <1>1, <1>3, InsideBorder, MazeAssumption DEF Wide
  <2> QED
    BY <2>1, <2>2, MazeAssumption
<1> QED
  BY <1>2, <1>3 DEF Passable

\* At most one border between blocks crosses 12 pixels in a row.
LEMMA Split ==
  ASSUME NEW a \in Nat
  PROVE  \E s \in Int : \A i \in a..a + 11 :
           Cell(i) = IF i < s THEN Cell(a) ELSE Cell(a + 11)
<1> DEFINE s == Block * Cell(a) + Block
<1>1. Cell(a) \in Nat /\ Cell(a + 11) \in Nat /\ s \in Int
  <2>1. a + 11 \in Nat /\ Block \in Nat
    BY MazeAssumption
  <2>2. Cell(a) \in Nat /\ Cell(a + 11) \in Nat
    BY <2>1, CellBounds
  <2> QED
    BY <2>1, <2>2
<1>2. SUFFICES ASSUME NEW i \in a..a + 11
               PROVE  Cell(i) = IF i < s THEN Cell(a) ELSE Cell(a + 11)
  BY <1>1
<1>3. i \in Nat /\ Cell(i) \in Nat
  BY CellBounds
<1>4. Cell(i) = Cell(a) \/ Cell(i) = Cell(a + 11)
  BY CellBetween
<1>5. Cell(i) = Cell(a) => i < s
  BY <1>3, CellBounds
<1>6. i < s => Cell(i) = Cell(a)
  <2>1. /\ Block * Cell(i) <= i /\ a < Block * Cell(a) + Block
        /\ Block * Cell(a) <= a /\ i < Block * Cell(i) + Block
    BY <1>3, CellBounds
  <2>2. Block * Cell(i) \in Int /\ Block * Cell(a) \in Int /\ Block \in Nat
    BY <1>1, <1>3, MazeAssumption
  <2>3. Cell(a) < Cell(i) => Block * Cell(a) + Block <= Block * Cell(i)
    BY <1>1, <1>3, ProductMonotone
  <2>4. Cell(i) < Cell(a) => Block * Cell(i) + Block <= Block * Cell(a)
    BY <1>1, <1>3, ProductMonotone
  <2> QED
    BY <1>1, <1>3, <2>1, <2>2, <2>3, <2>4
<1> QED
  BY <1>4, <1>5, <1>6

\* The pixels of a window of 12 x 12 are like those in its corners, on either
\* side of one border between columns and one between rows.
Quartered(a, b, s, t) ==
  \A i \in a..a + 11, j \in b..b + 11 :
    /\ i < s /\ j < t => (CheckWall(i, j) <=> CheckWall(a, b))
    /\ i < s /\ j >= t => (CheckWall(i, j) <=> CheckWall(a, b + 11))
    /\ i >= s /\ j < t => (CheckWall(i, j) <=> CheckWall(a + 11, b))
    /\ i >= s /\ j >= t => (CheckWall(i, j) <=> CheckWall(a + 11, b + 11))

LEMMA Window ==
  ASSUME NEW a \in Nat, NEW b \in Nat, a + 11 < 8 * Block, b + 11 < 8 * Block
  PROVE  \E s, t \in Int : Quartered(a, b, s, t)
<1> USE DEF Quartered
<1>1. PICK s \in Int : \A i \in a..a + 11 :
        Cell(i) = IF i < s THEN Cell(a) ELSE Cell(a + 11)
  BY Split
<1>2. PICK t \in Int : \A j \in b..b + 11 :
        Cell(j) = IF j < t THEN Cell(b) ELSE Cell(b + 11)
  BY Split
<1>3. ASSUME NEW i \in a..a + 11, NEW j \in b..b + 11
      PROVE  CheckWall(i, j) <=> <<Cell(i), Cell(j)>> \in WallBlocks
  <2>1. i <= 8 * Block - 1 /\ j <= 511
    BY MazeAssumption
  <2> QED
    BY <2>1 DEF CheckWall
<1>4. /\ CheckWall(a, b) <=> <<Cell(a), Cell(b)>> \in WallBlocks
      /\ CheckWall(a, b + 11) <=> <<Cell(a), Cell(b + 11)>> \in WallBlocks
      /\ CheckWall(a + 11, b) <=> <<Cell(a + 11), Cell(b)>> \in WallBlocks
      /\ CheckWall(a + 11, b + 11) <=> <<Cell(a + 11), Cell(b + 11)>> \in WallBlocks
  BY <1>3
<1> WITNESS s \in Int, t \in Int
<1> TAKE i \in a..a + 11, j \in b..b + 11
<1>5. CheckWall(i, j) <=> <<Cell(i), Cell(j)>> \in WallBlocks
  BY <1>3
<1>6. /\ i < s => Cell(i) = Cell(a)
      /\ i >= s => Cell(i) = Cell(a + 11)
      /\ j < t => Cell(j) = Cell(b)
      /\ j >= t => Cell(j) = Cell(b + 11)
  BY <1>1, <1>2
<1> QED
  BY <1>4, <1>5, <1>6

\* Where a sprite may be one frame later.
Near(X, Y) == {<<X, Y>>, <<X + 1, Y>>, <<X - 1, Y>>, <<X, Y + 1>>, <<X, Y - 1>>}

\* The four late turns: a direction that was open at a passable place leads from
\* every passable place next to it to a passable one.
LEMMA LateRight ==
  ASSUME NEW X \in Nat, NEW Y \in Nat, Passable(X, Y),
         NEW X2 \in Nat, NEW Y2 \in Nat, Passable(X2, Y2),
         <<X2, Y2>> \in Near(X, Y),
         ~CheckWall(X + 9, Y), ~CheckWall(X + 9, Y + 8)
  PROVE  Passable(X2 + 1, Y2)
<1>1. /\ Block - 1 <= X /\ X + 7 < 7 * Block
      /\ Block - 1 <= Y /\ Y + 7 < 7 * Block
  BY PassableInside
<1>2. /\ X - 1 \in Nat /\ X - 1 + 11 < 8 * Block
      /\ Y - 2 \in Nat /\ Y - 2 + 11 < 8 * Block
  BY <1>1, MazeAssumption
<1>3. PICK s \in Int, t \in Int : Quartered(X - 1, Y - 2, s, t)
  BY <1>2, Window
<1>4. InMaze(X2 + 1, Y2)
  BY <1>1, MazeAssumption DEF InMaze, Near
<1>5. Tall(X2 + 1, Y2) \/ Wide(X2 + 1, Y2)
  BY <1>3, SMTT(60) DEF Quartered, Passable, Tall, Wide, Near
<1> QED
  BY <1>4, <1>5 DEF Passable

LEMMA LateLeft ==
  ASSUME NEW X \in Nat, NEW Y \in Nat, Passable(X, Y),
         NEW X2 \in Nat, NEW Y2 \in Nat, Passable(X2, Y2),
         <<X2, Y2>> \in Near(X, Y),
         ~CheckWall(X - 2, Y), ~CheckWall(X - 2, Y + 8)
  PROVE  Passable(X2 - 1, Y2)
<1>1. /\ Block - 1 <= X /\ X + 7 < 7 * Block
      /\ Block - 1 <= Y /\ Y + 7 < 7 * Block
  BY PassableInside
<1>2. /\ X - 2 \in Nat /\ X - 2 + 11 < 8 * Block
      /\ Y - 2 \in Nat /\ Y - 2 + 11 < 8 * Block
  BY <1>1, MazeAssumption
<1>3. PICK s \in Int, t \in Int : Quartered(X - 2, Y - 2, s, t)
  BY <1>2, Window
<1>4. InMaze(X2 - 1, Y2)
  BY <1>1, MazeAssumption DEF InMaze, Near
<1>5. Tall(X2 - 1, Y2) \/ Wide(X2 - 1, Y2)
  BY <1>3, SMTT(60) DEF Quartered, Passable, Tall, Wide, Near
<1> QED
  BY <1>4, <1>5 DEF Passable

LEMMA LateDown ==
  ASSUME NEW X \in Nat, NEW Y \in Nat, Passable(X, Y),
         NEW X2 \in Nat, NEW Y2 \in Nat, Passable(X2, Y2),
         <<X2, Y2>> \in Near(X, Y),
         ~CheckWall(X, Y + 9), ~CheckWall(X + 8, Y + 9)
  PROVE  Passable(X2, Y2 + 1)
<1>1. /\ Block - 1 <= X /\ X + 7 < 7 * Block
      /\ Block - 1 <= Y /\ Y + 7 < 7 * Block
  BY PassableInside
<1>2. /\ X - 2 \in Nat /\ X - 2 + 11 < 8 * Block
      /\ Y - 1 \in Nat /\ Y - 1 + 11 < 8 * Block
  BY <1>1, MazeAssumption
<1>3. PICK s \in Int, t \in Int : Quartered(X - 2, Y - 1, s, t)
  BY <1>2, Window
<1>4. InMaze(X2, Y2 + 1)
  BY <1>1, MazeAssumption DEF InMaze, Near
<1>5. Tall(X2, Y2 + 1) \/ Wide(X2, Y2 + 1)
  BY <1>3, SMTT(60) DEF Quartered, Passable, Tall, Wide, Near
<1> QED
  BY <1>4, <1>5 DEF Passable

LEMMA LateUp ==
  ASSUME NEW X \in Nat, NEW Y \in Nat, Passable(X, Y),
         NEW X2 \in Nat, NEW Y2 \in Nat, Passable(X2, Y2),
         <<X2, Y2>> \in Near(X, Y),
         ~CheckWall(X, Y - 2), ~CheckWall(X + 8, Y - 2)
  PROVE  Passable(X2, Y2 - 1)
<1>1. /\ Block - 1 <= X /\ X + 7 < 7 * Block
      /\ Block - 1 <= Y /\ Y + 7 < 7 * Block
  BY PassableInside
<1>2. /\ X - 2 \in Nat /\ X - 2 + 11 < 8 * Block
      /\ Y - 2 \in Nat /\ Y - 2 + 11 < 8 * Block
  BY <1>1, MazeAssumption
<1>3. PICK s \in Int, t \in Int : Quartered(X - 2, Y - 2, s, t)
  BY <1>2, Window
<1>4. InMaze(X2, Y2 - 1)
  BY <1>1, MazeAssumption DEF InMaze, Near
<1>5. Tall(X2, Y2 - 1) \/ Wide(X2, Y2 - 1)
  BY <1>3, SMTT(60) DEF Quartered, Passable, Tall, Wide, Near
<1> QED
  BY <1>4, <1>5 DEF Passable

\* Every passable place has a way out: a corridor is wider than the 12 pixels
\* from two to the left of a sprite to one to its right.
LEMMA WayOut ==
  ASSUME NEW X \in Nat, NEW Y \in Nat, Passable(X, Y)
  PROVE  \/ ~CheckWall(X + 9, Y) /\ ~CheckWall(X + 9, Y + 8)
         \/ ~CheckWall(X - 2, Y) /\ ~CheckWall(X - 2, Y + 8)
         \/ ~CheckWall(X, Y + 9) /\ ~CheckWall(X + 8, Y + 9)
         \/ ~CheckWall(X, Y - 2) /\ ~CheckWall(X + 8, Y - 2)
<1>1. /\ Block - 1 <= X /\ X + 7 < 7 * Block
      /\ Block - 1 <= Y /\ Y + 7 < 7 * Block
  BY PassableInside
<1>2. /\ X - 2 \in Nat /\ X - 2 + 11 < 8 * Block
      /\ Y - 2 \in Nat /\ Y - 2 + 11 < 8 * Block
  BY <1>1, MazeAssumption
<1>3. PICK s \in Int, t \in Int : Quartered(X - 2, Y - 2, s, t)
  BY <1>2, Window
<1> QED
  BY <1>3, SMTT(60) DEF Quartered, Passable, Tall, Wide

\* At a passable place the middle of the sprite is free.
LEMMA PassableCore ==
  ASSUME NEW X \in Nat, NEW Y \in Nat, Passable(X, Y), NEW dx \in 1..7, NEW dy \in 1..7
  PROVE  ~CheckWall(X + dx, Y + dy)
<1>1. /\ Block - 1 <= X /\ X + 7 < 7 * Block
      /\ Block - 1 <= Y /\ Y + 7 < 7 * Block
  BY PassableInside
<1>2. /\ X - 2 \in Nat /\ X - 2 + 11 < 8 * Block
      /\ Y - 2 \in Nat /\ Y - 2 + 11 < 8 * Block
  BY <1>1, MazeAssumption
<1>3. PICK s \in Int, t \in Int : Quartered(X - 2, Y - 2, s, t)
  BY <1>2, Window
<1> QED
  BY <1>3, SMTT(60) DEF Quartered, Passable, Tall, Wide

LEMMA FreePassable ==
  ASSUME NEW X \in Nat, NEW Y \in Nat, InMaze(X, Y), SpriteFree(X, Y)
  PROVE  Passable(X, Y)
<1>1. \A dx, dy \in 0..8 : ~CheckWall(X + dx, Y + dy)
  BY DEF SpriteFree
<1>2. /\ ~CheckWall(X + 1, Y + 0) /\ ~CheckWall(X + 7, Y + 0)
      /\ ~CheckWall(X + 1, Y + 8) /\ ~CheckWall(X + 7, Y + 8)
  BY <1>1
<1>3. Y + 0 = Y
  OBVIOUS
<1> QED
  BY <1>2, <1>3 DEF Passable, Tall

-----------------------------------------------------------------------------
(* The same for a step of one pixel in 10-bit registers.                   *)

Units == {<<1, 0>>, <<0, 1>>, <<NegOne, 0>>, <<0, NegOne>>}
Steps == Units \cup {<<0, 0>>}

\* A sprite at (X, Y) takes the motion m that was chosen before and chooses u.
LEMMA LateTurn ==
  ASSUME NEW X \in Nat, NEW Y \in Nat, Passable(X, Y),
         NEW m \in Steps, Passable(Add10(X, m[1]), Add10(Y, m[2])),
         NEW u \in Units, ~SpriteWall(X, Y, u[1], u[2])
  PROVE  Passable(Add10(Add10(X, m[1]), u[1]), Add10(Add10(Y, m[2]), u[2]))
<1> DEFINE X2 == Add10(X, m[1])
           Y2 == Add10(Y, m[2])
<1>1. /\ X \in 3..1013 /\ Y \in 3..1013
      /\ X \in 2..1014 /\ Y \in 2..1014
  BY PassableInside, MazeAssumption
<1>2. <<X2, Y2>> \in Near(X, Y) /\ X2 \in 2..1014 /\ Y2 \in 2..1014
  <2>1. /\ Add10(X, 0) = X /\ Add10(X, 1) = X + 1 /\ Add10(X, NegOne) = X - 1
        /\ Add10(Y, 0) = Y /\ Add10(Y, 1) = Y + 1 /\ Add10(Y, NegOne) = Y - 1
    BY <1>1, OneStep
  <2> QED
    BY <1>1, <2>1 DEF Steps, Units, Near
<1>3. Passable(X2, Y2)
  OBVIOUS
<1> HIDE DEF X2, Y2
<1>4. /\ Add10(X2, 0) = X2 /\ Add10(X2, 1) = X2 + 1 /\ Add10(X2, NegOne) = X2 - 1
      /\ Add10(Y2, 0) = Y2 /\ Add10(Y2, 1) = Y2 + 1 /\ Add10(Y2, NegOne) = Y2 - 1
  BY <1>2, OneStep
<1>5. X2 \in Nat /\ Y2 \in Nat
  BY <1>2
<1>6. /\ ~SpriteWall(X, Y, 1, 0) => ~CheckWall(X + 9, Y) /\ ~CheckWall(X + 9, Y + 8)
      /\ ~SpriteWall(X, Y, 0, 1) => ~CheckWall(X, Y + 9) /\ ~CheckWall(X + 8, Y + 9)
      /\ ~SpriteWall(X, Y, NegOne, 0) => ~CheckWall(X - 2, Y) /\ ~CheckWall(X - 2, Y + 8)
      /\ ~SpriteWall(X, Y, 0, NegOne) => ~CheckWall(X, Y - 2) /\ ~CheckWall(X + 8, Y - 2)
  <2>1. X \in 2..1014 /\ Y \in 2..1014
    BY <1>1
  <2> QED
    BY <2>1, OpenAhead, Zenon
<1> SUFFICES Passable(Add10(X2, u[1]), Add10(Y2, u[2]))
  BY DEF X2, Y2
<1>7. CASE u = <<1, 0>>
  <2>1. ~SpriteWall(X, Y, 1, 0)
    BY <1>7
  <2>2. ~CheckWall(X + 9, Y) /\ ~CheckWall(X + 9, Y + 8)
    BY <1>6, <2>1
  <2>3. Passable(X2 + 1, Y2)
    BY <1>2, <1>3, <1>5, <2>2, LateRight
  <2> QED
    BY <1>4, <1>7, <2>3
<1>8. CASE u = <<0, 1>>
  <2>1. ~SpriteWall(X, Y, 0, 1)
    BY <1>8
  <2>2. ~CheckWall(X, Y + 9) /\ ~CheckWall(X + 8, Y + 9)
    BY <1>6, <2>1
  <2>3. Passable(X2, Y2 + 1)
    BY <1>2, <1>3, <1>5, <2>2, LateDown
  <2> QED
    BY <1>4, <1>8, <2>3
<1>9. CASE u = <<NegOne, 0>>
  <2>1. ~SpriteWall(X, Y, NegOne, 0)
    BY <1>9
  <2>2. ~CheckWall(X - 2, Y) /\ ~CheckWall(X - 2, Y + 8)
    BY <1>6, <2>1
  <2>3. Passable(X2 - 1, Y2)
    BY <1>2, <1>3, <1>5, <2>2, LateLeft
  <2> QED
    BY <1>4, <1>9, <2>3
<1>10. CASE u = <<0, NegOne>>
  <2>1. ~SpriteWall(X, Y, 0, NegOne)
    BY <1>10
  <2>2. ~CheckWall(X, Y - 2) /\ ~CheckWall(X + 8, Y - 2)
    BY <1>6, <2>1
  <2>3. Passable(X2, Y2 - 1)
    BY <1>2, <1>3, <1>5, <2>2, LateUp
  <2> QED
    BY <1>4, <1>10, <2>3
<1> QED
  BY <1>7, <1>8, <1>9, <1>10 DEF Units

LEMMA OpenUnit ==
  ASSUME NEW X \in Nat, NEW Y \in Nat, Passable(X, Y)
  PROVE  \E u \in Units : ~SpriteWall(X, Y, u[1], u[2])
<1>1. X \in 2..1014 /\ Y \in 2..1014
  BY PassableInside, MazeAssumption
<1>2. \/ ~SpriteWall(X, Y, 1, 0) \/ ~SpriteWall(X, Y, NegOne, 0)
      \/ ~SpriteWall(X, Y, 0, 1) \/ ~SpriteWall(X, Y, 0, NegOne)
  BY <1>1, WayOut, Lookahead
<1> QED
  BY <1>2 DEF Units
=============================================================================
