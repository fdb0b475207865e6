----------------------------- MODULE GhostProofs ------------------------------
(***************************************************************************)
(* For every block size, every maze with a closed border, every free home  *)
(* and wherever the player is: a ghost overruns the edge of a wall by one  *)
(* pixel at most, always has a way out, and takes only open ways.          *)
(***************************************************************************)
EXTENDS Ghost, MazeProofs

\* The member of a set that comes first in an order of all directions is one.
LEMMA FirstMember ==
  ASSUME NEW dirs \in SUBSET Directions, dirs # {}, NEW order,
         \A dir \in Directions : \E i \in 1..4 : order[i] = dir
  PROVE  First(dirs, order) \in dirs
<1> DEFINE P(i) == order[i] \in dirs /\ \A j \in 1..i - 1 : order[j] \notin dirs
<1>1. PICK k \in 1..4 : order[k] \in dirs
  OBVIOUS
<1>2. P(1) \/ P(2) \/ P(3) \/ P(4)
  <2>1. CASE order[1] \in dirs
    BY <2>1
  <2>2. CASE order[1] \notin dirs /\ order[2] \in dirs
    BY <2>2
  <2>3. CASE order[1] \notin dirs /\ order[2] \notin dirs /\ order[3] \in dirs
    BY <2>3
  <2>4. CASE /\ order[1] \notin dirs /\ order[2] \notin dirs
             /\ order[3] \notin dirs /\ order[4] \in dirs
    BY <2>4
  <2> QED
    BY <1>1, <2>1, <2>2, <2>3, <2>4
<1>3. \E i \in 1..4 : P(i)
  BY <1>2
<1>4. P(CHOOSE i \in 1..4 : P(i))
  BY <1>3
<1> QED
  BY <1>4 DEF First

\* Whatever the distances are, the chooser takes an open direction if there is
\* one: the detour's four choices leave none out (ghost.sv:61-114).
LEMMA ChoosesOpen ==
  ASSUME Open # {}, NEW pacman, NEW reversal
  PROVE  direction(pacman, reversal) \in Open
<1> DEFINE distance == distances(pacman)
           best == findMinFour(distance, reversal)
<1>1. Open \in SUBSET Directions
  BY DEF Open
<1>2. First(Open, <<Right, Up, Left, Down>>) \in Open
  BY <1>1, FirstMember DEF Directions, Right, Up, Left, Down
<1>3. best \cap Open # {} =>
        First(best \cap Open, <<Up, Down, Left, Right>>) \in best \cap Open
  BY <1>1, FirstMember DEF Directions, Right, Up, Left, Down
<1>4. Detour(distance, best) \in Open
  BY <1>2 DEF Detour
<1> QED
  BY <1>3, <1>4 DEF direction

\* A multiple of m more is the same residue.
LEMMA AddMultiple ==
  ASSUME NEW a \in Int, NEW b \in Int, NEW m \in Nat \ {0}, NEW k \in Int, a = b + m * k
  PROVE  a % m = b % m
<1> DEFINE q == b \div m
           r == b % m
<1>1. q \in Int /\ r \in 0..m - 1 /\ b = m * q + r
  BY SMT
<1>2. a = m * (q + k) + r
  BY <1>1, SMT
<1>3. \A x, y \in Int : y \in 0..m - 1 => (m * x + y) % m = y
  BY SMT
<1>4. q + k \in Int
  BY <1>1, SMT
<1>5. (m * (q + k) + r) % m = r /\ (m * q + r) % m = r
  <2> HIDE DEF q, r
  <2> QED
    BY <1>1, <1>3, <1>4
<1> HIDE DEF q, r
<1> QED
  BY <1>1, <1>2, <1>5

\* Square20, which works by halves so that TLC can evaluate it, is the 20-bit
\* square of the distances (ghost.sv:48,689), for every number.
THEOREM SquareByHalves == \A n \in Int : Square20(n) = (n * n) % 1048576
<1> SUFFICES ASSUME NEW n \in Int
             PROVE  Square20(n) = (n * n) % 1048576
  BY SMT
<1> DEFINE low == n % 1024
           q == n \div 1024
           high == (n % 1048576) \div 1024
           t == q \div 1024
           c == 2 * high * low
<1>1. low \in 0..1023 /\ q \in Int /\ n = 1024 * q + low
  BY SMT
<1>2. high \in Int /\ t \in Int /\ q = high + 1024 * t
  <2>1. n % 1048576 = 1024 * (q % 1024) + low
    BY <1>1, SMT
  <2>2. high = q % 1024
    BY <1>1, <2>1, SMT
  <2> HIDE DEF q, high
  <2> QED
    BY <1>1, <2>2, SMT
<1>3. c \in Int
  BY <1>1, <1>2, SMT
<1>4. PICK s \in Int : c = 1024 * s + (c % 1024)
  <2>1. c \div 1024 \in Int /\ c = 1024 * (c \div 1024) + (c % 1024)
    <3> HIDE DEF c
    <3> QED
      BY <1>3, SMT
  <2> QED
    BY <2>1, SMT
<1> DEFINE w == (c % 1024) * 1024 + low * low
<1>5. w \in Int
  BY <1>1, <1>3, SMT
<1>6. n * n = w + 1048576 * (q * q + 2 * t * low + s)
  <2> HIDE DEF low, q, high, t
  <2>1. n * n = 1048576 * (q * q) + 1024 * (2 * q * low) + low * low
    BY <1>1, SMT
  <2>2. 2 * q * low = c + 1024 * (2 * t * low)
    BY <1>1, <1>2, SMT
  <2>3. 1024 * c = 1048576 * s + 1024 * (c % 1024)
    <3> HIDE DEF c
    <3> QED
      BY <1>3, <1>4, SMT
  <2> DEFINE tl == 2 * t * low
             qq == q * q
             ll == low * low
             cm == c % 1024
  <2>4. tl \in Int /\ qq \in Int /\ ll \in Int /\ cm \in Int
    BY <1>1, <1>2, <1>3, SMT
  <2>5. n * n = 1048576 * qq + 1024 * (c + 1024 * tl) + ll
    BY <2>1, <2>2, SMT
  <2> HIDE DEF tl, qq, ll, cm, c
  <2>6. n * n = cm * 1024 + ll + 1048576 * (qq + tl + s)
    BY <2>3, <2>4, <2>5, <1>3, SMT DEF cm
  <2> QED
    BY <2>6, SMT DEF tl, qq, ll, cm
<1>7. q * q + 2 * t * low + s \in Int /\ n * n \in Int
  BY <1>1, <1>2, SMT
<1>8. (n * n) % 1048576 = w % 1048576
  <2> HIDE DEF w, low, q, t
  <2> QED
    BY <1>5, <1>6, <1>7, AddMultiple, SMT
<1> QED
  BY <1>8, SMT DEF Square20, Wrap20

-----------------------------------------------------------------------------
motion == <<ghostXmotion, ghostYmotion>>

\* The inductive invariant: the ghost is at a passable place, and so it will be
\* after the motion that it has already chosen.  OverrunsByOnePixel alone is not
\* inductive, since the next motion is chosen without a look at where the last
\* one leads.
Inv == /\ TypeOK
       /\ motion \in Steps
       /\ Passable(ghostX, ghostY)
       /\ Passable(Add10(ghostX, ghostXmotion), Add10(ghostY, ghostYmotion))

LEMMA AtRest ==
  ASSUME NEW X \in Coordinate
  PROVE  Add10(X, 0) = X
  BY DEF Add10, Coordinate

LEMMA HomePassable ==
  ASSUME NEW c \in Colours
  PROVE  /\ Home[c][1] \in Coordinate /\ Home[c][2] \in Coordinate
         /\ Passable(Home[c][1], Home[c][2])
<1> DEFINE hx == Home[c][1]
           hy == Home[c][2]
<1>1. hx \in 0..511 /\ hy \in 0..511 /\ InMaze(hx, hy) /\ SpriteFree(hx, hy)
  BY GhostAssumption
<1> HIDE DEF hx, hy
<1>2. /\ hx \in Nat /\ hy \in Nat
      /\ hx \in Coordinate /\ hy \in Coordinate
  BY <1>1 DEF Coordinate
<1>3. Passable(hx, hy)
  BY <1>1, <1>2, FreePassable
<1> QED
  BY <1>2, <1>3 DEF hx, hy

LEMMA HomePair ==
  ASSUME NEW c \in Colours
  PROVE  <<Home[c][1], Home[c][2]>> = Home[c]
<1>1. Home[c] \in (0..511) \X (0..511)
  BY GhostAssumption
<1> QED
  BY <1>1

LEMMA InitInv == Init => Inv
<1> SUFFICES ASSUME Init
             PROVE  Inv
  OBVIOUS
<1>1. TypeOK
  BY HomePassable DEF Init, TypeOK, Motion
<1>2. motion \in Steps
  BY DEF Init, motion, Steps
<1> QED
  BY <1>1, <1>2, HomePassable, AtRest DEF Init, Inv

LEMMA GoHomeInv ==
  ASSUME Inv, GoHome, UNCHANGED colour, hasMoved' \in BOOLEAN, death' \in BOOLEAN
  PROVE  Inv'
<1>1. TypeOK'
  BY HomePassable DEF Inv, TypeOK, GoHome, Motion
<1>2. motion' \in Steps
  BY DEF GoHome, motion, Steps
<1>3. /\ Passable(ghostX', ghostY')
      /\ Passable(Add10(ghostX', ghostXmotion'), Add10(ghostY', ghostYmotion'))
  BY HomePassable, AtRest DEF Inv, TypeOK, GoHome
<1> QED
  BY <1>1, <1>2, <1>3 DEF Inv

LEMMA HaltInv ==
  ASSUME Inv, Halt, UNCHANGED colour, hasMoved' \in BOOLEAN, death' \in BOOLEAN
  PROVE  Inv'
<1>1. TypeOK'
  BY DEF Inv, TypeOK, Halt, Motion
<1>2. motion' \in Steps
  BY DEF Halt, motion, Steps
<1>3. /\ Passable(ghostX', ghostY')
      /\ Passable(Add10(ghostX', ghostXmotion'), Add10(ghostY', ghostYmotion'))
  BY AtRest DEF Inv, TypeOK, Halt
<1> QED
  BY <1>1, <1>2, <1>3 DEF Inv

\* The four directions that the chooser may find open are the four units.
LEMMA OpenDirection ==
  ASSUME NEW dir \in Open
  PROVE  /\ Unit[dir + 1] \in Units
         /\ ~SpriteWall(ghostX, ghostY, Unit[dir + 1][1], Unit[dir + 1][2])
         /\ MotionOf(dir) = Unit[dir + 1]
<1>1. dir \in {0, 1, 2, 3} /\ ~SpriteWall(ghostX, ghostY, UnitX(dir), UnitY(dir))
  BY DEF Open, Blocked, Directions
<1>2. Unit[dir + 1] \in Units
  BY <1>1 DEF Unit, Units
<1> QED
  BY <1>1, <1>2 DEF MotionOf, Directions, UnitX, UnitY

LEMMA SomeOpen ==
  ASSUME Inv
  PROVE  Open # {}
<1>1. ghostX \in Nat /\ ghostY \in Nat
  BY DEF Inv, TypeOK, Coordinate
<1>2. PICK u \in Units : ~SpriteWall(ghostX, ghostY, u[1], u[2])
  BY <1>1, OpenUnit DEF Inv
<1>3. PICK dir \in {0, 1, 2, 3} : Unit[dir + 1] = u
  BY DEF Units, Unit
<1>4. ~Blocked(dir)
  BY <1>2, <1>3 DEF Blocked, UnitX, UnitY
<1> QED
  BY <1>3, <1>4 DEF Open, Directions

\* A step of the chase: whatever is chosen is open at the old position.
LEMMA PursueStep ==
  ASSUME Inv, NEW pacman, NEW reversal, Pursue(pacman, reversal)
  PROVE  /\ motion' \in Units
         /\ ~SpriteWall(ghostX, ghostY, ghostXmotion', ghostYmotion')
         /\ ghostX' = Add10(ghostX, ghostXmotion)
         /\ ghostY' = Add10(ghostY, ghostYmotion)
<1> DEFINE dir == direction(pacman, reversal)
<1>1. dir \in Open
  BY SomeOpen, ChoosesOpen
<1> HIDE DEF dir
<1>2. ghostXmotion' = Unit[dir + 1][1] /\ ghostYmotion' = Unit[dir + 1][2]
  BY <1>1, OpenDirection DEF Pursue, dir
<1>3. <<Unit[dir + 1][1], Unit[dir + 1][2]>> = Unit[dir + 1]
  BY <1>1, OpenDirection DEF Units
<1> QED
  BY <1>1, <1>2, <1>3, OpenDirection DEF Pursue, motion

LEMMA PursueInv ==
  ASSUME Inv, NEW pacman, NEW reversal, Pursue(pacman, reversal),
         UNCHANGED colour, hasMoved' \in BOOLEAN, death' \in BOOLEAN
  PROVE  Inv'
<1>1. /\ motion' \in Units
      /\ ~SpriteWall(ghostX, ghostY, ghostXmotion', ghostYmotion')
      /\ ghostX' = Add10(ghostX, ghostXmotion)
      /\ ghostY' = Add10(ghostY, ghostYmotion)
  BY PursueStep
<1>2. ghostXmotion' \in Motion /\ ghostYmotion' \in Motion
  BY <1>1 DEF motion, Units, Motion
<1>3. ghostX' \in Coordinate /\ ghostY' \in Coordinate
  BY <1>1 DEF Inv, TypeOK, Add10, Coordinate, Motion, NegOne
<1>4. Passable(ghostX', ghostY')
  BY <1>1 DEF Inv
<1>5. Passable(Add10(ghostX', ghostXmotion'), Add10(ghostY', ghostYmotion'))
  <2> DEFINE u == motion'
             m == motion
  <2>1. /\ ghostX \in Nat /\ ghostY \in Nat /\ Passable(ghostX, ghostY)
        /\ m \in Steps /\ Passable(Add10(ghostX, m[1]), Add10(ghostY, m[2]))
    BY DEF Inv, TypeOK, Coordinate, motion
  <2>2. u \in Units /\ ~SpriteWall(ghostX, ghostY, u[1], u[2])
    BY <1>1 DEF motion
  <2>3. /\ m[1] = ghostXmotion /\ m[2] = ghostYmotion
        /\ u[1] = ghostXmotion' /\ u[2] = ghostYmotion'
    BY DEF motion
  <2> HIDE DEF u, m
  <2>4. Passable(Add10(Add10(ghostX, m[1]), u[1]), Add10(Add10(ghostY, m[2]), u[2]))
    BY <2>1, <2>2, LateTurn
  <2> QED
    BY <1>1, <2>3, <2>4
<1>6. TypeOK'
  BY <1>2, <1>3 DEF Inv, TypeOK
<1> QED
  BY <1>1, <1>4, <1>5, <1>6 DEF Inv, Steps

\* Every step goes home, halts or chases.
LEMMA StepKinds ==
  ASSUME Inv, Next
  PROVE  /\ UNCHANGED colour /\ hasMoved' \in BOOLEAN /\ death' \in BOOLEAN
         /\ \/ GoHome \/ Halt
            \/ \E pacman \in PacmanPositions, reversal \in BOOLEAN : Pursue(pacman, reversal)
  BY DEF Inv, TypeOK, Next, Tick, Reset, Freeze, Caught, Wait, Chase

LEMMA NextInv == Inv /\ [Next]_vars => Inv'
<1> SUFFICES ASSUME Inv, [Next]_vars
             PROVE  Inv'
  OBVIOUS
<1>1. CASE Next
  BY <1>1, StepKinds, GoHomeInv, HaltInv, PursueInv
<1>2. CASE UNCHANGED vars
  BY <1>2 DEF vars, ghost, Inv, TypeOK, motion
<1> QED
  BY <1>1, <1>2

\* A ghost on the chase moves by one pixel at most, without a wrap.
LEMMA PursueNear ==
  ASSUME Inv, NEW pacman, NEW reversal, Pursue(pacman, reversal)
  PROVE  /\ ghostX \in Int /\ ghostY \in Int
         /\ <<ghostX', ghostY'>> \in Near(ghostX, ghostY)
<1>1. ghostX \in Nat /\ ghostY \in Nat /\ Passable(ghostX, ghostY)
  BY DEF Inv, TypeOK, Coordinate
<1>2. ghostX \in 2..1014 /\ ghostY \in 2..1014
  BY <1>1, PassableInside, MazeAssumption
<1>3. ghostX' = Add10(ghostX, ghostXmotion) /\ ghostY' = Add10(ghostY, ghostYmotion)
  BY DEF Pursue
<1>4. /\ Add10(ghostX, 0) = ghostX /\ Add10(ghostX, 1) = ghostX + 1
      /\ Add10(ghostX, NegOne) = ghostX - 1
      /\ Add10(ghostY, 0) = ghostY /\ Add10(ghostY, 1) = ghostY + 1
      /\ Add10(ghostY, NegOne) = ghostY - 1
  BY <1>2, OneStep
<1> QED
  BY <1>1, <1>3, <1>4 DEF Inv, motion, Steps, Units, Near

\* A ghost is on its track, or one pixel past the end of one, with a way out
\* (ghost.sv:61-194).
THEOREM Invariance == Spec => []Inv
  BY InitInv, NextInv, PTL DEF Spec

\* Every register keeps to its width.
THEOREM TypeCorrect == Spec => []TypeOK
<1>1. Inv => TypeOK
  BY DEF Inv
<1> QED
  BY <1>1, Invariance, PTL

\* A ghost never gets further than one pixel into a wall, whatever it chases
\* and however it is turned (ghost.sv:61-114, 193-194).
THEOREM StaysOnTrack == Spec => []OverrunsByOnePixel
<1>1. Inv => OverrunsByOnePixel
  <2> SUFFICES ASSUME Inv
               PROVE  OverrunsByOnePixel
    OBVIOUS
  <2>1. ghostX \in Nat /\ ghostY \in Nat /\ Passable(ghostX, ghostY)
    BY DEF Inv, TypeOK, Coordinate
  <2> QED
    BY <2>1, PassableCore DEF OverrunsByOnePixel, Passable
<1> QED
  BY <1>1, Invariance, PTL

\* The case without a way out, in which ghost_red would go on through a wall,
\* never arises.
THEOREM AlwaysAWay == Spec => []NeverCornered
<1>1. Inv => NeverCornered
  BY SomeOpen DEF NeverCornered
<1> QED
  BY <1>1, Invariance, PTL

-----------------------------------------------------------------------------
\* SpriteWall means the same to the walk as to the ghost.
LEMMA SameWalls ==
  ASSUME NEW X, NEW Y, NEW mx, NEW my
  PROVE  Walk!SpriteWall(X, Y, mx, my) = SpriteWall(X, Y, mx, my)
  BY DEF Walk!SpriteWall, Walk!CheckWall, Walk!Cell, Walk!Add10, Walk!Sub10,
     Walk!FarEdge, SpriteWall, CheckWall, Cell, Add10, Sub10, FarEdge

\* Every ghost implements the walk, whichever colour it has.
THEOREM Refinement == Spec => Roams
<1>1. Init => Walk!Init
  BY HomePair DEF Init, Walk!Init
<1>2. Inv /\ [Next]_vars => [Walk!Next]_<<Home[colour], ghostX, ghostY, ghostXmotion, ghostYmotion>>
  <2> SUFFICES ASSUME Inv, [Next]_vars
               PROVE  [Walk!Next]_<<Home[colour], ghostX, ghostY, ghostXmotion, ghostYmotion>>
    OBVIOUS
  <2>1. CASE Next /\ GoHome
    BY <2>1, StepKinds, HomePair DEF Inv, TypeOK, GoHome, Walk!Next, Walk!GoHome, Walk!Rest
  <2>2. CASE Next /\ Halt
    BY <2>2, StepKinds DEF Halt, Walk!Next, Walk!Hold, Walk!Rest
  <2>3. ASSUME Next, NEW pacman, NEW reversal, Pursue(pacman, reversal)
        PROVE  Walk!Next
    BY <2>3, StepKinds, PursueStep, SameWalls
    DEF Walk!Next, Walk!Roam, Walk!Units, Units, motion, Walk!Add10, Add10, Walk!NegOne, NegOne
  <2>4. CASE UNCHANGED vars
    BY <2>4 DEF vars, ghost
  <2> QED
    BY <2>1, <2>2, <2>3, <2>4, StepKinds
<1> QED
  BY <1>1, <1>2, Invariance, PTL DEF Spec, Roams, Walk!Spec
=============================================================================
