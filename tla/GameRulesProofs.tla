-------------------------- MODULE GameRulesProofs ---------------------------
(***************************************************************************)
(* The rules, for any number of ghosts, fruits and dots and any lengths.   *)
(***************************************************************************)
EXTENDS GameRules, FiniteSetTheorems, TLAPS

\* Before the first key nobody is near the player: NotCaughtAtStart holds with
\* or without the ghosts that were eaten.
NobodyNearAtStart == ~hasMoved => near = {}

\* The inductive invariant.  Each part is inductive with the types, except
\* that a score without overflow needs that it counts dots.
Inv == /\ TypeOK
       /\ ScoreIsDotsEaten
       /\ CounterIdle
       /\ DeathHasNoLives
       /\ NobodyNearAtStart

LEMMA DotsBound == Cardinality(Dots) \in 0..2047
<1>1. Cardinality(Dots) \in Nat
  BY RulesAssumption, FS_CardinalityType
<1> QED
  BY <1>1, RulesAssumption

LEMMA ScoreBound ==
  ASSUME NEW S, S \subseteq Dots
  PROVE  /\ IsFiniteSet(Dots \ S)
         /\ Cardinality(Dots \ S) \in 0..Cardinality(Dots)
<1>1. IsFiniteSet(Dots) /\ Cardinality(Dots) < 2048
  BY RulesAssumption
<1>2. Dots \ S \subseteq Dots
  OBVIOUS
<1>3. Cardinality(Dots) \in Nat
  BY <1>1, FS_CardinalityType
<1>4. IsFiniteSet(Dots \ S) /\ Cardinality(Dots \ S) <= Cardinality(Dots)
  BY <1>1, <1>2, FS_Subset
<1>5. Cardinality(Dots \ S) \in Nat
  BY <1>4, FS_CardinalityType
<1> QED
  BY <1>1, <1>3, <1>4, <1>5

LEMMA InitInv == Init => Inv
<1> SUFFICES ASSUME Init
             PROVE  Inv
  OBVIOUS
<1>1. Dots \ dots = {}
  BY DEF Init, InitRules
<1>2. Cardinality(Dots \ dots) = 0
  BY <1>1, FS_EmptySet
<1>3. 0 \in 0..Cardinality(Dots)
  BY DotsBound
<1>4. 0 \in 0..ReversalTicks
  BY RulesAssumption
<1>5. TypeOK
  <2>1. lives \in 0..StartLives /\ reversal_counter \in 0..ReversalTicks
    BY <1>4 DEF Init, InitRules, StartLives
  <2>2. death \in BOOLEAN /\ reversal \in BOOLEAN /\ hasMoved \in BOOLEAN
    BY DEF Init, InitRules
  <2>3. enabled \subseteq Ghosts /\ fruits \subseteq Fruits /\ dots \subseteq Dots
    BY DEF Init, InitRules
  <2>4. score \in 0..Cardinality(Dots)
    BY <1>3 DEF Init, InitRules
  <2>5. near \subseteq Ghosts /\ fruit \in Fruits \cup {NoFruit} /\ dot \in Dots
    BY RulesAssumption DEF Init, InitRules
  <2> QED
    BY <2>1, <2>2, <2>3, <2>4, <2>5 DEF TypeOK
<1>6. ScoreIsDotsEaten
  BY <1>2 DEF Init, InitRules, ScoreIsDotsEaten
<1>7. CounterIdle /\ DeathHasNoLives /\ NobodyNearAtStart
  BY DEF Init, InitRules, CounterIdle, DeathHasNoLives, NobodyNearAtStart
<1> QED
  BY <1>5, <1>6, <1>7 DEF Inv

LEMMA ResetInv == Inv /\ Reset => Inv'
<1> SUFFICES ASSUME Inv, Reset
             PROVE  Inv'
  OBVIOUS
<1>1. Dots \ dots' = {}
  BY DEF Reset, ResetRules
<1>2. Cardinality(Dots \ dots') = 0
  BY <1>1, FS_EmptySet
<1>3. 0 \in 0..Cardinality(Dots)
  BY DotsBound
<1>4. 0 \in 0..ReversalTicks
  BY RulesAssumption
<1>5. TypeOK'
  <2>1. lives' \in 0..StartLives /\ reversal_counter' \in 0..ReversalTicks
    BY <1>4 DEF Reset, ResetRules, GoHome, StartLives
  <2>2. death' \in BOOLEAN /\ reversal' \in BOOLEAN /\ hasMoved' \in BOOLEAN
    BY DEF Reset, ResetRules, GoHome, Inv, TypeOK
  <2>3. enabled' \subseteq Ghosts /\ fruits' \subseteq Fruits /\ dots' \subseteq Dots
    BY DEF Reset, ResetRules, GoHome
  <2>4. score' \in 0..Cardinality(Dots)
    BY <1>3 DEF Reset, ResetRules, GoHome
  <2>5. near' \subseteq Ghosts /\ fruit' \in Fruits \cup {NoFruit} /\ dot' \in Dots
    BY RulesAssumption DEF Reset, ResetRules, GoHome
  <2> QED
    BY <2>1, <2>2, <2>3, <2>4, <2>5 DEF TypeOK
<1>6. ScoreIsDotsEaten'
  BY <1>2 DEF Reset, ResetRules, GoHome, ScoreIsDotsEaten
<1>7. CounterIdle' /\ DeathHasNoLives' /\ NobodyNearAtStart'
  BY DEF Reset, ResetRules, GoHome, CounterIdle, DeathHasNoLives, NobodyNearAtStart
<1> QED
  BY <1>5, <1>6, <1>7 DEF Inv

\* One lemma per always_ff block, for the registers that it owns.
LEMMA LivesKept ==
  ASSUME Inv, Lives
  PROVE  /\ lives' \in 0..StartLives /\ death' \in BOOLEAN
         /\ enabled' \subseteq Ghosts
         /\ DeathHasNoLives'
<1>1. /\ lives \in 0..StartLives /\ death \in BOOLEAN /\ enabled \subseteq Ghosts
      /\ death => lives = 0
  BY DEF Inv, TypeOK, DeathHasNoLives
<1>2. CASE lives = 0 /\ death' = TRUE /\ UNCHANGED <<lives, enabled>>
  BY <1>1, <1>2 DEF DeathHasNoLives
<1>3. CASE lives > 0 /\ lives' = lives - 1 /\ UNCHANGED <<death, enabled>>
  BY <1>1, <1>3 DEF DeathHasNoLives, StartLives
<1>4. CASE enabled' = enabled \ near /\ UNCHANGED <<lives, death>>
  BY <1>1, <1>4 DEF DeathHasNoLives
<1>5. CASE UNCHANGED <<lives, death, enabled>>
  BY <1>1, <1>5 DEF DeathHasNoLives
<1> QED
  BY <1>2, <1>3, <1>4, <1>5 DEF Lives

LEMMA ReversalKept ==
  ASSUME Inv, Reversal
  PROVE  /\ reversal' \in BOOLEAN
         /\ reversal_counter' \in 0..ReversalTicks
         /\ fruits' \subseteq Fruits
         /\ CounterIdle'
<1>1. /\ reversal \in BOOLEAN /\ reversal_counter \in 0..ReversalTicks
      /\ fruits \subseteq Fruits
      /\ ~reversal => reversal_counter = 0
  BY DEF Inv, TypeOK, CounterIdle
<1>2. ReversalTicks \in 1..1023
  BY RulesAssumption
<1>3. CASE EndReversal
  <2>1. reversal' = FALSE /\ reversal_counter' = 0 /\ fruits' = fruits
    BY <1>3 DEF EndReversal
  <2>2. 0 \in 0..ReversalTicks
    BY <1>2
  <2> QED
    BY <2>1, <2>2, <1>1 DEF CounterIdle
<1>4. CASE ~ReversalOver /\ reversal /\ CountReversal
  <2>1. reversal_counter + 1 \in 0..ReversalTicks
    BY <1>1, <1>2, <1>4 DEF ReversalOver
  <2>2. reversal_counter' = reversal_counter + 1
    BY <2>1, <1>2, <1>4 DEF CountReversal
  <2>3. reversal' = reversal /\ fruits' = fruits
    BY <1>4 DEF CountReversal
  <2> QED
    BY <1>1, <1>4, <2>1, <2>2, <2>3 DEF CounterIdle
<1>5. CASE EatFruit
  BY <1>1, <1>5 DEF EatFruit, CounterIdle
<1>6. CASE UNCHANGED <<reversal, reversal_counter, fruits>>
  BY <1>1, <1>6 DEF CounterIdle
<1> QED
  BY <1>3, <1>4, <1>5, <1>6 DEF Reversal

LEMMA DotsKept ==
  ASSUME Inv, EatDots
  PROVE  /\ dots' \subseteq Dots
         /\ score' \in 0..Cardinality(Dots)
         /\ ScoreIsDotsEaten'
         /\ dots' \subseteq dots /\ score' >= score
<1>1. dots \subseteq Dots /\ score = Cardinality(Dots \ dots)
  BY DEF Inv, TypeOK, ScoreIsDotsEaten
<1>2. CASE dot \in dots /\ dots' = dots \ {dot} /\ score' = (score + 1) % 2048
  <2>1. Dots \ dots' = (Dots \ dots) \cup {dot} /\ dot \notin Dots \ dots
    BY <1>1, <1>2
  <2>2. Cardinality(Dots \ dots') = Cardinality(Dots \ dots) + 1
    <3>1. IsFiniteSet(Dots \ dots)
      BY <1>1, ScoreBound
    <3> QED
      BY <3>1, <2>1, FS_AddElement
  <2>3. dots' \subseteq Dots
    BY <1>1, <1>2
  <2>4. score + 1 \in 0..2047 /\ score + 1 \in 0..Cardinality(Dots)
    <3> DEFINE left == Cardinality(Dots \ dots')
               eaten == Cardinality(Dots \ dots)
               all == Cardinality(Dots)
    <3>1. left \in 0..all
      BY <2>3, ScoreBound
    <3>2. eaten \in 0..all
      BY <1>1, ScoreBound
    <3>3. all \in 0..2047
      BY DotsBound
    <3>4. score = eaten /\ left = eaten + 1
      BY <1>1, <2>2
    <3> HIDE DEF left, eaten, all
    <3>5. score + 1 \in 0..2047 /\ score + 1 \in 0..all
      BY <3>1, <3>2, <3>3, <3>4
    <3> QED
      BY <3>5 DEF all
  <2>5. score' = score + 1
    BY <1>2, <2>4
  <2>6. score \in Nat
    BY <1>1, ScoreBound
  <2>7. dots' \subseteq dots /\ score' >= score
    BY <1>2, <2>5, <2>6
  <2> QED
    BY <1>1, <2>2, <2>3, <2>4, <2>5, <2>7 DEF ScoreIsDotsEaten
<1>3. CASE UNCHANGED <<dots, score>>
  <2>1. score \in Nat
    BY <1>1, ScoreBound
  <2> QED
    BY <1>1, <1>3, <2>1 DEF Inv, TypeOK, ScoreIsDotsEaten
<1> QED
  BY <1>2, <1>3 DEF EatDots

LEMMA SpritesKept ==
  ASSUME Inv, Sprites
  PROVE  /\ near' \subseteq Ghosts /\ fruit' \in Fruits \cup {NoFruit}
         /\ dot' \in Dots /\ hasMoved' \in BOOLEAN
         /\ NobodyNearAtStart'
<1>1. /\ near \subseteq Ghosts /\ fruit \in Fruits \cup {NoFruit}
      /\ dot \in Dots /\ hasMoved \in BOOLEAN
      /\ ~hasMoved => near = {}
  BY DEF Inv, TypeOK, NobodyNearAtStart
<1>2. CASE SpritesFrozen
  BY <1>1, <1>2 DEF SpritesFrozen, sprites, NobodyNearAtStart
<1>3. CASE SpritesGoHome
  <2>1. near' = {} /\ fruit' = NoFruit /\ dot' = HomeDot /\ hasMoved' = FALSE
    BY <1>3 DEF SpritesGoHome, GoHome
  <2>2. near' \subseteq Ghosts /\ fruit' \in Fruits \cup {NoFruit} /\ dot' \in Dots
    BY <2>1, RulesAssumption
  <2>3. hasMoved' \in BOOLEAN /\ NobodyNearAtStart'
    BY <2>1 DEF NobodyNearAtStart
  <2> QED
    BY <2>2, <2>3
<1>4. CASE GhostsGoHome
  <2>1. hasMoved
    BY <1>1, <1>4 DEF GhostsGoHome, isDefeated, touching
  <2> QED
    BY <1>1, <1>4, <2>1 DEF GhostsGoHome, NobodyNearAtStart
<1>5. CASE SpritesWait
  <2>1. hasMoved' \in BOOLEAN
    BY <1>5 DEF SpritesWait
  <2> QED
    BY <1>1, <1>5, <2>1 DEF SpritesWait, NobodyNearAtStart
<1>6. CASE GhostsMove
  BY <1>1, <1>6 DEF GhostsMove, NobodyNearAtStart
<1>7. CASE SpritesMove
  BY <1>1, <1>7 DEF SpritesMove, NobodyNearAtStart
<1> QED
  BY <1>2, <1>3, <1>4, <1>5, <1>6, <1>7 DEF Sprites

LEMMA NextInv == Inv /\ [Next]_vars => Inv'
<1> SUFFICES ASSUME Inv, [Next]_vars
             PROVE  Inv'
  OBVIOUS
<1>1. CASE Reset
  BY <1>1, ResetInv
<1>2. CASE Tick
  <2>1. Lives /\ Reversal /\ EatDots /\ Sprites
    BY <1>2 DEF Tick
  <2> QED
    BY <2>1, LivesKept, ReversalKept, DotsKept, SpritesKept DEF Inv, TypeOK
<1>3. CASE UNCHANGED vars
  BY <1>3 DEF vars, rules, sprites, Inv, TypeOK, ScoreIsDotsEaten, CounterIdle,
              DeathHasNoLives, NobodyNearAtStart
<1> QED
  BY <1>1, <1>2, <1>3 DEF Next

-----------------------------------------------------------------------------
\* Every behaviour of the rules, also of a game that is not clocked for ever.
Safety == Init /\ [][Next]_vars

\* What is proved of Safety holds of the specification that TLC checks.
THEOREM SpecIsSafe == Spec => Safety
  BY PTL DEF Spec, Safety

\* The registers of the rules agree with each other, whatever the sprites do
\* (lab62.sv:176-389).
THEOREM Invariance == Safety => []Inv
<1>1. Init => Inv
  BY InitInv
<1>2. Inv /\ [Next]_vars => Inv'
  BY NextInv
<1> QED
  BY <1>1, <1>2, PTL DEF Safety

\* Every register keeps to its range; the score and the reversal counter are
\* computed modulo their widths and never wrap.
THEOREM TypeCorrect == Safety => []TypeOK
<1>1. Inv => TypeOK
  BY DEF Inv
<1> QED
  BY <1>1, Invariance, PTL

\* One point per dot, whatever is reset and in whatever order dots are eaten.
THEOREM ScoreCorrect == Safety => []ScoreIsDotsEaten
<1>1. Inv => ScoreIsDotsEaten
  BY DEF Inv
<1> QED
  BY <1>1, Invariance, PTL

\* A new reversal always has its full time.
THEOREM FullReversal == Safety => []CounterIdle
<1>1. Inv => CounterIdle
  BY DEF Inv
<1> QED
  BY <1>1, Invariance, PTL

\* The game is over only without lives.
THEOREM DeathCorrect == Safety => []DeathHasNoLives
<1>1. Inv => DeathHasNoLives
  BY DEF Inv
<1> QED
  BY <1>1, Invariance, PTL

\* No contact before the player moves.
THEOREM SafeStart == Safety => []NotCaughtAtStart
<1>1. Inv => NotCaughtAtStart
  BY DEF Inv, NobodyNearAtStart, NotCaughtAtStart, touching
<1> QED
  BY <1>1, Invariance, PTL

\* A contact never costs two lives in a row while the game is not won.
THEOREM OneLife == Safety => OneLifePerContact
<1>1. Inv /\ [Next]_vars => [lives' < lives => ~isDefeated' \/ victory]_vars
  <2> SUFFICES ASSUME Inv, Next, lives' < lives, ~victory
               PROVE  ~isDefeated'
    BY DEF vars, rules, sprites
  <2>1. lives \in 0..StartLives /\ (death => lives = 0)
    BY DEF Inv, TypeOK, DeathHasNoLives
  <2>2. ~Reset
    BY <2>1 DEF Reset, ResetRules, StartLives
  <2>3. Lives /\ Sprites
    BY <2>2 DEF Next, Tick
  <2>4. lives > 0 /\ isDefeated
    BY <2>1, <2>3 DEF Lives, StartLives
  <2>5. SpritesGoHome
    BY <2>1, <2>3, <2>4 DEF Sprites, SpritesFrozen, SpritesGoHome,
       GhostsGoHome, SpritesWait, GhostsMove, SpritesMove
  <2>6. near' = {}
    BY <2>5 DEF SpritesGoHome, GoHome
  <2> QED
    BY <2>6 DEF isDefeated, touching
<1> QED
  BY <1>1, Invariance, PTL DEF Safety, OneLifePerContact

\* Ghosts are eaten only in a reversal, lives lost only outside one.
THEOREM WhoEatsWhom == Safety => ReversalDecides
<1> DEFINE Decided == /\ enabled' # enabled => reversal /\ lives' = lives
                      /\ lives' # lives => ~reversal /\ enabled \cap near # {}
<1>1. Lives => Decided
  BY DEF Lives, isDefeated, predator, touching
<1>2. [Next]_vars => [Tick => Decided]_vars
  BY <1>1 DEF Tick
<1> QED
  BY <1>2, PTL DEF Safety, ReversalDecides

\* A reversal costs one fruit and runs its time.
THEOREM OneFruit == Safety => OneReversalPerFruit
<1> DEFINE Paid ==
      /\ ~reversal /\ reversal' => \E f \in fruits : fruits' = fruits \ {f}
      /\ fruits' # fruits => ~reversal /\ reversal'
      /\ reversal /\ ~reversal' => ReversalOver
<1>1. Inv /\ Reversal => Paid
  <2> SUFFICES ASSUME Inv, Reversal
               PROVE  Paid
    OBVIOUS
  <2>1. reversal \in BOOLEAN
    BY DEF Inv, TypeOK
  <2>2. CASE ReversalOver /\ EndReversal
    BY <2>2 DEF EndReversal
  <2>3. CASE ~ReversalOver /\ reversal /\ CountReversal
    BY <2>3 DEF CountReversal
  <2>4. CASE ~ReversalOver /\ ~reversal /\ EatFruit
    BY <2>4 DEF EatFruit
  <2>5. CASE UNCHANGED <<reversal, reversal_counter, fruits>>
    BY <2>5
  <2> QED
    BY <2>2, <2>3, <2>4, <2>5 DEF Reversal
<1>2. Inv /\ [Next]_vars => [Tick => Paid]_vars
  BY <1>1 DEF Tick
<1> QED
  BY <1>2, Invariance, PTL DEF Safety, OneReversalPerFruit

\* A victory is taken back only by the death of a player who has no life left.
THEOREM VictoryStands == Safety => VictoryEndsByDeath
<1>1. Inv /\ Tick /\ victory /\ ~victory' => death' /\ lives = 0
  <2> SUFFICES ASSUME Inv, Tick, victory, ~victory'
               PROVE  death' /\ lives = 0
    OBVIOUS
  <2>1. Lives /\ EatDots
    BY DEF Tick
  <2>2. ~death /\ (dots = {} \/ score >= WinScore)
    BY DEF victory
  <2>3. dots' \subseteq dots /\ score' >= score
    BY <2>1, DotsKept
  <2>4. score \in Int /\ score' \in Int /\ WinScore \in Int
    <3>1. score \in 0..Cardinality(Dots) /\ score' \in 0..Cardinality(Dots)
      BY <2>1, DotsKept DEF Inv, TypeOK
    <3> QED
      BY <3>1, RulesAssumption
  <2>5. dots' = {} \/ score' >= WinScore
    BY <2>2, <2>3, <2>4
  <2>6. death'
    BY <2>5 DEF victory
  <2>7. death' # death
    BY <2>2, <2>6
  <2> QED
    BY <2>1, <2>6, <2>7 DEF Lives
<1>2. Inv /\ [Next]_vars => [Tick /\ victory /\ ~victory' => death' /\ lives = 0]_vars
  BY <1>1
<1> QED
  BY <1>2, Invariance, PTL DEF Safety, VictoryEndsByDeath
=============================================================================
