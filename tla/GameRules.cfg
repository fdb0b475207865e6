SPECIFICATION Spec
CONSTANTS
  red = red
  aqua = aqua
  first = first
  second = second
  d1 = d1
  d2 = d2
  d3 = d3
  Ghosts <- MCGhosts
  Fruits <- MCFruits
  NoFruit = NoFruit
  Dots <- MCDots
  HomeDot = d1
  WinScore = 2
  ReversalTicks = 2
INVARIANT
  ScoreIsDotsEaten
PROPERTIES
  OneLifePerContact
  OneReversalPerFruit
  VictoryEndsByDeath
  ReversalEnds
  GameOverComes
