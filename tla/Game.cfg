SPECIFICATION CorridorSpec
CONSTANTS
  Block <- MCBlock
  WallBlocks <- MCWalls
  CenterX <- MCCenterX
  CenterY <- MCCenterY
  Home <- MCHome
  FruitLocation <- MCFruitLocation
  NoFruit = NoFruit
  WinScore = 3
  ReversalTicks = 8
INVARIANT
  TouchIsNoticed
PROPERTY
  PlaysByTheRules
