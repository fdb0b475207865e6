SPECIFICATION Spec
CONSTANTS
  Block <- MCBlock
  WallBlocks <- RomBlocks
  CenterX <- MCCenterX
  CenterY <- MCCenterY
INVARIANTS
  NeverInWall
  NeverWedged
  DotIndexInRange
PROPERTY
  WalksCorridors
