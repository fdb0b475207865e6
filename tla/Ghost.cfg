SPECIFICATION Spec
CONSTANTS
  Block <- MCBlock
  WallBlocks <- RomBlocks
  Home <- MCHome
  PacmanPositions <- MCPacmanPositions
INVARIANTS
  TypeOK
  OverrunsByOnePixel
  NeverCornered
PROPERTY
  Roams
