\* enemy_ball1: home in the top left corner, the start screen keeps the Y motion
CONSTANTS
  WordMod = 64
  Size = 4
  XMax = 18
  YMax = 16
  XCenter = 2
  YCenter = 2
  Respawn = 9
  Bump = 4
  KeepXMotion = FALSE
  KeepYMotion = TRUE
  ScoreMod = 6
  Players <- MCPlayers
SPECIFICATION Spec
INVARIANTS
  TypeOK
  UnitMotion
  Confined
PROPERTY Glides
