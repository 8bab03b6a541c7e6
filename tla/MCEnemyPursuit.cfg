CONSTANTS
  WordMod = 64
  Size = 4
  XMax = 26
  YMax = 24
  XCenter = 2
  YCenter = 2
  Respawn = 14
  Bump = 4
  KeepXMotion = FALSE
  KeepYMotion = TRUE
  ScoreMod = 1
  Players <- MCPlayers
  IdlePlayer <- MCIdlePlayer
SPECIFICATION PursuitSpec
PROPERTIES
  IdlePlayerIsCaught
