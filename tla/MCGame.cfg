CONSTANTS
  WordMod = 64
  BallSetup <- MCBallSetup
  DotSetup <- MCDotSetup
  EnemySetup <- MCEnemySetup
  ScoreMod = 64
  Keycodes <- MCKeycodes
  Randoms <- MCRandoms
  MaxFrames = 10
SPECIFICATION Spec
INVARIANTS
  FreshStart
  CaughtIsPutBack
  ShadowSize
PROPERTY InGameRolls
