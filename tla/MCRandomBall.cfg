CONSTANTS
  WordMod = 16
  Dots = {1, 2, 3, 4}
  Growing = {1, 2}
  FullRange = {4}
  DotHome <- MCDotHome
  DotSize = 1
  XCut = 8
  YCut = 4
  StartShadow = 2
  MaxShadow = 3
  ScoreMod = 4
  Balls <- MCBalls
  Randoms <- MCRandoms
SPECIFICATION Spec
INVARIANTS
  TypeOK
  WithinReach
PROPERTY DotsStayTogether
