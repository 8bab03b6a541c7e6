CONSTANTS
  WordMod = 16
  XMax = 6
  YMax = 5
  XCenter = 3
  YCenter = 3
  ScrollLeft = 2
  ScrollRight = 5
  ScrollUp = 2
  ScrollDown = 4
  StartStep = 1
  MaxStep = 2
  StartSize = 2
  MinSize = 1
  MaxSize = 3
  Keycodes <- MCKeycodes
SPECIFICATION Spec
INVARIANTS
  TypeOK
  Agility
  CameraBounded
PROPERTY NeverStops
