\* the parameters of ball.sv
CONSTANTS
  WordMod = 1024
  XMax = 639
  YMax = 479
  XCenter = 320
  YCenter = 240
  ScrollLeft = 200
  ScrollRight = 400
  ScrollUp = 100
  ScrollDown = 250
  StartStep = 3
  MaxStep = 4
  StartSize = 5
  MinSize = 3
  MaxSize = 10
  Keycodes <- MCKeycodesUp
SPECIFICATION UpSpec
PROPERTY BouncesOffTop
