CONSTANTS
  BufLen = 4
  WriteDepth = 2
  WriteThreshold = 1
  ReadDepth = 0
  IntMax = 4
  DefaultTimeout = 2
  Alarm = {FALSE}
  MaxWrite = 4
  MaxRead = 0
  OutChars = 6
  InChars = 1
SPECIFICATION Spec
INVARIANT TypeOK
PROPERTIES OutputInOrder OutputMoves WriteReturns
