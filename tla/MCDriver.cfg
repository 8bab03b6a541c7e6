CONSTANTS
  BufLen = 2
  WriteDepth = 1
  WriteThreshold = 0
  ReadDepth = 1
  IntMax = 4
  DefaultTimeout = 2
  Alarm = {TRUE}
  MaxWrite = 1
  MaxRead = 2
  OutChars = 1
  InChars = 3
SPECIFICATION Spec
INVARIANTS Armed
PROPERTIES InputInOrder WriteReturns ReadReturns
