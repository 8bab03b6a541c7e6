CONSTANTS
  Packets <- MCPackets
  MaxPackets = 2
  MaxSilent = 8
  MaxFaults = 1
SPECIFICATION Spec
INVARIANTS TypeOK Framed CommandIntact
PROPERTIES CursorStays InitEnds
CHECK_DEADLOCK FALSE
