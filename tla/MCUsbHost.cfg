CONSTANTS
  FirstTries = 2
  PollTries = 2
  Disturbances = 2
  Keys = {k1}
  NoKey = NoKey
  Link = Link
SPECIFICATION Spec
INVARIANTS TypeOK MemoryIsFree ReadyWhenPolled NoOldKey
PROPERTIES RequestsInOrder SetupEnds RemovalNoticed ReportsFetched
