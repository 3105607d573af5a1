SPECIFICATION FairSpec
CONSTANTS
  r1 = r1
  c1 = c1  c2 = c2
  p1 = p1  p2 = p2
  a = a  b = b
  v1 = v1  v2 = v2  v3 = v3
  MRID = {c1, c2}
  Program = {p1, p2}
  Attr = {a, b}
  Value = {v1, v2, v3}
  NoValue = NoValue
  Rate = {r1}
  NoRate = NoRate
  NoTime = NoTime
  NoFile = NoFile
  ProgramLists <- MCProgramLists
  ControlLists <- MCControlLists
  Defaults <- MCDefaults
  QueueCapacity = 1
  MaxTime = 3
  MaxUpdates = 3
  MaxCrashes = 1
  MaxFailures = 1
INVARIANTS
  TypeOK
  ParametersCurrent
  WakeUpPending
  NoStaleResponses
  ReceivedFirst
PROPERTIES
  NeverEarly
  RealisedOnce
  RestartRemembers
  RestartKeepsInForce
  CatchesUp
