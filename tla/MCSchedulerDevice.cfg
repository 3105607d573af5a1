SPECIFICATION Spec
CONSTANTS
  r1 = r1
  c1 = c1  c2 = c2
  p1 = p1  p2 = p2
  a = a  b = b
  v1 = v1  v2 = v2  v3 = v3
  MRID = {c1, c2}
  Program = {p1, p2}
  Attr = {a, b}
  Value = {v1, v2, v3}
  NoValue = NoValue
  Rate = {}
  NoRate = NoRate
  NoTime = NoTime
  NoFile = NoFile
  ProgramLists <- MCOneProgram
  ControlLists <- MCFixedLists
  Defaults = {}
  QueueCapacity = 2
  MaxTime = 4
  MaxUpdates = 2
  MaxCrashes = 1
  MaxFailures = 0
INVARIANTS
  DeviceCurrent
