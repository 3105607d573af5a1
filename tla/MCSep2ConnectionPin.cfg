SPECIFICATION Spec
CONSTANTS
  d1 = d1  d2 = d2  d3 = d3
  Dcap = {d1, d2, d3}
  WithEdevLink = {d1, d2}
  NoDcap = NoDcap
  Report = {"settings"}
  PinExpected = TRUE
  MaxQueue = 3
  QueueCapacity = 2
  MaxResponses = 1
  MaxOthers = 1
  MaxFailures = 1
  MaxChanges = 1
INVARIANTS
  PinRetried
