SPECIFICATION FairSpec
CONSTANTS
  d1 = d1  d2 = d2  d3 = d3
  Dcap = {d1, d2, d3}
  WithEdevLink = {d1, d2}
  NoDcap = NoDcap
  Report = {"status", "capability"}
  PinExpected = TRUE
  MaxQueue = 3
  QueueCapacity = 1
  MaxResponses = 3
  MaxOthers = 1
  MaxFailures = 2
  MaxChanges = 1
INVARIANTS
  RetryHasReason
  TypeOK
  ResponsesInOrder
  DcapWatched
  UndoneIsRetried
  KnownFromTheTop
PROPERTIES
  ImplementsOutbox
  ResponsesSettled
  ChangesNoticed
