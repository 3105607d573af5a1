SPECIFICATION FairSpec
CONSTANTS
  c1 = c1  c2 = c2  long = long
  None = None  Factory = Factory  Torn = Torn
  Rating = 30
  SiteLimitsMapped = TRUE
  Model <- MCModel
  Slots <- MCSlots
  Curve = {c1, c2, long}
  Fits = {c1, c2}
  Base <- MCBase
  QueueCapacity = 2
  Low <- MCLow  High = 7  Wide = 127
  MaxCommands = 3
  MaxFailures = 1
  MaxRestarts = 1
INVARIANTS
  TypeOK
  SentIsApplied
PROPERTIES
  ProtectionKept
  Converges
