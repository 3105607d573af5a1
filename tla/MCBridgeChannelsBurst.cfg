CONSTANTS
  Resource <- BurstResource
  Root = 0
  Polled <- BurstPolled
  AtStart <- BurstAtStart
  Announces <- BurstAnnounces
  NoResource = 99
  Capacity = 4
  Limits <- BurstLimits
SPECIFICATION FairSpec
PROPERTY EmitsAllKnown
CHECK_DEADLOCK FALSE
