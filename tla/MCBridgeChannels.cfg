CONSTANTS
  Resource <- MCResource
  Root = "dcap"
  Polled <- MCPolled
  AtStart <- MCAtStart
  Announces <- MCAnnounces
  NoResource = "none"
  Capacity = 2
  Limits <- MCLimits
SPECIFICATION FairSpec
INVARIANTS TypeOK StandstillNeedsBurst
PROPERTY Settles
