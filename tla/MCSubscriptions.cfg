CONSTANTS
  NoRate = 0
  Trees <- MCTrees
  Root = 1
  DefaultRate = 300
  MaxCrashes = 1
  MaxFailures = 1
SPECIFICATION FairSpec
INVARIANTS TypeOK TableFollowsModel DropsInOnePass
PROPERTY Converges
