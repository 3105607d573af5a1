CONSTANTS
  NoRate = 0
  Trees <- MovedTrees
  Root = 1
  DefaultRate = 300
  MaxCrashes = 0
  MaxFailures = 0
SPECIFICATION Spec
INVARIANT RatesApply
CHECK_DEADLOCK FALSE
