CONSTANTS
  NumTrees = 2
  Params <- MCParams
  FirstParams = 1
  Keys <- MCKeys
  Bad <- MCBad
  Filtered <- MCNone
  Withdrawable <- MCSome
  BatchSize = 1
  MaxLimit = 2
  Rounds = {r1, r2}
  MaxParamChanges = 1
  MaxFaults = 1
SPECIFICATION FairSpec
INVARIANTS
  TypeOK
  ProcessedTreeIsDone
  BatchesMatchTheirTree
PROPERTIES
  KeepsReport
  BadPerformersAreProven
