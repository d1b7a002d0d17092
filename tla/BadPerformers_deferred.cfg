CONSTANTS
  NumTrees = 2
  Params <- MCParams
  FirstParams = 2
  Keys <- MCKeys
  Bad <- MCBad
  Filtered <- MCNone
  Withdrawable <- MCNone
  BatchSize = 1
  MaxLimit = 1
  Rounds = {r1, r2}
  MaxParamChanges = 1
  MaxFaults = 0
SPECIFICATION Spec
INVARIANT
  DeferredKeysAreRetried
