CONSTANTS
  rootTask = rootTask
  strikesTask = strikesTask
  Tasks = {rootTask, strikesTask}
  BaseFee <- MCBaseFee
  HistorySize = 3
  RefreshDelay = 1
  PageSize = 2
  Percent = 50
  Duties <- MCDuties
  Owner <- MCOwner
  Gas <- MCGas
  BufferPercent = 20
  GasCap = 10
  Rewards <- MCRewards
  MinPriority = 1
  MaxPriority = 2
  FeeCap = 2
  MaxRetries = 1
  Confirmations = 2
  Modes <- MCModes
  FirstBlock = 3
  MaxFaults = 1
SPECIFICATION FairSpec
INVARIANTS
  TypeOK
  HistoryIsBounded
  ReturnedMeansProven
  PaidOnce
PROPERTIES
  KeepsDelivery
  DutiesAreProven
  CallsReturn
