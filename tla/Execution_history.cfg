CONSTANTS
  rootTask = rootTask
  strikesTask = strikesTask
  Tasks = {rootTask}
  BaseFee <- MCBaseFee
  HistorySize = 3
  RefreshDelay = 1
  PageSize = 5
  Percent = 50
  Duties <- MCOneDuty
  Owner <- MCOneOwner
  Gas <- MCOneGas
  BufferPercent = 20
  GasCap = 10
  Rewards <- MCRewards
  MinPriority = 1
  MaxPriority = 2
  FeeCap = 2
  MaxRetries = 1
  Confirmations = 2
  Modes = {"daemon"}
  FirstBlock = 3
  MaxFaults = 0
SPECIFICATION Spec
INVARIANT
  HistoryIsRecent
