CONSTANTS
  NumValidators <- MCNumValidators
  ModuleKeys <- MCModuleKeys
  Appears <- MCAppears
  Deposited <- MCDeposited
  DepositDelay = 0
  MaxSlot = 4
  SecondsPerSlot = 2
  FreshnessPeriod = 2
  MaxFaults = 2
CHECK_DEADLOCK FALSE
SPECIFICATION Spec
INVARIANT
  ReceivedKeysAreUsed
