CONSTANTS
  v1 = v1
  v2 = v2
  v3 = v3
  Blocks <- MCBlocks
  Validators <- MCValidators
  Appears <- MCAppears
  Events <- MCEvents
  SlashingDelay = 1
  WithdrawalDelay = 3
  SlotsPerEpoch = 3
  StartRoot = 0
  LagSlots = 0
  RunningPeriod = 0
  ClockLead = 0
  MaxFaults = 0
SPECIFICATION Spec
INVARIANT
  BreachedRootsAreStacked
