CONSTANTS
  v1 = v1
  v2 = v2
  v3 = v3
  Blocks <- MCBlocks
  Validators <- MCValidators
  Appears <- MCAppears
  Events <- MCEvents
  SlashingDelay = 1
  WithdrawalDelay = 3
  SlotsPerEpoch = 3
  StartRoot = 1
  LagSlots = 1
  RunningPeriod = 0
  ClockLead = 1
  MaxFaults = 3
SPECIFICATION FairSpec
INVARIANTS
  TypeOK
  NoRootSkipped
  NoDutyLost
  NoDutyLostByRestart
  LagKeepsDistance
PROPERTIES
  OwedRootsStayStacked
  KeepsLedger
  HandlesRoots
  EveryRootDischarged
  SlashingsReportedInWindow
