SPECIFICATION FairSpec
CONSTANTS
  Blocks <- MCBlocks
  SlotsPerEpoch = 2
  SlotsPerHistoricalRoot = 8
  CapellaSlot = 8
  RootsKept = 7
  MaxSlot = 20
  FirstRoot = 9
  Validators = {1, 2, 3}
  Events <- MCEvents
  Balance <- MCBalance
  Withdrawable <- MCWithdrawable
  ExitKnown <- MCExitKnown
  FullWithdrawal = 2
  MinActivation = 2
  MaxEffective = 7
  TopUpStep = 1
  MinDelta = 2
  Modes = {"daemon", "cli"}
  Commands <- MCCommands
  MaxFaults = 1
INVARIANTS
  TypeOK
  DoneMeansProven
  BalanceBeforeExit
PROPERTIES
  AnchorsAreKept
  HandlesRoots
  EventsAreProven
CHECK_DEADLOCK FALSE
