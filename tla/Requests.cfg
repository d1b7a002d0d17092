CONSTANTS
  root = root
  update = update
  Callers = {root, update}
  Needs <- MCNeeds
  Fixed <- MCFixed
  Dynamic <- MCDynamic
  Children <- MCChildren
  States <- MCFixed
  Capacity = 1
  Nodes = 2
  MaxTries = 2
  RetryDelay = 1
  MaxBackoff = 10
  MaxVersion = 1
  MaxFaults = 1
SPECIFICATION FairSpec
INVARIANTS
  TypeOK
  CacheIsNeverStale
  OneRequestPerKey
  AnswersAreCurrent
PROPERTIES
  CallsSettle
  WantsAreServed
