CONSTANTS
  RunCount = 3
  Bindings <- PageBindings
  Settings <- PageSettings
  NoForm = NoForm
  NoBinding = NoBinding
CHECK_DEADLOCK FALSE
SPECIFICATION FairSpec
INVARIANTS
  TypeOK
  ScopesExclusive
  SettledLeavesNothing
PROPERTIES
  NothingElseStarts
  NoLateStart
  EveryRunSettles
