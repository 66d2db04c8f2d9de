CONSTANTS
  ScopeCount = 3
  QueryCount = 3
  MaximumQueued = 1
CHECK_DEADLOCK FALSE
SPECIFICATION FairSpec
INVARIANTS
  TypeOK
  CommittedIsWhole
  AnswersAreTrue
  ControlsAlone
PROPERTIES
  SettledIsFinal
  EverythingEnds
  ImplementsPromise
