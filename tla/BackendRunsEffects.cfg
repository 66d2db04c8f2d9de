CONSTANTS
  a = a
  b = b
  Subscribers <- NoSubscribers
  Requested = {a}
  TaskCount = 2
  Refusable = {2}
  Executors = {e1, e2}
  MaxFaults = 2
SPECIFICATION FairSpec
INVARIANTS
  TypeOK
  EffectsAtMostOnce
  SucceededMeansDone
  EffectsInTaskOrder
PROPERTIES
  FinalForGood
  RecordedRunsEnd
  ImplementsPromise
