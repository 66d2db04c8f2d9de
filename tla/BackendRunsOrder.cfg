CONSTANTS
  a = a
  b = b
  Subscribers <- TwoSubscribers
  Requested = {}
  TaskCount = 1
  Refusable = {}
  Executors = {e1, e2}
  MaxFaults = 0
CHECK_DEADLOCK FALSE
SPECIFICATION Spec
PROPERTY SubscribersInOrder
