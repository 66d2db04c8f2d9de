CONSTANTS
  a = a
  b = b
  Subscribers <- TwoSubscribers
  Requested = {}
  TaskCount = 1
  Refusable = {}
  Executors = {e1, e2}
  MaxFaults = 2
CHECK_DEADLOCK FALSE
SYMMETRY Interchangeable
SPECIFICATION Spec
INVARIANT DeliveredMeansRecorded
