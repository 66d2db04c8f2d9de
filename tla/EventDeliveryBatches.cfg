CONSTANTS
  Cursors = {k1, k2, k3, k4, k5, k6, k7}
  NoCursor = NoCursor
  MaximumDeliveryAttempts = 1
  MaximumFailures = 1
  Records = {r1, r2}
  MaxSequence = 2
  Consumers = {flows}
  Dispatchers = {d1, d2}
  BatchLimit = 2
  NoConsumer = NoConsumer
  NoOccurrence = NoOccurrence
CHECK_DEADLOCK FALSE
SYMMETRY Interchangeable
SPECIFICATION Spec
INVARIANT OnePerRecord
