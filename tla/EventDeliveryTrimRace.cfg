CONSTANTS
  Cursors = {k1, k2, k3, k4, k5, k6}
  NoCursor = NoCursor
  MaximumDeliveryAttempts = 2
  MaximumFailures = 2
  Records = {r1}
  MaxSequence = 2
  Consumers = {flows, search}
  Dispatchers = {d1}
  BatchLimit = 1
  NoConsumer = NoConsumer
  NoOccurrence = NoOccurrence
CHECK_DEADLOCK FALSE
SPECIFICATION Spec
PROPERTY TrimSparesClaims
