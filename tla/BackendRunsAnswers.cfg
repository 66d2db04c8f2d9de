CONSTANTS
  a = a
  b = b
  Subscribers <- NoSubscribers
  Requested = {a}
  TaskCount = 1
  Refusable = {}
  Executors = {e1, e2}
  MaxFaults = 0
SPECIFICATION Spec
INVARIANT AnswersAgree
