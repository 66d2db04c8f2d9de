CONSTANTS
  RunCount = 3
  Bindings <- PageBindings
  Settings <- PageSettings
  NoForm = NoForm
  NoBinding = NoBinding
CHECK_DEADLOCK FALSE
SPECIFICATION Spec
INVARIANT QueuedBehind
