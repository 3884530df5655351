CONSTANTS
  i1 = i1
  i2 = i2
  i3 = i3
  Items = {i1, i2, i3}
  MaxQueue = 1
  MaxCalls = 2
  MaxNow = 1
  MaxFaults = 2
SPECIFICATION Spec
INVARIANTS GuardInv QueueBounded
PROPERTIES AnsweredInOrder ReconnectsDrain
CHECK_DEADLOCK FALSE
