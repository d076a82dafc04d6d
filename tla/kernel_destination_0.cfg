\* A program passes 0 as the destination of a send.
SPECIFICATION Spec
CONSTANTS
  NSlots = 3
  NTasks = 2
  Dests = {0, 1, 2, 3}
  AllMayBlock = FALSE
  Bodies = {b1}
  NoMsg = NoMsg
INVARIANTS
  InvalidDestinationReturns
CHECK_DEADLOCK FALSE
