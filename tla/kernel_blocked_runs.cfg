\* Programs that may all block: two tasks are enough.
SPECIFICATION Spec
CONSTANTS
  NSlots = 3
  NTasks = 2
  Dests = {1, 2, 3}
  AllMayBlock = TRUE
  Bodies = {b1}
  NoMsg = NoMsg
INVARIANTS
  RunningIsRunnable
CHECK_DEADLOCK FALSE
