\* Three tasks that fill the table.
SPECIFICATION Spec
CONSTANTS
  NSlots = 3
  NTasks = 3
  Dests = {1, 2, 3}
  AllMayBlock = FALSE
  Bodies = {b1}
  NoMsg = NoMsg
PROPERTIES
  RoundRobin
CHECK_DEADLOCK FALSE
