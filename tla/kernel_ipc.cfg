\* Three tasks in a table of four; destinations from the panicking 0 to one
\* beyond the table.  The system stops at a shutdown.
SPECIFICATION Spec
CONSTANTS
  NSlots = 4
  NTasks = 3
  Dests = {0, 1, 2, 3, 4, 5}
  AllMayBlock = FALSE
  Bodies = {b1}
  NoMsg = NoMsg
INVARIANTS
  TypeOK
  ContextIntegrity
  BlockedCallPending
  NoMissedRendezvous
PROPERTIES
  ReleasedByDelivery
  ImplementsRendezvous
CHECK_DEADLOCK FALSE
