\* The windows belong to the shell, the file system and the ATA server, as
\* add_window(1), (2), (3) in task_gui_server.
SPECIFICATION Spec
CONSTANTS
  NoMsg = NoMsg
  Owners = {1, 2, 3}
  MaxEvents = 2
  MaxEntries = 2
INVARIANTS
  TypeOK
  SomeoneCanRun
  NoCircularWait
  ServesWaitingClient
  RepliesMatchRequests
PROPERTIES
  BufferLent
