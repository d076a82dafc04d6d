\* A disk read may fail while the file system server lists the directory.
SPECIFICATION Spec
CONSTANTS
  NoMsg = NoMsg
  Owners = {1, 2}
  MaxEvents = 1
  MaxEntries = 1
INVARIANTS
  ListErrorReported
