\* One queued event at a time and one directory entry.
SPECIFICATION Spec
CONSTANTS
  NoMsg = NoMsg
  Owners = {1, 2}
  MaxEvents = 1
  MaxEntries = 1
PROPERTIES
  CommandsEnd
  EventsPassOn
