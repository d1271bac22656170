\* Fair tasks, network and applications; two devices, of which one is selected
\* twice and may hold up the other.  Once nobody selects a device nothing is left to do.
SPECIFICATION ServingSpec
CONSTANTS
  d1 = d1
  d2 = d2
  Devices = {d1, d2}
  SelectionCap = 1
  EventCap = 1
  CommandCap = 1
  MaxHandles = 2
  MaxPosts = 3
  MaxReports = 2
  MaxEvents = 2
PROPERTIES
  EverySelectionIsHandled
  SessionsEnd
CHECK_DEADLOCK FALSE
