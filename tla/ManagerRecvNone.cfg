\* What recv() returns after the session's end.
SPECIFICATION Spec
CONSTANTS
  d1 = d1
  d2 = d2
  Devices = {d1}
  SelectionCap = 1
  EventCap = 1
  CommandCap = 1
  MaxHandles = 1
  MaxPosts = 1
  MaxReports = 0
  MaxEvents = 1
INVARIANTS
  NoneWhenClosed
