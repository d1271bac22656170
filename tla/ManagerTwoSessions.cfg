\* A device selected again while its session lives.
SPECIFICATION Spec
CONSTANTS
  d1 = d1
  d2 = d2
  Devices = {d1}
  SelectionCap = 1
  EventCap = 1
  CommandCap = 1
  MaxHandles = 1
  MaxPosts = 2
  MaxReports = 0
  MaxEvents = 1
INVARIANTS
  OneSessionPerDevice
