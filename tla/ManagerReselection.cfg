\* Two devices, or one that is selected twice, removed and added again.
SPECIFICATION Spec
CONSTANTS
  d1 = d1
  d2 = d2
  Devices = {d1, d2}
  SelectionCap = 2
  EventCap = 1
  CommandCap = 1
  MaxHandles = 2
  MaxPosts = 2
  MaxReports = 2
  MaxEvents = 2
INVARIANTS
  TypeOK
  WaitersAreServed
  InOrder
  SenderOfTheLastBegun
PROPERTIES
  ReportsFollowTheSelection
  NoneIsFinal
SYMMETRY DeviceSymmetry
