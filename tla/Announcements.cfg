CONSTANTS
  d1 = d1
  d2 = d2
  n1 = n1
  n2 = n2
  Devices = {d1, d2}
  Names = {n1, n2}
  Configs <- TwoNames
  Tasks = {t1, t2}
  QueueCap = 2
  MaxCalls = 3
  None = None
SPECIFICATION FairSpec
INVARIANTS RegisteredIsAnnounced AnnouncedIsServed
CHECK_DEADLOCK FALSE
PROPERTIES HeardAgain AddsFinish
