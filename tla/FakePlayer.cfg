\* A player under every order of requests, queues, restored states and time.
CONSTANTS
  Items = {1, 2, 5}
  Queues <- SmallQueues
  Durations = {2, None}
  Seeks = {1, 4}
  Restored = {1}
  I32Modulus = 8
  U64Modulus = 16
  MaxU32 = 5
  MaxElapsed = 3
  None = None
SPECIFICATION FairSpec
INVARIANTS ServerFollows
CHECK_DEADLOCK FALSE
PROPERTIES InsideTheTrack KeepsTheTrack ImplementsPlayhead EndsAtTheEnd
