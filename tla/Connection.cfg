\* The stream over whole, cut and foreign frames, beside the writer.
CONSTANTS
  Base = 4
  MaxVarint = 4
  UsizeModulus = 64
  Batches <- ShortAndLong
  U32Modulus = 4
  MaxSends = 2
  MaxFrames = 3
  None = None
SPECIFICATION FairSpec
INVARIANTS
  IdsStayApart
  ToolAgrees
PROPERTIES
  ImplementsLink
  EverythingIsYielded
CHECK_DEADLOCK FALSE
