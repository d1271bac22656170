\* Requests, answers and reports under every interleaving.
SPECIFICATION Spec
CONSTANTS
  auto_activate = FALSE
  EarlyHandle = FALSE
  EventCap = 2
  CommandCap = 2
  ServerMessages <- RequestMessages
  ReportKinds = {"ReportVolumeMuted"}
  I32Modulus = 8
  MaxMessages = 3
  MaxReports = 2
  MaxBeats = 1
INVARIANTS
  OneCommandOutstanding
  UnreceivedCommandIsLast
  AnswersAreTheApplications
  AnswersInOrder
  HandshakeIsOneBlock
  ReportsArriveInOrder
PROPERTIES
  WaitsForTheAnswer
