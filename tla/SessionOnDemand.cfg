\* add_device() path: the session asks to be activated and ends when deactivated.
SPECIFICATION Spec
CONSTANTS
  auto_activate = TRUE
  EarlyHandle = TRUE
  EventCap = 1
  CommandCap = 1
  ServerMessages <- AllMessages
  ReportKinds = {"ReportState"}
  I32Modulus = 8
  MaxMessages = 3
  MaxReports = 0
  MaxBeats = 1
INVARIANTS
  SaysWhereItIs
  TypeOK
  RegisteredBeforeActivation
  AsksForTheSessionsQueue
PROPERTIES
  ImplementsProtocol
