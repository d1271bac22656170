\* connect() path: the device may be activated, deactivated and activated again.
SPECIFICATION Spec
CONSTANTS
  auto_activate = FALSE
  EarlyHandle = FALSE
  EventCap = 1
  CommandCap = 1
  ServerMessages <- ActivationMessages
  ReportKinds = {"ReportState"}
  I32Modulus = 8
  MaxMessages = 4
  MaxReports = 0
  MaxBeats = 1
INVARIANTS
  EventsFitTheActivation
  HeartbeatStillValid
