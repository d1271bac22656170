\* Fair task, fair application.
SPECIFICATION FairSpec
CONSTANTS
  auto_activate = FALSE
  EarlyHandle = TRUE
  EventCap = 1
  CommandCap = 1
  ServerMessages <- LivenessMessages
  ReportKinds = {"ReportState"}
  I32Modulus = 8
  MaxMessages = 2
  MaxReports = 2
  MaxBeats = 1
PROPERTIES
  EndsWithTheStream
  MessagesAreHandled
  ReportsAreTaken
