\* Violation: the rewalk leaves contacted set and the reminders go on.
SPECIFICATION Spec
CONSTANTS
  Objects = {"www"}
  Failures = {"NODNS"}
  Threshold = 1
  MaxDown <- MCMaxDown
  ContactWhen <- MCBoth
  Contact <- MCMail
  Donotify = TRUE
  QueueTime = 1
  MailOutcomes = {"sent", "nopw"}
  PageInterval = 1
  ObjPageInterval <- MCGlobalInterval
  CheckpointSecs = 2
  MaxAge = 3
  WriteOutcomes = {TRUE, FALSE}
  MaxTime = 4
  MaxBoots = 0
PROPERTIES DownMessagesAreTrue
CHECK_DEADLOCK FALSE
