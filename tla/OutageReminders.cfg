\* One failure kind, reminders, writes that succeed: how far apart the messages
\* are, and what a crash can forget.
SPECIFICATION Spec
CONSTANTS
  Objects = {"www"}
  Failures = {"TIMEDOUT"}
  Threshold = 2
  MaxDown <- MCMaxDown
  ContactWhen <- MCBoth
  Contact <- MCMail
  Donotify = TRUE
  QueueTime = 1
  MailOutcomes = {"sent"}
  PageInterval = 1
  ObjPageInterval <- MCOwnInterval
  CheckpointSecs = 2
  MaxAge = 3
  WriteOutcomes = {TRUE}
  MaxTime = 6
  MaxBoots = 1
INVARIANTS PagesSurviveCrash ToldAfterMaxDown
PROPERTIES RemindersSpaced DownMessagesAreTrue
CHECK_DEADLOCK FALSE
