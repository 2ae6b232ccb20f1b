\* Two failure kinds, no reminders: what restarts, crashes, reloads and failing
\* writes do to the paging state of one object.
SPECIFICATION Spec
CONSTANTS
  Objects = {"www"}
  Failures = {"TIMEDOUT", "REFUSED"}
  Threshold = 2
  MaxDown <- MCMaxDown
  ContactWhen <- MCBoth
  Contact <- MCMail
  Donotify = TRUE
  QueueTime = 1
  MailOutcomes = {"sent", "nopw"}
  PageInterval = 0
  ObjPageInterval <- MCGlobalInterval
  CheckpointSecs = 2
  MaxAge = 3
  WriteOutcomes = {TRUE, FALSE}
  MaxTime = 4
  MaxBoots = 2
INVARIANTS TypeOK OnePagePerOutage ContactedIffTold
PROPERTIES UpFollowsDown DeathtimeStable
CHECK_DEADLOCK FALSE
