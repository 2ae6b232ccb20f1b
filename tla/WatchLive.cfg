SPECIFICATION FairSpec
CONSTANTS
  r = r
  a = a
  b = b
  Objects = {r, a}
  Root = r
  Neighbors <- MCPair
  Reverse = {}
  Failures = {"CONNREF"}
  MaxQueued = 0
  QueueTime = 1
  KillAfter = 2
  MaxRetries = 3
  Signals = {"HUP", "USR2", "TERM"}
  FileKinds = {"good"}
  MaxEdits = 1
PROPERTIES ChecksEnd RequestsServed RootKeepsBeingChecked NobodyStarves
