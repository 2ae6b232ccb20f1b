SPECIFICATION Spec
CONSTANTS
  r = r
  a = a
  b = b
  Objects = {r, a}
  Root = r
  Neighbors <- MCPair
  Reverse = {}
  Failures = {"CONNREF"}
  MaxQueued = 1
  QueueTime = 1
  KillAfter = 2
  MaxRetries = 3
  Signals = {"HUP"}
  FileKinds = {"good", "bad"}
  MaxEdits = 1
INVARIANTS
  RootIsLive
