SPECIFICATION Spec
CONSTANTS
  r = r
  a = a
  b = b
  Objects = {r, a, b}
  Root = r
  Neighbors <- MCChain
  Reverse = {a}
  Failures = {"CONNREF"}
  MaxQueued = 1
  QueueTime = 1
  KillAfter = 2
  MaxRetries = 3
  Signals = {"HUP", "USR2", "TERM"}
  FileKinds = {"good", "bad", "missing"}
  MaxEdits = 1
INVARIANTS
  TypeOK
  QueueConsistent
  NeverPermanentlyKilled
PROPERTIES
  DependentsWait
