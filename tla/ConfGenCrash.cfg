SPECIFICATION Spec
CONSTANTS
  a = a
  b = b
  bad = bad
  Contents = {a, b, bad}
  Valid = {a, b}
  MaxGen = 3
  Kept = 1
  Faults = {"write", "validate", "link"}
  SeedStates = {"good", "missing"}
  Redelivers = FALSE
INVARIANTS
  TypeOK
  CurrentComplete
  PreviousComplete
  RunsWhatIsLinked
  UndoHeld
PROPERTIES
  RejectCostsNothing
