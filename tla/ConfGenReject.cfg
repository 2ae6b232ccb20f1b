SPECIFICATION Spec
CONSTANTS
  a = a
  b = b
  bad = bad
  Contents = {a, b, bad}
  Valid = {a, b}
  MaxGen = 2
  Kept = 1
  Faults = {"validate"}
  SeedStates = {"good", "missing"}
  Redelivers = TRUE
PROPERTIES
  RejectCostsNothing
