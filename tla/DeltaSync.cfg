SPECIFICATION FairSpec
CONSTANTS
  c = c
  h1 = h1
  h2 = h2
  Hosts = {h1, h2}
  States = {"ok", "down"}
  Clients = {c}
  Dashboards = {c}
  MaxRemovedTracked = 1
  MaxPending = 1
  AcksInFlight = FALSE
  MaxRev = 4
  MaxBoots = 2
  Scope <- MCScope
INVARIANTS TypeOK NothingForgotten ListsDisjoint
PROPERTIES Converges
