SPECIFICATION Spec
CONSTANTS
  c = c
  h1 = h1
  h2 = h2
  Hosts = {h1, h2}
  States = {"ok"}
  Clients = {c}
  Dashboards = {c}
  MaxRemovedTracked = 1
  MaxPending = 1
  AcksInFlight = TRUE
  MaxRev = 4
  MaxBoots = 1
  Scope <- MCScope
INVARIANTS HostsCompleteCurrent
