CONSTANTS
  j1 = j1
  j2 = j2
  dA = dA
  dB = dB
  s1 = s1
  Jobs = {j1, j2}
  Requests <- ListedRequests
  Domains = {dA, dB}
  Direct = {dA}
  SNIs = {s1}
  Conventional <- MCConventional
  RandomPorts = {20000}
  Foreign <- MCForeign
  MaxId = 5
  Tables <- MCTables
  None = None
  Faults = {}
SPECIFICATION MCSpec
CHECK_DEADLOCK FALSE
INVARIANT PortsDoNotCollide
