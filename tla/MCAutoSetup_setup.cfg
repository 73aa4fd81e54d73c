CONSTANTS
  j1 = j1
  j2 = j2
  dA = dA
  dB = dB
  s1 = s1
  Jobs = {j1, j2}
  Requests <- SuggestedRequests
  Domains = {dA, dB}
  Direct = {dA}
  SNIs = {s1}
  Conventional <- MCConventional
  RandomPorts = {20000}
  Foreign <- MCForeign
  MaxId = 5
  Tables <- MCTables
  None = None
  Faults = {"ssh", "probe", "protocol", "store", "push", "lostReply", "stop"}
SPECIFICATION MCSpec
CHECK_DEADLOCK FALSE
SYMMETRY Symmetry
INVARIANTS
  TypeOK
  NodeFollowsRows
  PortsDoNotCollide
  DomainBoundRowsFollowDomain
  RerunKeepsEverything
PROPERTIES
  CredentialsAreStable
  FailedSetupLeavesNoTrace
