CONSTANTS
  u1 = u1
  u2 = u2
  a = a
  b = b
  c = c
  plain = plain
  marked = marked
  i1 = i1
  s1 = s1
  s2 = s2
  h1 = h1
  h2 = h2
  Users = {u1}
  Names = {a}
  Limits = {0}
  Notes = {plain}
  Nodes = {1, 2}
  Managed = {1, 2}
  Inbounds = {}
  InboundNode <- MCInboundNode
  Settings = {s1, s2}
  Handlers = {h1, h2}
  Requests <- SameUserRequests
  Keep = Keep
  None = None
  Faults = {}
  OneEditPerUser = FALSE
SPECIFICATION ServedSpec
INVARIANT AnsweredEditIsPublished
