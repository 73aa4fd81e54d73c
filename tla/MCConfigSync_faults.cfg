CONSTANTS
  u1 = u1
  u2 = u2
  a = a
  b = b
  c = c
  plain = plain
  marked = marked
  i1 = i1
  s1 = s1
  s2 = s2
  h1 = h1
  h2 = h2
  Users = {u1}
  Names = {a}
  Limits = {0, 1}
  Notes = {plain, marked}
  Nodes = {1, 2}
  Managed = {1}
  Inbounds = {i1}
  InboundNode <- MCInboundNode
  Settings = {s1, s2}
  Handlers = {h1, h2}
  Requests <- FaultRequests
  Keep = Keep
  None = None
  Faults = {"store", "push", "lostReply", "crash"}
  OneEditPerUser = TRUE
SPECIFICATION MCSpec
INVARIANTS
  TypeOK
  UsersFollowDatabase
  InboundsFollowDatabase
  RolledBackEditLeavesOnlyItsNote
  NoStalePush
  AnsweredEditIsPublished
