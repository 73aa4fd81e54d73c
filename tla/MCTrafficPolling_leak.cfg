CONSTANTS
  c1 = c1
  c2 = c2
  c3 = c3
  c4 = c4
  u1 = u1
  u2 = u2
  a = a
  b = b
  p1 = p1
  p2 = p2
  p3 = p3
  d1 = d1
  d2 = d2
  Nodes = {1}
  Targets = {1, 2}
  Clients = {c1, c2, c3}
  Polls = {p1, p2}
  Callers = {p1, p2, d1}
  GuardOf <- MCGuardOf
  Users = {}
  Names = {}
  Slots = 1
  MaxCarried = 1
  Operations = {"edit"}
  Faults = {}
  None = None
SPECIFICATION PollingSpec
INVARIANT NothingLeaks
