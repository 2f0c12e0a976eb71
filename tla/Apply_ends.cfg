SPECIFICATION FairSpec
CONSTANTS
  a = a
  b = b
  c1 = c1
  c2 = c2
  s1 = s1
  s2 = s2
  Clients = {a}
  Sessions = {s1}
  SessionOf <- OneTab
  Configs = {c1}
  Values = {v1}
  Conns = {k1, k2}
  None = None
  ConfRollback = 3
  MinRollback = 1
  Holdoff = 1
  MaxApplies = 2
  Buttons = {"apply", "unchecked", "revert", "reload"}
  Lossy = TRUE
  Prompt = FALSE
INVARIANTS TypeOK
PROPERTIES  ConfirmEnds
CHECK_DEADLOCK FALSE
