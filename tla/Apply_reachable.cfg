SPECIFICATION FairSpec
CONSTANTS
  a = a
  b = b
  c1 = c1
  c2 = c2
  s1 = s1
  s2 = s2
  Clients = {a}
  Sessions = {s1}
  SessionOf <- OneTab
  Configs = {c1, c2}
  Values = {v1}
  Conns = {k1, k2}
  None = None
  ConfRollback = 2
  MinRollback = 2
  Holdoff = 1
  MaxApplies = 2
  Buttons = {"apply", "unchecked", "revert"}
  Lossy = FALSE
  Prompt = TRUE
INVARIANTS ReachableServed AppliedIsKept
PROPERTIES DialogEnds
CHECK_DEADLOCK FALSE
