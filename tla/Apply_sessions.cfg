SPECIFICATION Spec
CONSTANTS
  a = a
  b = b
  c1 = c1
  c2 = c2
  s1 = s1
  s2 = s2
  Clients = {a, b}
  Sessions = {s1, s2}
  SessionOf <- OwnSessions
  Configs = {c1}
  Values = {v1}
  Conns = {k1, k2}
  None = None
  ConfRollback = 2
  MinRollback = 1
  Holdoff = 1
  MaxApplies = 2
  Buttons = {"apply", "reload"}
  Lossy = TRUE
  Prompt = FALSE
SYMMETRY Symmetry
INVARIANTS OnLedger ConfirmHonest 
PROPERTIES OwnTokenKeeps
CHECK_DEADLOCK FALSE
