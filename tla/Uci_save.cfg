SPECIFICATION Spec
CONSTANTS
  Named = {n1}
  Pool = {g1}
  Temps = {t1}
  Options = {o1}
  Values = {x}
  None = None
  Slots = {k1}
  Edits = {"set", "unset", "add", "remove", "move"}
  Faults = {"call", "lost"}
  BusyEdits = FALSE
INVARIANTS TypeOK SavedIsShown
CHECK_DEADLOCK FALSE
