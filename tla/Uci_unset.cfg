SPECIFICATION Spec
CONSTANTS
  Named = {n1}
  Pool = {g1}
  Temps = {t1}
  Options = {o1}
  Values = {x, y}
  None = None
  Slots = {k1}
  Edits = {"set", "unset"}
  Faults = {}
  BusyEdits = FALSE
INVARIANTS SavedAlways
CHECK_DEADLOCK FALSE
