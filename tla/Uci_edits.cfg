SPECIFICATION Spec
CONSTANTS
  Named = {}
  Pool = {g1, g2}
  Temps = {t1}
  Options = {o1}
  Values = {x}
  None = None
  Slots = {k1}
  Edits = {"set", "unset", "add", "remove", "move"}
  Faults = {"call"}
  BusyEdits = TRUE
INVARIANTS NotesAgree AddedOnce
PROPERTIES EditShown
CHECK_DEADLOCK FALSE
