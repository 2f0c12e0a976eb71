SPECIFICATION FairSpec
CONSTANTS
  Calls = {a, b, c}
  Raising = {b}
  Restricted = {c}
  Single = {c}
  Requests = {r1, r2}
  Faults = {"lost", "expire"}
INVARIANTS ExpiredIsTrue
CHECK_DEADLOCK FALSE
