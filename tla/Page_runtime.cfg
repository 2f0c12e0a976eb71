SPECIFICATION PageSpec
CONSTANTS
  Calls = {a, b, c}
  Raising = {b}
  Restricted = {c}
  Single = {c}
  Requests = {r1, r2}
  Faults = {"lost", "expire"}
  main = main
  other = other
  scan = scan
  PageFns <- PolledFns
  Scan <- scan
  Throws <- ThrowingFns
  Interval <- Intervals
  Wrap = 4
  Getters = {g1}
  Flushers = {f1, f2}
  Rounds = {r1, r2}
  MaxAge = 2
  Classes = {k1, k2, k3}
  MaxDeps = 2
  Depth = 4
  MaxCalls = 5
INVARIANTS CallsSound PollSound NetSound ClassesSound
PROPERTIES AllAnswered
CHECK_DEADLOCK FALSE
