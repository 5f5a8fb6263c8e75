\* One worker dies between the files and the chain line.
SPECIFICATION Spec
CONSTANTS
  w1 = w1
  w2 = w2
  e1 = e1
  e2 = e2
  NoOne = NoOne
  Workers = {w1}
  Pairs = {e1, e2}
  MaxCalls = 2
  MaxFaults = 1
INVARIANT CrashIsRetried
CHECK_DEADLOCK FALSE
