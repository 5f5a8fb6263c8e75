\* Two analysts register a file the scan passed over.
SPECIFICATION Spec
CONSTANTS
  a1 = a1
  a2 = a2
  f1 = f1
  f2 = f2
  f3 = f3
  Cli = Cli
  NoFile = NoFile
  Analysts = {a1, a2}
  Files = {f1, f2, f3}
  Scanned = {f1}
  MaxRuns = 1
  MaxCalls = 2
  MaxChanges = 0
  MaxFaults = 0
INVARIANTS RegisteredIsRecorded
CHECK_DEADLOCK FALSE
