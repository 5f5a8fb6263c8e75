\* Two analysts beside two runs; changes from outside and a crash.
SPECIFICATION Spec
CONSTANTS
  a1 = a1
  a2 = a2
  f1 = f1
  f2 = f2
  f3 = f3
  Cli = Cli
  NoFile = NoFile
  Analysts = {a1, a2}
  Files = {f1, f2}
  Scanned = {f1, f2}
  MaxRuns = 2
  MaxCalls = 2
  MaxChanges = 1
  MaxFaults = 1
SYMMETRY Symmetric
INVARIANTS ListedIsReadonly ManifestHolds ChangeIsFatal
CHECK_DEADLOCK FALSE
