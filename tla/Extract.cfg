\* Two workers, two pairs, crashes and failed writes.
SPECIFICATION Spec
CONSTANTS
  w1 = w1
  w2 = w2
  e1 = e1
  e2 = e2
  NoOne = NoOne
  Workers = {w1, w2}
  Pairs = {e1, e2}
  MaxCalls = 3
  MaxFaults = 2
INVARIANTS OneLinePerPair NoFalseAlarm
CHECK_DEADLOCK FALSE
PROPERTIES RefinesWriteOnce ResultsAreStored
