\* Two server processes; up to two crashes or failed writes.
SPECIFICATION Spec
CONSTANTS
  t1 = t1
  t2 = t2
  p1 = p1
  p2 = p2
  NoOne = NoOne
  Threads = {t1, t2}
  Procs = {p1, p2}
  ProcOf <- MCProcOf
  Tools = {"corrected_finding", "update_finding", "query_records"}
  MaxCalls = 3
  MaxFaults = 2
INVARIANTS HealthyAppends Chained AnswersRecorded AnsweredOnce
PROPERTIES NothingBehindDamage RefinesHashChains EveryCallReturns
CHECK_DEADLOCK FALSE
