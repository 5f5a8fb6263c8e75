\* The same case; what the schema says of cited lines.
SPECIFICATION Spec
CONSTANTS
  an = an
  va = va
  or = or
  None = None
  Callers = {an, va, or}
  Role <- MCRole
  Host <- MCHost
  Analysts = {"disk_analyst", "validator"}
  FindingTools = {"disk_evtx", "register_evidence"}
  Rag = "rag_query"
  Prefixes = {"p", "q"}
  MaxFindings = 2
  FindingCalls <- MCFindingCalls
  CorrelationCalls <- MCCorrelationCalls
  UpdateCalls <- MCUpdateCalls
  RunTools = {"disk_evtx", "rag_query"}
  MaxToolCalls = 1
  MaxCorrelations = 1
  MaxUpdates = 2
  MaxRefusals = 1
INVARIANT FindingsCiteResults
CHECK_DEADLOCK FALSE
