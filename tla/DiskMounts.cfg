\* Processes and threads that mount one image, with faults.
SPECIFICATION Spec
CONSTANTS
  Threads = {"a1", "a2", "b"}
  Procs = {"p", "q"}
  ProcOf <- MCProcOf
  Images = {"e"}
  Short <- MCShort
  Setups <- MCSetups
  None = None
  MaxCalls = 3
  MaxStarts = 2
  MaxFaults = 1
INVARIANTS MountsMeetNothing UseHolds ExitUnmounts
CHECK_DEADLOCK FALSE
PROPERTY RefinesMountService
