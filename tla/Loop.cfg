\* Both loops with a timed-out dispatch or a failed update.
SPECIFICATION Spec
CONSTANTS
  u1 = u1
  u2 = u2
  f1 = f1
  f2 = f2
  Units = {u1, u2}
  Findings = {f1, f2}
  FirstLevels = {"MEDIUM"}
  Kinds = {"material", "weakens", "strong", "request_followup"}
  MaxIterations = 3
  TokenBudget = 1
  MaxCorrelations = 2
  MaxFaults = 1
SYMMETRY Symmetric
INVARIANTS ConfirmedOnce ContradictionBlocks SilenceIsSilence StalemateIsReal FollowupsServed FindingsAccounted RunEnds
PROPERTIES RefinesFindingLedger
CHECK_DEADLOCK FALSE
