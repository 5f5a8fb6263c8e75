\* All small extractions, the calls that take each branch.
SPECIFICATION Spec
CONSTANTS
  Flat = {"A", "B"}
  Tree = "T"
  Fields <- MCFields
  Untrusted <- MCUntrusted
  Alias <- MCAlias
  Lower <- MCLower
  Within <- MCWithin
  Starts <- MCStarts
  Nothing <- MCNothing
  QueryCap = 2
  GroupCap = 2
  DiffCap = 3
  DepthCap = 2
  NodeCap = 3
  Cases <- MCCases
  Queries <- MCQueries
  Groupings <- MCGroupings
  Differences <- MCDifferences
  Subtrees <- MCSubtrees
INVARIANTS PagesCover GroupsAgree DifferenceBalanced SubtreeWhole UntrustedMarked
CHECK_DEADLOCK FALSE
