SPECIFICATION FairSpec
CONSTANTS
  N = 2
  MaxRuns = 2
  Classes = {"ok", "message", "invalid"}
  Sources = {"s1"}
  Found = {"match", "clone-infra-failure"}
  Orphans = FALSE
  Editor = {"edit", "place"}
INVARIANTS FreshVerdicts JudgedSource VerifyExact
PROPERTIES ForeignSpared Returns
\* The last campaign is the end.
CHECK_DEADLOCK FALSE
