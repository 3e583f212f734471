SPECIFICATION Spec
CONSTANTS
  Procs = {p1, p2}
  Modes = {"check"}
  User = {"mkdir", "write", "take", "clear"}
  MaxRuns = 4
CONSTANTS p1 = p1 p2 = p2
SYMMETRY ProcSymmetry
INVARIANT ClaimExclusive
PROPERTY CheckKeepsFiles
\* Once MaxRuns runs have ended the system stops.
CHECK_DEADLOCK FALSE
