SPECIFICATION FairSpec
CONSTANTS
  Procs = {p1}
  Modes = {"generate"}
  User = {"mkdir"}
  MaxRuns = 3
CONSTANT p1 = p1
PROPERTY RecordKept
\* Once MaxRuns runs have ended the system stops.
CHECK_DEADLOCK FALSE
