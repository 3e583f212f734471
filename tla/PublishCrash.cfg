SPECIFICATION FairSpec
CONSTANTS
  Procs = {p1}
  Modes = {"generate", "check"}
  User = {"clear"}
  MaxRuns = 4
CONSTANT p1 = p1
INVARIANTS TypeOK PublishedWhole
PROPERTIES RecordKept StrangersSpared Recovers
\* Once MaxRuns runs have ended the system stops.
CHECK_DEADLOCK FALSE
