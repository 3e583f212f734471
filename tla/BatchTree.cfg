SPECIFICATION FairTreeSpec
CONSTANTS
  Workers = {w1, w2}
  N = 3
  Outcome <- MCOutcome
  Aborted <- MCAborted
  Verdict <- MCVerdict
  Judge <- MCJudge
  HasClone = TRUE
  CaseFiles = {"subject.go", "driver.go", "functions.json", "battery/functions.go"}
  BatteryFiles = {"functions.json", "battery/functions.go"}
  MaxEdits = 1
CONSTANTS w1 = w1 w2 = w2
INVARIANTS NothingCut ReportIsWhole AcceptedIsJudged VerifyIsExact
PROPERTIES WrittenOnce JudgingEnds
\* The batch returns and the system stops.
CHECK_DEADLOCK FALSE
