SPECIFICATION Spec
CONSTANTS
  Batches <- MCBatches
  Clones = {"", "gc", "golean"}
  Policy <- MCPolicy
INVARIANTS
  SemanticOnlyIfObserved HarnessErrorIsContract KindIgnoresMessages SidesMirror
  OwnReportAccepted DefectRefused
\* A verified report is the end.
CHECK_DEADLOCK FALSE
