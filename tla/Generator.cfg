CONSTANTS
  ExecBudget = 48
  FixedReserve = 1
  VarReserve = 1
  Vars = 1
  Stmts = 2
  Depth = 2
  LoopCap = 2
  ExprFuel = 1
  TripCap = 2
  ArrayLen = 2
  PerCall = 14
  MaxBody = 1
  Forms = {"f"}
  Cases <- AllCases
  FunctionPanics = TRUE
  CountBool = FALSE
SPECIFICATION Spec
INVARIANTS NoBreach WithinBudget PricesCoverRuns PanicOrdered NestBalanced
CHECK_DEADLOCK FALSE
