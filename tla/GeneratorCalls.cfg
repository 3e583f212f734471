CONSTANTS
  ExecBudget = 48
  FixedReserve = 1
  VarReserve = 1
  Vars = 1
  Stmts = 2
  Depth = 2
  LoopCap = 2
  ExprFuel = 1
  TripCap = 2
  ArrayLen = 2
  PerCall = 14
  MaxBody = 1
  Forms = {"f"}
  Cases <- boolCalls
  FunctionPanics = TRUE
  CountBool = TRUE
SPECIFICATION Spec
INVARIANT WithinBudget
CHECK_DEADLOCK FALSE
