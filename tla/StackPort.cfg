SPECIFICATION StackSpec
CONSTANTS
  Runner = {q1}
  Ports = 2
  Windows = FALSE
  MaxRuns = 3
  MaxTrouble = 2
CHECK_DEADLOCK FALSE
INVARIANT UrlIsActual
