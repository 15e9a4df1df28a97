SPECIFICATION Spec
CONSTANTS
  PanelRun = {r1, r2, r3}
  Startup = s
  Entry = {"launcher"}
  MaxWrites = 1
  MaxFaults = 0
INVARIANT
  SuccessRowHasSnapshot
