SPECIFICATION Spec
CONSTANTS
  PanelRun = {r1, r2}
  Startup = s
  Entry = {"launcher"}
  MaxWrites = 1
  MaxFaults = 2
PROPERTY
  NoFreshPanelOverSnapshots
