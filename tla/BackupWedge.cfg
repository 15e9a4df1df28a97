SPECIFICATION FairSpec
CONSTANTS
  PanelRun = {r1}
  Startup = s
  Entry = {"bare"}
  MaxWrites = 1
  MaxFaults = 2
PROPERTY
  LostFileIsRestored
