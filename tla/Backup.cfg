SPECIFICATION FairSpec
CONSTANTS
  PanelRun = {r1, r2}
  Startup = s
  Entry = {"launcher", "bare"}
  MaxWrites = 2
  MaxFaults = 2
INVARIANTS
  TypeOK
  JobIdIsOwn
PROPERTIES
  EndsHonestly
  StartupSparesSound
  
  ImplementsContentStore
