SPECIFICATION Spec
CONSTANTS
  Request = {r1, r2, r3, r4}
  Path = {home, tmp}
  Local = {home}
  Content = {c1, c2}
  MaxFaults = 1
SYMMETRY Symmetry
INVARIANTS
  TypeOK
  NeverLost
  Retrievable
PROPERTIES
  CarefulRestoreSpares
  RestoresWhatWasTaken
CHECK_DEADLOCK FALSE
