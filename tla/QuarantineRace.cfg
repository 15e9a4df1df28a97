SPECIFICATION Spec
CONSTANTS
  Request = {r1, r2, r3, r4}
  Path = {tmp}
  Local = {tmp}
  Content = {c1, c2}
  MaxFaults = 0
SYMMETRY Symmetry
PROPERTIES
  RestoreSpares
