SPECIFICATION Spec
CONSTANTS
  Request = {q1, q2}
  plain = plain
  long = long
  short = short
  Address <- MCAddress
  Canon <- MCCanon
  Spelled <- MCAddress
  Platform = {"Darwin"}
  Patient = TRUE
  MaxFaults = 0
INVARIANT
  Agreement
