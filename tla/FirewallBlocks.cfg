SPECIFICATION Spec
CONSTANTS
  Request = {q1, q2, q3}
  plain = plain
  long = long
  short = short
  Address <- MCAddress
  Canon <- MCCanon
  Spelled <- MCCanonical
  Platform = {"Darwin", "Linux", "Windows"}
  Patient = TRUE
  MaxFaults = 2
SYMMETRY Symmetry
INVARIANTS
  TypeOK
  Agreement
PROPERTY
  SuccessRepairs
