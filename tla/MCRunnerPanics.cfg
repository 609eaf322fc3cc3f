CONSTANTS
  d1 = d1
  d2 = d2
  d3 = d3
  Device = {d1, d2}
  Imaged = {d1, d2}
  BMC = {}
  Overflow = TRUE
  Isolated = TRUE
  Unprefixed = TRUE
  Function <- MCFunction
  Server = d3
  WriteSSH = TRUE
  WriteBMC = FALSE

SPECIFICATION Spec

INVARIANTS
  TypeOK
  DestroyComplete
