CONSTANTS
  d1 = d1
  d2 = d2
  d3 = d3
  Device = {d1, d2}
  Imaged = {d1, d2}
  BMC = {d2}
  Overflow = FALSE
  Isolated = FALSE
  Unprefixed = FALSE
  Function <- MCFunction
  Server = d1
  WriteSSH = FALSE
  WriteBMC = FALSE

SPECIFICATION Spec

INVARIANTS
  DestroyAfterRun
