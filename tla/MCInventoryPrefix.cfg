CONSTANTS
  Graph <- MCGraph
  ValidName <- MCValidName
  TunnelIP = "host1"
  PortBase = 10
  PortGap = 7
  MacBase = 100
  MaxMAC = 117

SPECIFICATION Spec

INVARIANT
  PrefixValidated
