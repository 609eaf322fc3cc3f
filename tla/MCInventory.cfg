CONSTANTS
  Graph <- MCGraph
  ValidName <- MCValidName
  TunnelIP = "host1"
  PortBase = 10
  PortGap = 7
  MacBase = 100
  MaxMAC = 117

SPECIFICATION Spec

INVARIANTS
  ParseDecided
  AddressesDistinct
  TunnelsPaired
  MacsDistinct
  HostsFile
  MgmtBridged
  GatherSafe
