CONSTANTS
  p1 = p1
  p2 = p2
  d1 = d1
  d2 = d2
  u1 = u1
  u2 = u2
  u3 = u3
  NoURL = NoURL
  Proc = {p1, p2}
  Device = {d1, d2}
  URL = {u1, u2, u3}
  Name = {"n1", "n2"}
  Image <- MCImage
  Base <- MCBase

SPECIFICATION Spec

INVARIANTS
  TypeOK
  NoMissingBase
  DownloadsJoined
  OwnDownloadComplete

PROPERTIES
  CompleteStays
  StoppedCallReturns
