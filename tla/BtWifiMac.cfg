SPECIFICATION Spec
CONSTANTS
  a = a
  m = m
  Addrs = {a, m}
  Multicast = {m}
  FactoryFiles <- FactoryContents
  RandFiles <- RandFileContents
  Absent = Absent
  Empty = Empty
INVARIANTS AckedIsStored HandedOnWhenStored NoMulticastWifi
PROPERTIES PropsFromMedium
