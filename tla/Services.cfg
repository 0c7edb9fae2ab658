SPECIFICATION ServicesSpec
CONSTANTS
  None = none
  Torn = torn
  h1 = h1
  h2 = h2
  p1 = p1
  p2 = p2
  s1 = s1
  s2 = s2
  a1 = a1
  a2 = a2
  l1 = l1
  Handlers = {h1, h2}
  Users = {"first", "second"}
  Requests <- XrayRequests
  MaxRequests = 3
  MaxFaults = 1
  FewFaults = 1
  u1 = u1
  u2 = u2
  NewUsers = {u1, u2}
  NewUserAsks <- SomeAdds
  LastId = 4
  LastPort = 3
  MaxAdds = 3
  SomeFaults = 1
  ServicePorts = {p1, p2}
  Settings = {s1, s2}
  Wants <- SomeWants
  UserIds = {0, 1}
  Vnis = {1, 2}
  UdpPorts = {4789, 5000}
  DefaultPort = 4789
  Addrs = {a1, a2}
  Ulas = {l1}
  TunnelRequests <- VxlanRequests
SYMMETRY Sym
INVARIANTS ServicesTypeOK NamesAgree KeysAgree RunsItsFiles ListensOpen  XrayAgrees ForwardsFit PairsDiffer 
CHECK_DEADLOCK FALSE
