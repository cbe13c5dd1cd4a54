SPECIFICATION Spec
CONSTANTS
  c1 = c1
  c2 = c2
  h1 = h1
  h2 = h2
  Conns = {c1, c2}
  Hosts = {h1, h2}
  HostOf <- TwoHosts
  TransOf <- TcpAndInet
  AddrLists <- Lists2
  Fds = {0, 1, 2}
  MayFail = {"in", "in6"}
  Outcomes = {"ok", "refused"}
INVARIANTS ConnectMatches NoSocketLeak
PROPERTIES OwnDescriptors WholeListSeen
