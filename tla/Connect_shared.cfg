SPECIFICATION Spec
CONSTANTS
  c1 = c1
  c2 = c2
  h1 = h1
  h2 = h2
  Conns = {c1, c2}
  Hosts = {h1, h2}
  HostOf <- TwoHosts
  TransOf <- Tcp
  AddrLists <- TwoAddresses
  Fds = {0, 1}
  MayFail = {}
  Outcomes = {"refused"}
PROPERTIES RetryMovesOn
