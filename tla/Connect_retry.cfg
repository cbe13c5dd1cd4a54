SPECIFICATION FairSpec
CONSTANTS
  c1 = c1
  c2 = c2
  h1 = h1
  h2 = h2
  Conns = {c1}
  Hosts = {h1}
  HostOf <- OneHost
  TransOf <- Tcp
  AddrLists <- Lists3
  Fds = {0, 1}
  MayFail = {}
  Outcomes = {"ok", "noaddr", "progress", "refused", "unreach", "fatal"}
PROPERTIES RetryMovesOn ConnectEnds
