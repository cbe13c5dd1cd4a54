SPECIFICATION FairSpec
CONSTANTS
  s1 = s1
  s2 = s2
  Units <- NoUnits
  Servers = {s1, s2}
  Configurable = {"tcp"}
  Faults = {"crash", "restart", "cleaner"}
INVARIANTS OneServer
PROPERTIES PathLoss StartEnds
