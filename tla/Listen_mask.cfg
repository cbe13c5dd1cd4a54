SPECIFICATION Spec
CONSTANTS
  s1 = s1
  Units <- MCUnits
  Servers = {s1}
  Configurable = {"tcp", "local", "unix"}
  Faults = {"systemd", "open", "mkdir", "longpath", "bind", "listen", "malloc", "crash", "restart", "cleaner", "accept", "client"}
INVARIANTS TempFits
PROPERTIES MaskLeaks ResetWhenGone PartialTruthful BlamesOther
