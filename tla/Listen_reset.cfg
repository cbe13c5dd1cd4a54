SPECIFICATION Spec
CONSTANTS
  s1 = s1
  Units <- NoUnits
  Servers = {s1}
  Configurable = {}
  Faults = {"cleaner", "accept"}
INVARIANTS ResetRecreates
CHECK_DEADLOCK FALSE
