SPECIFICATION Spec
CONSTANTS
  s1 = s1
  s2 = s2
  Units <- FewUnits
  Servers = {s1, s2}
  Configurable = {}
  Faults = {"malloc", "client"}
SYMMETRY Sym
INVARIANTS NotAllFail CompleteIsExclusive FailedReleases
CHECK_DEADLOCK FALSE
