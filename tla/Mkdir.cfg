SPECIFICATION Spec
CONSTANTS
  root = root
  user = user
  first = first
  second = second
  outside = outside
  Callers <- MCCallers
  Root <- MCRoot
  Inodes <- MCInodes
  Elsewhere = outside
SYMMETRY Symmetry
INVARIANT SuccessIsSafe
PROPERTY CorrectsWhatItSaw
CHECK_DEADLOCK FALSE
