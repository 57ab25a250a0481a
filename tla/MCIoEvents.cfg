CONSTANTS
  e1 = e1
  e2 = e2
  EventFds <- MCEventFds
  Addrs = {1}
  Sizes = {0, 1}
  DataVals = {0, 1}
  Gsis = {4, 5}
SYMMETRY MCSymmetry
SPECIFICATION Spec
INVARIANT TypeOK
INVARIANT SignalsAsRequested
