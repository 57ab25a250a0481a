CONSTANTS
  c1 = c1
  c2 = c2
  VmcsSize = 4096
  VmcbSize = 4096
  Vcpus <- MCVcpus
SYMMETRY MCSymmetry
SPECIFICATION Spec
INVARIANT TypeOK
INVARIANT LayoutAsTested
PROPERTY EmptyTakesState
