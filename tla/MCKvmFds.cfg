CONSTANTS
  h1 = h1
  h2 = h2
  h3 = h3
  Handles <- MCHandles
  Fds <- MCFds
  Std = {0}
  DeviceTest = {FALSE}
  DeviceField = {0}
SYMMETRY MCSymmetry
SPECIFICATION Spec
INVARIANT TypeOK
INVARIANT OwnershipSound
INVARIANT NoLeak
