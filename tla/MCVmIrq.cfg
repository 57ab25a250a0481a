CONSTANTS
  e1 = e1
  e2 = e2
  EventFds <- MCEventFds
  Addrs = {}
  Sizes = {0}
  DataVals = {0}
  Gsis = {4, 5}
  ChipVals = {0, 10}
  PitVals = {0, 1}
  ClockVals = {0, 1, 2, 3}
  MaxVcpus = 1
  Pins = {24, 49}
  Offsets = {1048509, 1048574}
  DefaultRoutes = {4}
SYMMETRY MCSymmetry
SPECIFICATION VmSpec
INVARIANT ChipAsReported
