CONSTANTS
  e1 = e1
  e2 = e2
  e3 = e3
  Evt1 = e1
  Evt2 = e2
  Evt3 = e3
  EventFds <- MCEventFds
  Addrs = {193, 194, 196, 200, 244, 4096}
  Sizes = {0, 1, 2, 4, 8}
  DataVals = {0, 1, 2, 3, 4}
  Gsis = {0, 4, 5, 8}
  ChipVals = {0, 10}
  PitVals = {0}
  ClockVals = {0, 10, 11, 12, 13}
  MaxVcpus = 1
  Pins = {0, 24}
  Offsets = {1048509}
  DefaultRoutes = {0, 4, 5, 8}
SPECIFICATION TraceSpec
PROPERTY TestsPass
CHECK_DEADLOCK FALSE
