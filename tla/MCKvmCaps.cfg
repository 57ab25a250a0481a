CONSTANTS
  OnlineCpus = {2, 8}
  KvmMaxVcpus = 1024
  UserMemSlots = 32764
  RunSize = 12288
  UsizeModulus <- MCUsizeModulus
SPECIFICATION Spec
INVARIANT TypeOK
INVARIANT CountsPositive
INVARIANT MaxAtLeastNr
