CONSTANTS
  w1 = w1
  w2 = w2
  z = z
  v1 = v1
  garbage = garbage
  Handles <- MCHandles
  MaxLen = 2
  Values <- MCValues
  Zero = z
  Flags <- MCFlags
  Garbage = garbage
SYMMETRY MCSymmetry
SPECIFICATION Spec
INVARIANT TypeOK
INVARIANT CountWithinAllocation
 
PROPERTY FamRefines
