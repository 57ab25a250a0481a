CONSTANTS
  Slots = {0, 1}
  RegionSizes <- MCRegionSizes
  PageSize = 4096
  AnySize = FALSE
SPECIFICATION Spec
INVARIANT TypeOK
INVARIANT BitmapCoversSlot
