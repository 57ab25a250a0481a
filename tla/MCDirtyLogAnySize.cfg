CONSTANTS
  Slots = {0, 1}
  RegionSizes <- MCRegionSizes
  PageSize = 4096
  AnySize = TRUE
SPECIFICATION Spec
INVARIANT BitmapCoversSlot
