CONSTANTS
  k1 = k1
  k2 = k2
  Slots <- TwoSlots
  MaxEvents = 2
  MaxVolatile = 1
  MaxFaults = 1
  SmallSort = 16
SPECIFICATION FairSpec
INVARIANTS DeliveredInOrder
PROPERTIES PageIsServed ThreadsAreReleased
CHECK_DEADLOCK FALSE
