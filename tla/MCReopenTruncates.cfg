SPECIFICATION Spec
CONSTANTS
  a = a
  b = b
  one = one
  two = two
  three = three
  None = None
  Keys <- MCKeys
  Values <- MCValues
  Length <- MCLength
  RefCounted = {TRUE, FALSE}
  LOCKED_REF = 2
  SlotSpace = 4
  INDEX_SIZE = 1
  HeaderSize = 2
  GrowSlots = 2
  CommitsLeft = FALSE
  MaxSlots = 4
  MaxOps = 3
  MaxRecordOps = 2
  MaxStops = 1
PROPERTY GrowthKeepsEntries
SYMMETRY MCSymmetry
CHECK_DEADLOCK FALSE
