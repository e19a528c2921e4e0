SPECIFICATION Spec
CONSTANTS
  plain = plain
  counted = counted
  v1 = v1
  v2 = v2
  Keys <- MCKeys
  Preimage <- MCPreimage
  RefCounted <- MCRefCounted
  Values <- MCValues
  Image <- MCImage
  LOCKED_REF = 2
  None = None
  Keep = Keep
  Readers = {r1}
  MaxCommits = 2
INVARIANTS TypeOK ViewIsLoggedState OverlaysDrain IInv
PROPERTIES ReadsAreCurrent ReferencedIsFound 
CHECK_DEADLOCK FALSE
