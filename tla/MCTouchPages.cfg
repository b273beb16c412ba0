CONSTANTS
  Point <- MCPoint
  Wild <- MCWild
  Every = 2
  Last = 4
  None = none

SPECIFICATION TouchFairSpec

INVARIANT HandOverByNewTouch

PROPERTIES
  ReleaseIsReal
  HeldTouchSeen
