CONSTANTS
  Card = {c1, c2}
  NoCard = none
  W = 4
  Slots = 3
  InitBooks = 1
  MaxId = 2
  Typed = {0, 1, 2, 5}
  Faults = {"torn_return"}

SPECIFICATION Spec

PROPERTY ReturnedBookGone
