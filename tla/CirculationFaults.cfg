CONSTANTS
  Card = {c1, c2}
  NoCard = none
  W = 3
  Slots = 2
  InitBooks = 1
  MaxId = 1
  Typed = {1, 4}
  Faults = {"torn_borrow", "torn_return", "stale_read", "lost_ack", "reboot", "delete_lent"}

SPECIFICATION Spec

INVARIANT TypeOK

PROPERTY LentIsWritten
