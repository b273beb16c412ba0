CONSTANTS
  Lcd = lcd
  Pages = {find, borrow, giveback, change}
  None = none

SPECIFICATION Spec

INVARIANTS
  TypeOK
  OneOwner
  NeverLost
  ShownWhileServing
  ChosenPageServes
