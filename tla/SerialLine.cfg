CONSTANTS
  CR = cr
  LF = lf
  Zero = zero
  Byte = {zero, cr, lf, d1}
  RecLen = 4

SPECIFICATION SerialSpec

INVARIANTS
  SerialTypeOK
  ReaderSeesWholeLine

PROPERTIES
  FinishedLineFrozen
  ImplementsLineInput
