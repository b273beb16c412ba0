CONSTANTS
  Key <- MCKey
  Normal <- MCNormal
  Shifted <- MCShifted
  Cells = 4
  NUL = "NUL"

SPECIFICATION KeyboardSpec

PROPERTIES
  FacesFollowMode
  ImplementsEditor
