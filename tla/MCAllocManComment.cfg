SPECIFICATION Spec
CONSTANTS
  Block = {b1}
  Value = {v1}
  SAVED_FRAMES = 4
CONSTRAINT Sane
PROPERTIES
  SetBackHasNoContents
