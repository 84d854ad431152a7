SPECIFICATION Spec
CONSTANTS
  Block = {b1, b2}
  Value = {v1}
  SAVED_FRAMES = 3
PROPERTIES
  UntaggedIsNewer
