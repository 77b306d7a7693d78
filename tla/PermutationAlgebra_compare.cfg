CONSTANTS
  IndexMod = 16
  Degrees = {2}
SPECIFICATION ObjectsSpec
INVARIANT NotEqualIsNegation
