CONSTANTS
  IndexMod = 16
  Degrees = {0, 1, 2, 3, 4}
SPECIFICATION ObjectsSpec
INVARIANTS
  ProductActs
  InverseUndoes
