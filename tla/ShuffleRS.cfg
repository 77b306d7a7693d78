CONSTANTS
  Arrays <- MCArrays
  CHAR_BIT = 2
  ElemBytes = 2
  MaxDepth = 2
SPECIFICATION Spec
INVARIANTS
  OwnDrawnBits
  Conserved
PROPERTIES
  Implements
  Returns
  EndlessOnceFailed
