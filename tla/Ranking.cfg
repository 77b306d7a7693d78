CONSTANTS
  IndexMod = 16
  Degrees = {1, 2, 3, 4, 5}
SPECIFICATION Spec
INVARIANTS
  RankInRange
  SwapsAgree
  DivideKeepsPerm
PROPERTY RoundTrips
