CONSTANTS
  IndexMod = 16
  Sizes = {0, 1, 2, 3, 4}
  Arrays <- MCArrays
  RndWords <- MCRndWords
  Bits = 4
  Mods = {2, 3, 5, 7, 8, 9, 15}
SPECIFICATION SampledSpec
INVARIANTS
  Rearranged
  RankReadsChoices
  AcceptHalf
  Unbiased
PROPERTIES
  SettledStay
  Implements
  ReturnsOrStuck
  StuckOnceRejected
