CONSTANTS
  Modulus = 5
  Lengths <- MCLengths
  Rounds <- MCRounds
  XorCtr <- MCXorCtr
  NoData = NoData
  MaxBytes = 34
  Byte <- MCByte
  Old = Old
  MaxSpent = 6
SPECIFICATION Spec
INVARIANTS
  NoReuse
  CountersAgree
  OnlyNumBytes
PROPERTY Implements
