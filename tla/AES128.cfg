CONSTANTS
  Word <- MCWord
  ZeroW = 0
  XorW <- MCXorW
  SubWord <- MCSubWord
  RotWord <- MCRotWord
  ShiftSub <- MCShiftSub
  InvShiftSub <- MCInvShiftSub
  Mix <- MCMix
  InvMix <- MCInvMix
  NumRounds = 10
  FeedRound = 5
  RconArray <- MCRcon
  Width = 2
  Keys <- MCKeys
  Inputs <- MCInputs
SPECIFICATION Spec
INVARIANTS
  FipsKeySchedule
  FipsOutput
  DecInvertsCipher
  RoundTrip
