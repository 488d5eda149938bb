SPECIFICATION SpecPart
CONSTANTS
  Buffers <- MCBuffers
  Arguments <- MCArguments
  Sources = {"10.0.0.2", "10.0.0.3"}
  InterfaceLists <- MCLists
  UINT16_MAX = 12
  ULONG_MAX = 999
  Messages <- MCMessages
  BYTE = 4
  Frames <- MCFrames
  IDLE = idle
INVARIANTS
  ScansTwoGivenPorts
  CapturesWhereItSends
  VerifiesIfIntact
  IsOnesComplement
  ReadsInsideCapture
  DeliversTheDatagram
  ReadsInsideField
  StringNeverFills
  WalksAgree
CHECK_DEADLOCK FALSE
