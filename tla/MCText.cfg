SPECIFICATION SpecPart
CONSTANTS
  Capacities = {1, 10, 160, 1024}
  MaxOptions = 19
  Lines <- MCLines
  Texts <- MCTexts
  Files <- MCFiles
  MayFail = TRUE
  IDLE = idle
INVARIANTS
  AllOrNothing
  LinesReadBack
  ReadsWhatIsWritten
  BlocksAccounted
  ReadsReferencesInOrder
CHECK_DEADLOCK FALSE
