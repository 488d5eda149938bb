SPECIFICATION SpecPart
CONSTANTS
  UINT32 = 256
  IDLE = IDLE
  Questions <- MCQuestions
  Observed <- MCObserved
  References <- MCReferences
  Weights <- MCWeights
INVARIANTS
  MatchesWhatIsDenoted
  ScoresCommonFields
CHECK_DEADLOCK FALSE
