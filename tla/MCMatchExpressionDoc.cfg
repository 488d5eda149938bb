SPECIFICATION Spec
CONSTANTS
  UINT32 = 256
  Questions <- MCQuestions
INVARIANTS
  InvalidIsError
CHECK_DEADLOCK FALSE
