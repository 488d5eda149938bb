SPECIFICATION Spec
CONSTANTS
  OsNames = {A, B, C}
  Scores = {0, 1, 2}
  NoPoints = no_points
  Failed = failed
  max_matches = 2
  MaxElements = 2
  MaxSeen = 1
INVARIANTS
  ReturnsDocumentedStatus
