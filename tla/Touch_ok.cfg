SPECIFICATION Spec
CONSTANTS
  Positions <- MCPositions
  Counts = {0, 1, 5, 6}
  Garbage <- MCGarbage
INVARIANT TypeOK NoGhostTouch NoFalseRelease CrossAtTouch
PROPERTY ReleaseSeen
