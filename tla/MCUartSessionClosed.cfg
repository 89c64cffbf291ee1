SPECIFICATION Spec
CONSTANTS
  Callers = {a, b}
  MaxBytes = 5
  CharEnds = {1, 2, 4, 5}
  Chunk = 2
  MaxBuffer = 3
  PatLen = 2
  Marks = {2, 4}
INVARIANTS ClosedOnceEnded
