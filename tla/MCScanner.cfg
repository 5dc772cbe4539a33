SPECIFICATION Spec
CONSTANTS
  MaxFrames = 2
  MaxPending = 3
  MaxQuizzes = 2
INVARIANTS TypeOK StoppedForAReason
