\* The program ends after the last iteration.
CONSTANTS
  N = 3
  Boards <- MCBoards
  MaxIters = 3
SPECIFICATION Spec
INVARIANTS ScreenShowsBoard
PROPERTIES ImplementsGrid Finishes
CHECK_DEADLOCK FALSE
