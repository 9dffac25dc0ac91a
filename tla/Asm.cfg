\* The program ends when main returns.
CONSTANTS
  MaxWords = 28
  N = 3
  Boards <- MCAsmBoards
  MaxIters = 2
  WordLimit = 128
  MaxN = 7
  MatrixN = 2
  Matrices <- MCMatrices
SPECIFICATION AsmSpec
INVARIANTS RegistersRestored AnswersRight
PROPERTIES ImplementsGrid Returns
CHECK_DEADLOCK FALSE
