\* The shell ends at the end of its input or with exit.
CONSTANTS
  Lines <- MCLines
  MaxLines = 3
  MaxCarried = 4
  Dirs <- MCDirs
  Home <- MCHome
  MaxDepth = 2
  PathVar <- MCPath
  Rooted <- MCRooted
  Files <- MCFiles
SPECIFICATION Spec
INVARIANTS ShellTypeOK RereadOnlyAfterExit ListsHeld AnswersShown
PROPERTIES ImplementsSession ShellFinishes
CHECK_DEADLOCK FALSE
