SPECIFICATION Spec
CONSTANTS
  MAXQUEENS = 6
  Argv <- MCArgv
INVARIANTS
  CountedBoardsArePeaceful
  SearchIsComplete
  DiagonalsInBounds
CHECK_DEADLOCK FALSE
