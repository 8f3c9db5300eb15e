SPECIFICATION AiSpec
CONSTANTS
  Budget = 3
  MaxStarts = 4
INVARIANTS
  CompletedIsTerminal
CHECK_DEADLOCK FALSE
