SPECIFICATION Spec
CONSTANTS
  a = a
  b = b
  Others = {c, d}
  Node <- MCNode
  Told <- MCTold
  MaxNum = 2
  MaxCalls = 2
  OwnAnswers = FALSE
SYMMETRY Interchangeable
INVARIANT AnswersWithFewer
\* Nodes may have stopped, or know of nobody to ask.
CHECK_DEADLOCK FALSE
