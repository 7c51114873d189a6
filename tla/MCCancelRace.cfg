SPECIFICATION Spec
CONSTANTS
  Moves = {m1, m2}
  NoMove = NoMove
  Workers = {w1, w2}
  NoWorker = NoWorker
  Journals = {1}
  MoveTypes = {"invoice"}
  MaxDate = 2
  NewYear = 2
  Amounts = {0}
  MaxDraws = 3
  Calls <- CancelCalls
  OneAtATime = FALSE
  FrozenLines = TRUE
SYMMETRY Symmetry
CHECK_DEADLOCK FALSE

PROPERTY PostedNotCancelled
