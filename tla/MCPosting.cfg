SPECIFICATION Spec
CONSTANTS
  Moves = {m1, m2}
  NoMove = NoMove
  Workers = {w1, w2}
  NoWorker = NoWorker
  Journals = {1}
  MoveTypes = {"entry", "invoice"}
  MaxDate = 2
  NewYear = 3
  Amounts = {0, 1}
  MaxDraws = 2
  Calls <- AllCalls
  OneAtATime = TRUE
  FrozenLines = TRUE
SYMMETRY Symmetry
CHECK_DEADLOCK FALSE
INVARIANTS TypeOK PostedBalanced MatchedIsPosted
PROPERTY ClosedPeriodKept
