SPECIFICATION FairSpec
CONSTANTS
  Moves = {m1, m2}
  NoMove = NoMove
  Workers = {w1, w2}
  NoWorker = NoWorker
  Journals = {1}
  MoveTypes = {"invoice"}
  MaxDate = 2
  NewYear = 2
  Amounts = {0}
  MaxDraws = 2
  Calls <- NumberCalls
  OneAtATime = FALSE
  FrozenLines = TRUE
CHECK_DEADLOCK FALSE
INVARIANTS NamesUnique
PROPERTIES ImplementsRegister RequestsEnd
